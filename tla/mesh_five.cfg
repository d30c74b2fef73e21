\* Five processes, four of them started at the same time through the first.
CONSTANTS
  n1 = n1
  n2 = n2
  n3 = n3
  n4 = n4
  n5 = n5
  NoNode = NoNode
  NoRep = NoRep
  Node <- Five
  IdOf <- Ids
  HostOf <- Hosts
  PortOf <- Ports
  NodeArg <- Star
  Launch = "hub"
SPECIFICATION LaunchAll
INVARIANT MeshComplete
CHECK_DEADLOCK FALSE
