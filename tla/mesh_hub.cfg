\* Four processes: several at once through the same one, or one after the other through any.
CONSTANTS
  n1 = n1
  n2 = n2
  n3 = n3
  n4 = n4
  NoNode = NoNode
  NoRep = NoRep
  Node <- Four
  IdOf <- Ids
  HostOf <- Hosts
  PortOf <- Ports
  NodeArg <- Chain
  Launch = "hub"
SPECIFICATION Safe
INVARIANTS
  NeverOwnUser
  MeshComplete
CHECK_DEADLOCK FALSE
