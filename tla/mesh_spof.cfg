\* README.md:63, when a process joins through one that is itself still joining.
CONSTANTS
  n1 = n1
  n2 = n2
  n3 = n3
  n4 = n4
  NoNode = NoNode
  NoRep = NoRep
  Node <- Three
  IdOf <- Ids
  HostOf <- Hosts
  PortOf <- Ports
  NodeArg <- Chain
  Launch = "target"
SPECIFICATION Safe
INVARIANTS
  NoSinglePointOfFailure
CHECK_DEADLOCK FALSE
