\* Three processes that name any other, running or not, in any order.
CONSTANTS
  n1 = n1
  n2 = n2
  n3 = n3
  n4 = n4
  NoNode = NoNode
  NoRep = NoRep
  Node <- Three
  IdOf <- Ids
  HostOf <- Hosts
  PortOf <- Ports
  NodeArg <- Free
  Launch = "any"
SPECIFICATION Spec
INVARIANTS
  TypeOK
  RepReachesUser
  Acquaintance
PROPERTIES
  HandshakesEnd
  DirectoryMutual
  DirectorySpec
CHECK_DEADLOCK FALSE
