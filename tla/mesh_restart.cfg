\* Three users, two of whom may stop, at any time, and start again under the same id.
CONSTANTS
  n1 = n1
  n2 = n2
  n3 = n3
  r1 = r1
  r2 = r2
  NoNode = NoNode
  NoRep = NoRep
  Node <- Lives
  IdOf <- Ids
  HostOf <- Hosts
  PortOf <- Ports
  NodeArg <- Anybody
  Launch = "hub"
  MaxStops = 2
SPECIFICATION RejoinSafe
INVARIANTS
  IntroducedMeet
  MutualWhileUp
CHECK_DEADLOCK FALSE
