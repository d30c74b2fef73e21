\* README.md:63, when a process stops before a message is sent.
CONSTANTS
  n1 = n1
  n2 = n2
  n3 = n3
  m1 = m1
  m2 = m2
  Nobody = Nobody
  Node <- Three
  IdOf <- Ids
  Msg <- One
  Author <- Authors
  Addressee <- Addressees
  Kind <- Kinds
  WaitForAll = TRUE
  MaxHops = 2
  MaxStops = 1
SPECIFICATION Spec
PROPERTIES
  NoSinglePointOfFailure
CHECK_DEADLOCK FALSE
