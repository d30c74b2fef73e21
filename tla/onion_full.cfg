\* Everybody knows everybody before anybody writes, and everybody stays.
CONSTANTS
  n1 = n1
  n2 = n2
  n3 = n3
  m1 = m1
  m2 = m2
  Nobody = Nobody
  Node <- Three
  IdOf <- Ids
  Msg <- Two
  Author <- Authors
  Addressee <- Addressees
  Kind <- Kinds
  WaitForAll = TRUE
  MaxHops = 3
  MaxStops = 0
SPECIFICATION Spec
INVARIANTS
  NobodyCrashes
PROPERTIES
  Delivered
CHECK_DEADLOCK FALSE
