\* Processes still learn of each other while a message travels, and one may stop;
\* two users go by the same id.
CONSTANTS
  n1 = n1
  n2 = n2
  n3 = n3
  m1 = m1
  m2 = m2
  Nobody = Nobody
  Node <- Three
  IdOf <- SharedIds
  Msg <- One
  Author <- Authors
  Addressee <- Addressees
  Kind <- Kinds
  WaitForAll = FALSE
  MaxHops = 5
  MaxStops = 1
SPECIFICATION Safe
INVARIANTS
  TypeOK
  OnionsWellWrapped
  OneCopy
  OnlyAddressee
PROPERTIES
  DeliverySpec
CHECK_DEADLOCK FALSE
