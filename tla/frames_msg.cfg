\* README.md:78, for messages cut anywhere.
CONSTANTS
  Traffic <- Messages
  Garbage <- Stack
  NoPacket = NoPacket
SPECIFICATION Safe
INVARIANTS
  CipherTextOfLength
CHECK_DEADLOCK FALSE
