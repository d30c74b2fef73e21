\* Handshakes and messages, cut and joined anywhere.
CONSTANTS
  Traffic <- Mixed
  Garbage <- Stack
  NoPacket = NoPacket
SPECIFICATION Safe
INVARIANTS
  TypeOK
  PacketsIntact
  IntactUpToMessages
  NothingStuck
  NeverLosesSync
  LayersIntact
CHECK_DEADLOCK FALSE
