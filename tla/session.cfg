\* Command lines of up to five options, and every way through the login forms.
CONSTANTS
  Option <- Options
  MaxOptions = 5
  Garbage <- Stack
  Char <- Keys
  Plain <- AsIs
  MAX_ID_LEN = 1
  MaxPassLen = 1
  Passphrase <- Right
  NaN = NaN
  None = None
SPECIFICATION Safe
INVARIANTS
  TypeOK
  LoggedInAs
  ThreeTries
  DialsLastNode
CHECK_DEADLOCK FALSE
