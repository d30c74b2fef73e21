\* Two users join, or two messages come, or two are sent, while the user types lines.
CONSTANTS
  sp = sp
  Space <- sp
  Word <- Words
  User <- Users
  Mail <- Mails
  Image <- Images
  Line <- Lines
  Letter <- Letters
  Call <- Calls
  Casts <- Casts_
  Op <- Ops
  Name = {x, y}
  MaxLines = 2
  NoUser = NoUser
  NoThread = NoThread
  NoName = NoName
  NoText = NoText
SPECIFICATION DeskSpec
INVARIANTS
  TypeOK
  LinesWhole
  ListShowsUsers
  AbortsOnlyInOverlap
  CursorAtInput
  SentAsTyped
  OwnText
  NothingLeft
PROPERTIES
  OwnColours
  MessagesShown
CHECK_DEADLOCK FALSE
