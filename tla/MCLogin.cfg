SPECIFICATION Spec
CONSTANTS
  Deadline = 3
  ReadLimit = 2
  MaxConn = 3
  MaxParts = 1
  LoginProcess = login
  Other = {start}
  MaxToken = 4
INVARIANTS
  TypeOK
  CallbackTaken
  TokenUsable
CHECK_DEADLOCK FALSE
