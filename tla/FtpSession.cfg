SPECIFICATION Spec
CONSTANTS
  HasAccount = TRUE
  HasDirectory = TRUE
  DefaultAscii = FALSE
  Ops = {"connect", "command", "rename", "chdir", "list", "get", "put", "end", "abort"}
  MaxDepth = 3
  MaxUnread = 1
INVARIANT TypeOK
 
INVARIANT LoggedIn
INVARIANT OffsetHonoured
 
PROPERTY OperationReturns
