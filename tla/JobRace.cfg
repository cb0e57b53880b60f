SPECIFICATION Spec
CONSTANTS
  Queue <- QueueOfTwo
  LateFiles = {}
  NoFile = NoFile
  Dirs = {}
  Exists = {a}
  NBlocks = 1
  Retries = 1
  CapRetries = 2
  NoTimeout = FALSE
  StartTransfers = TRUE
  RefreshFiles = FALSE
  AskPassword = FALSE
  SameDir = TRUE
  Racy = TRUE
  UserOps = {"stop", "skip", "remove", "move_queued"}
  a = a
  b = b
  c = c
INVARIANT TypeOK
INVARIANT NoUseAfterFree
PROPERTY SkipSticks
CHECK_DEADLOCK FALSE
