SPECIFICATION Spec
CONSTANTS
  Queue <- QueueOfTwo
  LateFiles = {}
  NoFile = NoFile
  Dirs = {}
  Exists = {}
  NBlocks = 1
  Retries = 1
  CapRetries = 2
  NoTimeout = FALSE
  StartTransfers = FALSE
  RefreshFiles = FALSE
  AskPassword = FALSE
  SameDir = FALSE
  Racy = FALSE
  UserOps = {"stop", "start"}
  a = a
  b = b
  c = c
INVARIANT NoUseAfterFree
CHECK_DEADLOCK FALSE
