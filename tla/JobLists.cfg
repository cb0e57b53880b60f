SPECIFICATION Spec
CONSTANTS
  Queue <- QueueOfTwo
  LateFiles = {c}
  NoFile = NoFile
  Dirs = {b}
  Exists = {}
  NBlocks = 1
  Retries = 1
  CapRetries = 2
  NoTimeout = FALSE
  StartTransfers = FALSE
  RefreshFiles = TRUE
  AskPassword = TRUE
  SameDir = TRUE
  Racy = FALSE
  UserOps = {"start", "move_running", "append"}
  a = a
  b = b
  c = c
INVARIANT WalkIsExact
INVARIANT PostProcessedAfterTransfer
 
CHECK_DEADLOCK FALSE
