SPECIFICATION FairSpec
CONSTANTS
  Queue <- QueueOfTwo
  LateFiles = {}
  NoFile = NoFile
  Dirs = {}
  Exists = {}
  NBlocks = 2
  Retries = 1
  CapRetries = 2
  NoTimeout = TRUE
  StartTransfers = TRUE
  RefreshFiles = FALSE
  AskPassword = FALSE
  SameDir = TRUE
  Racy = FALSE
  UserOps = {"stop"}
  a = a
  b = b
  c = c
 
PROPERTY StartedJobEnds
CHECK_DEADLOCK FALSE
