SPECIFICATION BrowseSpec
CONSTANTS
  w1 = w1
  w2 = w2
  NoDir = NoDir
  NoFile = NoFile
  Windows = {w1, w2}
  Dirs = {"d1", "d2"}
  Home = "d1"
  CacheFiles = {1, 2, 3}
  Retries = 1
  MaxStarts = 2
  MaxChanges = 1
  MaxDepth = 2
  MaxEmptied = 1
INVARIANT BrowseTypeOK
INVARIANT HalfIsTemporary
 
 
PROPERTY CacheIsFresh
PROPERTY OperationsEnd
ACTION_CONSTRAINT FirstInWindow1
CHECK_DEADLOCK FALSE
