SPECIFICATION ViewEditSpec
CONSTANTS
  t1 = t1
  t2 = t2
  Programs <- FewAndMany
  Tasks = {t1, t2}
  OtherPids = {ssh}
  Places = {"d1"}
  Here = "here"
  MaxBrowse = 1
INVARIANT EditKept
INVARIANT UploadGoesBack
PROPERTY ChildrenReaped
ACTION_CONSTRAINT FirstIsT1
CHECK_DEADLOCK FALSE
