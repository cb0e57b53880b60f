SPECIFICATION Spec
CONSTANTS
  w1 = w1
  w2 = w2
  j1 = j1
  j2 = j2
  s1 = s1
  s2 = s2
  s3 = s3
  s4 = s4
  h1 = h1
  h2 = h2
  Wins = {w1, w2}
  Jobs = {j1, j2}
  RemoteHosts = {h1, h2}
  Local = Local
  NoHost = NoHost
  Socks = {s1, s2, s3}
  NoSock = NoSock
  LocalWin = w1
  Connectable = {w2}
  OneTransfer = TRUE
  MaxDepth = 2
  UserOps = {"connect", "disconnect", "browse", "transfer", "stop"}
INVARIANT TypeOK
INVARIANT HeldIsOpen
PROPERTY NoConnectionDropped
PROPERTY HostKept
PROPERTY ImplementsQueue
SYMMETRY SymmetricSocks
CHECK_DEADLOCK FALSE
