SPECIFICATION ClientsSpec
CONSTANTS
  FspSeqs = {0, 1}
  FspSize = 3
  FspSpace = 2
  FspChunk = 2
  FspSends = 2
  h1 = h1
  h2 = h2
  SftpHandles = {h1, h2}
  SftpSize = 2
  SftpBlock = 2
  SftpPrompts = 2
  HttpSize = 3
  HttpLeaks = 1
  HttpStale = 1
INVARIANT ClientsTypeOK
 
INVARIANT FspOkIsDone
INVARIANT SftpInStep
 
 
INVARIANT HttpInOrder
PROPERTY FspAbortKeeps
PROPERTY ClientsReturn
