SPECIFICATION Spec
CONSTANTS
  p1 = p1
  c1 = c1
  a1 = a1
  s1 = s1
  PageConns = {}
  StreamConns = {c1}
  AsyncRequests = {}
  SyncRequests = {}
  RequestPieces = 1
  Pieces = 1
INVARIANT StreamFindsClient
CHECK_DEADLOCK FALSE
