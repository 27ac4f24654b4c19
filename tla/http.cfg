SPECIFICATION MCSpec
CONSTANTS
  p1 = p1
  c1 = c1
  a1 = a1
  s1 = s1
  PageConns = {p1}
  StreamConns = {c1}
  AsyncRequests = {a1}
  SyncRequests = {s1}
  RequestPieces = 1
  Pieces = 2
INVARIANTS TypeOK OneResponse StreamIsRelayed MapsFollowConnections
PROPERTIES AnswerIsFinal RequestsAreAnswered WaitersComeBack RequestsAreServed
CHECK_DEADLOCK FALSE
