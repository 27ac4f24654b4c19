SPECIFICATION FairSpec
CONSTANTS
  t1 = t1
  t2 = t2
  Threads = {t1, t2}
  MaxCalls <- TwoAndOne
  MaxId = 1
  Size = 2
  Ops = {"O", "P", "K"}
  EarlySend = FALSE
  Peer = {"connects"}
PROPERTY HalfCloseEnds
CHECK_DEADLOCK FALSE
