SPECIFICATION FairSpec
CONSTANTS
  t1 = t1
  t2 = t2
  Threads = {t1, t2}
  MaxCalls <- ThreeAndTwo
  MaxId = 1
  Size = 2
  Ops = {"O", "D", "P", "K"}
  EarlySend = FALSE
  Peer = {"connects", "refuses"}
INVARIANTS TypeOK NoTornMessage SenderOrder ListsAccounted DataIsWatched
PROPERTY BuffersFreed
CHECK_DEADLOCK FALSE
