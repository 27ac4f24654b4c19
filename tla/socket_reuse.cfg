SPECIFICATION Spec
CONSTANTS
  t1 = t1
  t2 = t2
  Threads = {t1, t2}
  MaxCalls <- ThreeAndTwo
  MaxId = 2
  Size = 2
  Ops = {"S", "D", "K", "K1"}
  EarlySend = FALSE
  Peer = {"accepts", "closes", "breaks"}
INVARIANTS SendingCounts OwnMessages OwnedOnce EventsAreFresh
CHECK_DEADLOCK FALSE
