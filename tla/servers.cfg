SPECIFICATION FairSpec
CONSTANTS
  a = a
  b = b
  k = k
  l = l
  Names = {a, b}
  Timer = Timer
  Classes = {k, l}
  Scripts <- MCScripts
  Wanted <- MCWanted
  Times = 2
  MaxTime = 3
  Skews = {0, 1}
INVARIANTS
  TypeOK
  InitBeforeStart
  EarlierReachable
  TimersAccounted
  FireNotEarly
PROPERTIES
  TimersFire
  LookupEnds
CHECK_DEADLOCK FALSE
