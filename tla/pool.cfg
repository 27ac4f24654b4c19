SPECIFICATION FairSpec
CONSTANTS
  a = a
  b = b
  h = h
  x = x
  y = y
  NoName = NoName
  Callers = {a, b, h}
  Names = {x, y}
  Capacity = 2
  MaxThread = 3
  Home <- MCHome
  Calls <- MCCalls
INVARIANTS
  TypeOK
  PidIsSlot
  OneThreadPerName
PROPERTY StopAllReturns
CHECK_DEADLOCK FALSE
