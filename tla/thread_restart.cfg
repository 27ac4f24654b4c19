SPECIFICATION RSpec
CONSTANTS
  c1 = c1
  self = self
  Callers <- OneCaller
  Self = self
  MaxCalls <- ThreeCalls
  TSO = FALSE
  MaxStarts = 2
INVARIANT NextIdHandled
CHECK_DEADLOCK FALSE
