SPECIFICATION FairSpec
CONSTANTS
  c1 = c1
  c2 = c2
  self = self
  Callers <- External
  Self = self
  MaxCalls <- TwoCallsEach
  TSO = FALSE
INVARIANT NoLostWakeup
PROPERTIES
  HandlesInTheEnd
  CallsReturn
CHECK_DEADLOCK FALSE
