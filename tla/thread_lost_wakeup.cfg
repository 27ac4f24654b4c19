SPECIFICATION Spec
CONSTANTS
  c1 = c1
  c2 = c2
  self = self
  Callers <- External
  Self = self
  MaxCalls <- TwoCallsEach
  TSO = TRUE
INVARIANT NoLostWakeup
CHECK_DEADLOCK FALSE
