SPECIFICATION Spec
CONSTANTS
  c1 = c1
  c2 = c2
  self = self
  Callers <- WithSelf
  Self = self
  MaxCalls <- OneMoreOfC1
  TSO = TRUE
INVARIANTS
  TypeOK
  IdsInOrder
  MsgCountBalanced
PROPERTY KeepsQueuePromise
CHECK_DEADLOCK FALSE
