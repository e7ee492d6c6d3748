SPECIFICATION Spec
CONSTANTS
  First = First
  Second = Second
  Calls = {First}
  Validity = 2
  MaxAttempts = 2
  Lag = 1
  NoMessage = NoMessage
CHECK_DEADLOCK FALSE
INVARIANTS
  FailedHasFailed
