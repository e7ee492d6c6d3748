SPECIFICATION FairSpec
CONSTANTS
  First = First
  Second = Second
  Calls = {First, Second}
  Validity = 2
  MaxAttempts = 2
  Lag = 1
  NoMessage = NoMessage
CHECK_DEADLOCK FALSE
INVARIANTS
  TypeOK
  OutcomeIsFinal
  
PROPERTIES
  EveryCallEnds
