SPECIFICATION Spec
CONSTANTS
  b1 = b1
  b2 = b2
  Calls <- MCCalls
  Count <- MCCount
  BatchSize = 2
  MaxAttempts = 3
INVARIANTS
  NoNonceGap
  ReturnedMeansSent
  OverSendBound
CHECK_DEADLOCK FALSE
