SPECIFICATION Spec
CONSTANTS
  s1 = s1
  s2 = s2
  t1 = t1
  SubmitCalls <- MCTwoSubmits
  SendCalls <- MCOneSend
  MaxTries = 2
  MaxDisplaced = 2
  SlowChain = FALSE
  FlakyRpc = FALSE
  Evicts = FALSE
INVARIANTS
  ReturnedReceiptIsOwn
PROPERTIES
  CallIsAtomic
CHECK_DEADLOCK FALSE
