SPECIFICATION FairSpec
CONSTANTS
  s1 = s1
  s2 = s2
  t1 = t1
  SubmitCalls <- MCOneSubmit
  SendCalls <- MCNone
  MaxTries = 2
  MaxDisplaced = 3
  SlowChain = TRUE
  FlakyRpc = TRUE
  Evicts = TRUE
INVARIANTS
  BroadcastBudget
PROPERTIES
  CallSettles
CHECK_DEADLOCK FALSE
