SPECIFICATION Spec
CONSTANTS
  A = A
  B = B
  Chains <- Nodes
  Replicas <- Nodes
  PairLists <- SuiteLists
  MaxAttempts = 2
  InOrder = TRUE
  SlowHub = TRUE
  Exhausts = TRUE
  MaxTests = 2
INVARIANT
  CleanBetweenTests
CHECK_DEADLOCK FALSE
