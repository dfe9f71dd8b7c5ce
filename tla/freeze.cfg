SPECIFICATION FairSpec
CONSTANTS
  A = A
  B = B
  Chains <- OneChain
  Replicas <- Nodes
  PairLists <- OneChainLists
  MaxAttempts = 2
  InOrder = TRUE
  SlowHub = TRUE
  Exhausts = TRUE
  MaxTests = 2
INVARIANTS
  SyncedStatusLasts
  CleanWherePolled
PROPERTY
  HookSettles
CHECK_DEADLOCK FALSE
