SPECIFICATION FairSpec
CONSTANTS
  w1 = w1
  w2 = w2
  Clients <- MCClients
  Script <- MCScript
  Attempts <- MCAttempts
  MaxFaults = 2
INVARIANTS
  TypeOK
  TeleportsAccounted
  RefusedOnlyAfterOwnWrite
PROPERTIES
  ReturnedMeansDone
  FlowsSettle
CHECK_DEADLOCK FALSE
