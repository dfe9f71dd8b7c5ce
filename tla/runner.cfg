SPECIFICATION FairSpec
CONSTANTS
  Files <- MCFiles
  SerialTagged <- MCSerialTagged
  SmokeTagged <- MCSmokeTagged
  Duration <- MCDuration
  WorkerCount = 2
  Staggered = TRUE
  MaxRuns = 2
  NoFile = NoFile
INVARIANTS
  SuccessMeansAllPassed
  ParallelOnlyAfterSerialPassed
  MergedReportComplete
PROPERTIES
  BailStopsDispatch
  StaleReportOnlyFromUnmergedRun
  RunsTheQueue
  RunEnds
CHECK_DEADLOCK FALSE
