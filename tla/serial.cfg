SPECIFICATION SerialSpec
CONSTANTS
  ConfirmProbes = 2
  CrashLoopConfirm = 3
  Deadline = 16
  PollGap = 4
  ConfirmGap = 1
  RecoveryWait = 2
  MaxSlow = 1
  MaxCrashes = 5
  r1 = r1
  r2 = r2
  Relayers <- MCRelayers
  MinUptime = 120
  PollInterval = 30
  Tick = 10
  Horizon = 150
  MaxFaults = 3
INVARIANTS
  NoPhantomCrash
  ZeroCountHidesOnlyAStandingCrash
  NeverOpensInFirstMinute
PROPERTIES
  ObservationEnds
  GateOpens
CHECK_DEADLOCK FALSE
