SPECIFICATION FairSetupSpec
CONSTANTS
  A = A
  B = B
  C = C
  Hub = Hub
  w1 = w1
  w2 = w2
  RaylsNodes <- MCRaylsNodes
  Participants <- MCParticipants
  NodeCount = 2
  WorkerSlots <- TwoSlots
  Body <- MCBody
  FundMin = 1
  FundTarget = 5
  Attempts = 2
  MaxFaults = 1
  MaxRestarts = 1
INVARIANTS
  BootstrapExitMeansReady
  NoGrantRefused
  SetupReturnedMeansOperational
PROPERTIES
  SetupEnds
CHECK_DEADLOCK FALSE
