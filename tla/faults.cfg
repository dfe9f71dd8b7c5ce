SPECIFICATION FairSpec
CONSTANTS
  loop = loop
  neighbour = neighbour
  Tests <- MCTests
  Body <- MCBody
  Hook <- MCHook
  Route <- MCRoute
  Attempts = 2
  MaxFaults = 2
INVARIANTS
  TypeOK
  PassedMeansFired
  RulesDieWithTheHook
  HandedOverAlive
PROPERTIES
  TestsEnd
CHECK_DEADLOCK FALSE
