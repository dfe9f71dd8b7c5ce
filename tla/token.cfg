SPECIFICATION FairSpec
CONSTANTS
  erc20 = erc20
  enygma = enygma
  old = old
  None = None
  Tokens <- MCTokens
  Script <- MCScript
  Earlier <- MCEarlier
  Draws <- MCDraws
  Attempts = 2
  MaxFaults = 2
INVARIANTS
  OwnResourceId
  KeptAddressIsLive
  NoCallReverts
PROPERTIES
  ScriptEnds
CHECK_DEADLOCK FALSE
