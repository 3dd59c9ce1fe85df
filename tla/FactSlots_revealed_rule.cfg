SPECIFICATION FactsSpec
CONSTANTS
  GenesisRows <- Genesis
  FactClaims <- RevealAndBreak
  MaxClaims = 2
  MaxGenerations = 3
INVARIANT EveryHeadFolds
CHECK_DEADLOCK FALSE
