SPECIFICATION FactsSpec
CONSTANTS
  GenesisRows <- Genesis
  FactClaims <- Story
  MaxClaims = 2
  MaxGenerations = 3
INVARIANT ReviewIsReadable
CHECK_DEADLOCK FALSE
