SPECIFICATION Spec
CONSTANTS
  I = I R = R
  MaxSkip = 2
  MaxSavedChains = 4
  MaxKeys = 3
  MaxSends = 2
  MaxFaults = 0
  Duplicates = FALSE
PROPERTY SavedChainDecrypts
CHECK_DEADLOCK FALSE
