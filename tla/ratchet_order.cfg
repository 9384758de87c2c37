SPECIFICATION Spec
CONSTANTS
  I = I R = R
  MaxSkip = 2
  MaxSavedChains = 2
  MaxKeys = 4
  MaxSends = 3
  MaxFaults = 2
  Duplicates = TRUE
INVARIANTS TypeOK NoKeyReuse RootsAgree ForwardSecrecy NoReplay
PROPERTY GenuineDecrypts
CHECK_DEADLOCK FALSE
