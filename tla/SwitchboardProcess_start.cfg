\* A start() that times out, and another one after it.
CONSTANTS
  MaxStarts = 2
  MaxSends = 1
SPECIFICATION FairSpec
PROPERTY StartVerified
CHECK_DEADLOCK FALSE
