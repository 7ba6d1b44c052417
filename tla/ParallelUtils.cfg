\* Two calls in two processes and in one; one worker dies by itself.
CONSTANTS
  Sizes <- MCSizes
  MaxDeaths = 1
SPECIFICATION FairSpec
INVARIANTS  NothingLeft
PROPERTY Returns
CHECK_DEADLOCK FALSE
