\* Loads: opening and closing with a drop and a failure; calls; writes; reads.
CONSTANTS
  Loads <- MCLoads
  MaxWriteBytes = 2
SPECIFICATION FairSpec
INVARIANTS PortIsRight TrafficIsWhole
PROPERTY CallsAreAnswered
CHECK_DEADLOCK FALSE
