\* Two starts and a command: a child that is stopped, abandoned or killed and
\* its successor coexist and share the events and the queues.
CONSTANTS
  MaxStarts = 2
  MaxSends = 1
SPECIFICATION FairSpec
INVARIANTS TypeOK 
PROPERTIES StopNeverOrphans ImplementsHandle NothingHangs
CHECK_DEADLOCK FALSE
