------------------------ MODULE MCTransportProcess --------------------------
\* The loads of the run: each makes one kind of trouble happen often enough.
EXTENDS TransportProcess

Load(f) == [op \in Ops |-> IF op \in DOMAIN f THEN f[op] ELSE 0]

MCLoads ==
  { Load([start |-> 2, stop |-> 1, open |-> 1, close |-> 1, xmodem |-> 1, drop |-> 1, fail |-> 1]),
    Load([start |-> 2, open |-> 1, xmodem |-> 2, other |-> 1]),
    Load([start |-> 2, stop |-> 2, open |-> 1, call |-> 3, fail |-> 2]),
    Load([start |-> 2, stop |-> 1, close |-> 1, open |-> 1, send |-> 2]),
    Load([start |-> 1, emit |-> 4]),
    Load([start |-> 2, stop |-> 1, emit |-> 3]) }
=============================================================================
