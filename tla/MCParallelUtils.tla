--------------------------- MODULE MCParallelUtils --------------------------
\* Calls for TLC: as many as there are processes, and more.
EXTENDS ParallelUtils

MCSizes == {[calls |-> 2, processes |-> 2], [calls |-> 2, processes |-> 1]}

=============================================================================
