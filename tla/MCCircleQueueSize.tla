-------------------------- MODULE MCCircleQueueSize --------------------------
(* CircleQueueSize on a few threads and slots.                             *)
EXTENDS CircleQueueSize, TLC

Symmetric == Permutations(Threads) \cup Permutations(Values)

=============================================================================
