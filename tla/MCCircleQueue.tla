---------------------------- MODULE MCCircleQueue ----------------------------
(* CircleQueue on a few threads and slots.                                 *)
EXTENDS CircleQueue, TLC

Symmetric == Permutations(Threads) \cup Permutations(Values)

=============================================================================
