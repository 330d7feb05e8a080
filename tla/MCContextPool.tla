---------------------------- MODULE MCContextPool ----------------------------
(* ContextPool on a few threads and contexts.                              *)
EXTENDS ContextPool, TLC

Symmetric == Permutations(Threads) \cup Permutations(Values)

=============================================================================
