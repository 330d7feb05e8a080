------------------------------ MODULE MCNetwork ------------------------------
(* Network with a few workers, clients and contexts.                       *)
EXTENDS Network, TLC

Symmetric == Permutations(Workers) \cup Permutations(Contexts) \cup Permutations(Keys)

=============================================================================
