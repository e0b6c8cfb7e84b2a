------------------------------ MODULE MCScopes ------------------------------
(* Small instances of Scopes for TLC. *)
EXTENDS Scopes, TLC

Symmetric == Permutations(Threads) \cup Permutations(Requests)
=============================================================================
