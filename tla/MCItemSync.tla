----------------------------- MODULE MCItemSync -----------------------------
(* ItemSync for TLC: the ids of one side are interchangeable. *)
EXTENDS ItemSync, TLC

Symmetry == Permutations(TempIds) \union Permutations(ServerIds)
=============================================================================
