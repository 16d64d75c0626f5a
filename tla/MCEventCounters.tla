-------------------------- MODULE MCEventCounters --------------------------
(* EventCounters for TLC: users, comments and requests are interchangeable. *)
EXTENDS EventCounters, TLC

Symmetry == Permutations(Users) \union Permutations(Comments) \union Permutations(Requests)
=============================================================================
