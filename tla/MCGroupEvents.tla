--------------------------- MODULE MCGroupEvents ---------------------------
(* GroupEvents for TLC: users, trips and requests are interchangeable. *)
EXTENDS GroupEvents, TLC

Symmetry == Permutations(Users) \union Permutations(Trips) \union Permutations(GroupRequests)
=============================================================================
