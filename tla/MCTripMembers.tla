--------------------------- MODULE MCTripMembers ---------------------------
(* TripMembers for TLC: users are interchangeable. *)
EXTENDS TripMembers, TLC

UserSymmetry == Permutations(Users)
RequestSymmetry == Permutations(Requests)
Symmetry == UserSymmetry \union RequestSymmetry
=============================================================================
