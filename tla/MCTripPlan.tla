----------------------------- MODULE MCTripPlan -----------------------------
EXTENDS TripPlan, TLC

Symmetry == Permutations(Requests) \union Permutations(Days) \union Permutations(Fields)
=============================================================================
