---------------------------- MODULE MCServices ----------------------------
EXTENDS Services, TLC

Symmetry == Permutations(LibraryGear) \union Permutations(Uploads) \union Permutations(GearTrips)
=============================================================================
