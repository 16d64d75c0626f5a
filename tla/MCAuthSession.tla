---------------------------- MODULE MCAuthSession ----------------------------
(* Two requests of the app at once; they are interchangeable. *)
EXTENDS AuthSession, TLC

RequestSymmetry == Permutations(Requests)
=============================================================================
