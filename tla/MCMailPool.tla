----------------------------- MODULE MCMailPool -----------------------------
(* MailPool for TLC.  Its runs check liveness: no symmetry. *)
EXTENDS MailPool
=============================================================================
