---------------------------- MODULE MCPollVoting ----------------------------
(* PollVoting for TLC: polls, options and requests are interchangeable. *)
EXTENDS PollVoting, TLC

Symmetry ==
    Permutations(Options) \union Permutations(Requests) \union Permutations(Polls)
=============================================================================
