-------------------------- MODULE MCForwardResume --------------------------
(***************************************************************************)
(* Model checking of ForwardResume: connections are interchangeable.       *)
(***************************************************************************)
EXTENDS ForwardResume, TLC

Symm == Permutations(Reqs)
=============================================================================
