---------------------------- MODULE MCRateLimit ----------------------------
(* A small instance of RateLimit for TLC. *)
EXTENDS RateLimit, TLC

\* Requests and keys are interchangeable.
Symmetry == Permutations(Request) \cup Permutations(Key)
=============================================================================
