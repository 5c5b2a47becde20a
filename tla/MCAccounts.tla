----------------------------- MODULE MCAccounts -----------------------------
(* A small instance of Accounts for TLC. *)
EXTENDS Accounts, TLC

\* Requests are interchangeable.
Symmetry == Permutations(Request)
=============================================================================
