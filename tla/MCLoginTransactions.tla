----------------------- MODULE MCLoginTransactions -----------------------
(* A small instance of LoginTransactions for TLC. *)
EXTENDS LoginTransactions, TLC

\* States, codes and requests are interchangeable.
Symmetry == Permutations(State) \cup Permutations(Code) \cup Permutations(Request)
=============================================================================
