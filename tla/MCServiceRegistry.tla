------------------------- MODULE MCServiceRegistry -------------------------
(* Small instances of ServiceRegistry for TLC. *)
EXTENDS ServiceRegistry, TLC

CONSTANTS k1, d1

\* DEFAULT_SERVICES
OneDefault == [k \in {k1} |-> d1]

Symmetry == Permutations(Request) \cup Permutations(Subject) \cup Permutations(Client)
=============================================================================
