--------------------------- MODULE MCLogoutTokens ---------------------------
(* A small instance of LogoutTokens for TLC. *)
EXTENDS LogoutTokens, TLC

\* Tokens, sessions and deliveries are interchangeable.
Symmetry == Permutations(Token) \cup Permutations(Session) \cup Permutations(Request)
=============================================================================
