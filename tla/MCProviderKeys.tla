--------------------------- MODULE MCProviderKeys ---------------------------
(* A small instance of ProviderKeys for TLC. *)
EXTENDS ProviderKeys
=============================================================================
