-------------------------- MODULE MCCentralAccount --------------------------
(* A small instance of CentralAccount for TLC. *)
EXTENDS CentralAccount

\* Every route but the password mail, which differs from the 2FA one in its name only.
Ops == Routes \ {"password"}
=============================================================================
