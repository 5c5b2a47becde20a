-------------------------- MODULE MCKeycloakClient --------------------------
(* A small instance of KeycloakClient for TLC. *)
EXTENDS KeycloakClient
=============================================================================
