----------------------------- MODULE MCIdentity -----------------------------
(***************************************************************************)
(* A small instance of Identity: two connections, two nodes.             *)
(***************************************************************************)
EXTENDS Identity
==============================================================================
