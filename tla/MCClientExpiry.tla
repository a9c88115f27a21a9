--------------------------- MODULE MCClientExpiry ---------------------------
(* A small instance of ClientExpiry for TLC. *)
EXTENDS ClientExpiry

CONSTANTS c1
==============================================================================
