--------------------------- MODULE MCMessageQueue ---------------------------
(* A small instance of MessageQueue for TLC. *)
EXTENDS MessageQueue

CONSTANTS t1, t2, t3, t4
==============================================================================
