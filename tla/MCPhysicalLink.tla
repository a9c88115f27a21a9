--------------------------- MODULE MCPhysicalLink ---------------------------
(* A small instance of PhysicalLink for TLC. *)
EXTENDS PhysicalLink

CONSTANTS t1, t2, t3, main, none, h1, h2
==============================================================================
