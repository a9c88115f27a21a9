---------------------------- MODULE MCReplayData ----------------------------
(***************************************************************************)
(* A small instance of ReplayData: two channels, so that one can be put    *)
(* before the other, two nodes, and two replays at a time.                 *)
(***************************************************************************)
EXTENDS ReplayData, TLC

RunnerSymmetry == Permutations(Runner)
==============================================================================
