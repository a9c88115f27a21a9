----------------------------- MODULE MCSessions -----------------------------
(***************************************************************************)
(* Small instances of Sessions for TLC.                                    *)
(***************************************************************************)
EXTENDS Sessions

CONSTANTS c1, c2, nonce, configOnly, dbOnly, noId, r1, r2

(* The sections of a full replay before the nodes, as in replay(). *)
FullPreamble == <<"myInfo", "ownNodeInfo", "metadata", "channels", "configs">>
(* Two of them, one whose exceptions are swallowed and one whose are not. *)
ShortPreamble == <<"myInfo", "configs">>
(* One, where only the fact that a replay takes several steps matters. *)
OnePreamble == <<"myInfo">>
==============================================================================
