------------------------------ MODULE MCUplink ------------------------------
(***************************************************************************)
(* A small instance of Uplink: one payload for each kind of message whose  *)
(* treatment differs, one of them with the start bytes in it; a client at  *)
(* an address of the allowlist and one at another.  An admin command of    *)
(* another kind goes the way of a removal whose fake ACK cannot be made.   *)
(***************************************************************************)
EXTENDS Uplink, TLC

CONSTANTS listed, stranger, entry

Text == <<START1, START2>>
Msg(kind, admin, from, to, pki) ==
  [kind |-> kind, admin |-> admin, from |-> from, to |-> to, pki |-> pki]

Meanings ==
  (<<1>> :> Msg("wantConfig", "none", 0, 0, FALSE)) @@
  (<<2>> :> Msg("heartbeat", "none", 0, 0, FALSE)) @@
  (Text  :> Msg("packet", "none", 0, 9, TRUE)) @@
  (<<5>> :> Msg("packet", "remove_by_nodenum", 0, 5, TRUE)) @@
  (<<6>> :> Msg("packet", "add_contact", 5, 5, FALSE))

Payloads == DOMAIN Meanings
Networks == entry :> {listed}
WakeBytes == <<START2, START2, START2>>
BadHeader == <<START1, START2, 255, 255>>
SmallNoise == {WakeBytes, BadHeader}
==============================================================================
