------------------------------- MODULE Router -------------------------------
(***************************************************************************)
(* message_router.py: what becomes of a ToRadio of a client.  A message is *)
(* reduced to the fields the decision reads; a protobuf that does not      *)
(* parse is of kind "bad".                                                 *)
(***************************************************************************)
EXTENDS Naturals

CONSTANTS
  Localhost,   \* LOCALHOST_IPS
  AllowAdmin,  \* the valid entries of security.allow_admin_from_ips
  Network,     \* external: [AllowAdmin -> the addresses the entry stands for]
  Absent       \* external: fields named here that the messages of meshtastic lack

Kind == {"bad", "disconnect", "heartbeat", "wantConfig", "packet", "other"}
Admin == {"none", "remove_by_nodenum", "add_contact", "other"}
NodeNum == Nat

(* admin: the AdminMessage of a packet for ADMIN_APP, "none" when the      *)
(* packet is for another port.                                             *)
ToRadio == [kind : Kind, admin : Admin, from : NodeNum, to : NodeNum, pki : BOOLEAN]

(* An entry that is no address or network raises ValueError: it is skipped. *)
IpMatchesAny(ip) == \E e \in AllowAdmin : ip \in Network[e]

SelfAddressed(p) == p.from # 0 /\ p.from = p.to

AdminAllowed(p, ip) == SelfAddressed(p) \/ ip \in Localhost \/ IpMatchesAny(ip)

(* A field that a message lacks raises when it is set or cleared.          *)
Exists(field) == field \notin Absent

(* Mutant: an allowed addContact is forwarded. *)
RouteForwardsContact(p, ip) ==
  LET blocked == p.kind # "packet" \/ (p.admin # "none" /\ ~AdminAllowed(p, ip))
      ack == ~blocked /\ p.admin = "remove_by_nodenum" /\ Exists("Routing.request_id")
  IN [allowed |-> ~blocked /\ ~ack, ack |-> ack]

(* route_from_client and _route_packet: whether the message goes on to the *)
(* radio, and whether the multiplexer answers it.  An exception in the     *)
(* making of the fake ACK is swallowed, and the packet goes on.            *)
Route(p, ip) ==
  LET blocked == p.kind # "packet" \/ (p.admin # "none" /\ ~AdminAllowed(p, ip))
      ack == ~blocked /\ p.admin = "remove_by_nodenum" /\ Exists("Routing.request_id")
  IN [allowed |-> ~blocked /\ ~ack /\ p.admin # "add_contact", ack |-> ack]

(* What is forwarded: a packet from node 0 loses its PKI encryption, but   *)
(* goes as it came when an exception is raised on the way.                 *)
Stripped(p) ==
  IF p.from = 0 /\ Exists("MeshPacket.public_key") THEN [p EXCEPT !.pki = FALSE] ELSE p
==============================================================================
