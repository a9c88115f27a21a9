----------------------------- MODULE BroadcastLog -----------------------------
(***************************************************************************)
(* What the broadcast promises to the clients: one log of messages, of     *)
(* which each member reads a contiguous part, in order, beginning with the *)
(* first message published after it joined.  How the messages get there    *)
(* (a queue and a write task for each connection) is in Sessions.          *)
(***************************************************************************)
EXTENDS Naturals, Sequences

CONSTANTS Member, Message

VARIABLES
  log,       \* every message published
  members,   \* who reads now
  joined,    \* [Member -> Nat] length of the log when the member joined
  got        \* [Member -> Seq(Message)] what the member has read

vars == <<log, members, joined, got>>

Init ==
  /\ log = <<>>
  /\ members = {}
  /\ joined = [c \in Member |-> 0]
  /\ got = [c \in Member |-> <<>>]

Publish ==
  /\ \E m \in Message : log' = Append(log, m)
  /\ UNCHANGED <<members, joined, got>>

Join(c) ==
  /\ c \notin members
  /\ members' = members \cup {c}
  /\ joined' = [joined EXCEPT ![c] = Len(log)]
  /\ got' = [got EXCEPT ![c] = <<>>]
  /\ UNCHANGED log

Leave(c) ==
  /\ c \in members
  /\ members' = members \ {c}
  /\ joined' = [joined EXCEPT ![c] = 0]
  /\ got' = [got EXCEPT ![c] = <<>>]
  /\ UNCHANGED log

Read(c) ==
  /\ c \in members
  /\ joined[c] + Len(got[c]) < Len(log)
  /\ got' = [got EXCEPT ![c] = Append(@, log[joined[c] + Len(got[c]) + 1])]
  /\ UNCHANGED <<log, members, joined>>

Next == Publish \/ \E c \in Member : Join(c) \/ Leave(c) \/ Read(c)

Spec == Init /\ [][Next]_vars
==============================================================================
