------------------------------- MODULE Uplink -------------------------------
(***************************************************************************)
(* From a client's socket to the radio: the read loop of a connection      *)
(* (Framing), _handle_to_radio, the decision of the router (Router), the   *)
(* echo to all clients and the bounded queue.  The read loop awaits each   *)
(* message before it looks for the next.  A replay is a single wait here   *)
(* (Sessions has its steps), and so is a refresh of the same client.       *)
(***************************************************************************)
EXTENDS Framing, Router

CONSTANTS
  Meaning,     \* external: protobuf parsing, a ToRadio for each payload that parses
  Ip,          \* addresses a client may have
  MyNodeNum,   \* phys_mgr.my_node_num
  QueueMax     \* QUEUE_MAX_SIZE

ASSUME UplinkAssumption ==
  /\ \A p \in DOMAIN Meaning : Meaning[p] \in ToRadio
  /\ MyNodeNum \in NodeNum /\ QueueMax \in Nat

VARIABLES
  clientIp,     \* _peer_name[0]
  configSent,   \* _config_sent
  refreshing,   \* a refresh_config of this client is under way
  waiting,      \* what the read task awaits: "none", "replay", "answer"
  queue,        \* MessageQueue._queue
  \* History: the packets let through to the queue are numbered.
  admitted,     \* how many there were
  echoed,       \* what was broadcast to all clients as this client's
  radio,        \* what was written to the radio
  silent,       \* the numbers whose echo raised an exception
  lost          \* the numbers dropped at a full queue or a link that was down

sessionVars == <<clientIp, configSent, refreshing, waiting>>
radioVars == <<queue, admitted, echoed, radio, silent, lost>>
vars == <<framingVars, sessionVars, radioVars>>

Init ==
  /\ FramingInit
  /\ clientIp \in Ip
  /\ configSent = FALSE /\ refreshing = FALSE /\ waiting = "none"
  /\ queue = <<>> /\ admitted = 0 /\ echoed = <<>> /\ radio = <<>>
  /\ silent = {} /\ lost = {}

-----------------------------------------------------------------------------
(* _handle_to_radio on the next frame. *)
Unparsed == [kind |-> "bad", admin |-> "none", from |-> 0, to |-> 0, pki |-> FALSE]
Message ==
  LET payload == FindFrame(buffer).payload IN
    IF payload \in DOMAIN Meaning THEN Meaning[payload] ELSE Unparsed
Handles == Extract /\ waiting = "none" /\ UNCHANGED <<clientIp, configSent, refreshing>>

(* A want_config, which the throttle may drop, or a heartbeat. *)
WantConfig ==
  /\ Handles /\ Message.kind = "wantConfig"
  /\ waiting' = "replay" \/ (configSent /\ waiting' = "none")
  /\ UNCHANGED radioVars

Heartbeat ==
  /\ Handles /\ Message.kind = "heartbeat"
  /\ waiting' = "answer"
  /\ UNCHANGED radioVars

(* Not parsed, of a kind nobody is interested in, or too early. *)
Ignored ==
  /\ Handles /\ Message.kind \notin {"wantConfig", "heartbeat"}
  /\ configSent => Message.kind # "packet"
  /\ UNCHANGED <<waiting, radioVars>>

(* _process_locally: the packet as it came, with the multiplexer's number  *)
(* for a sender that gives none.                                           *)
Echo(m) == [m EXCEPT !.from = IF @ = 0 THEN MyNodeNum ELSE @]

(* Mutant: a packet that is not allowed is echoed all the same. *)
PacketRefusedEchoed ==
  /\ Handles /\ configSent /\ Message.kind = "packet"
  /\ LET verdict == Route(Message, clientIp) IN
       /\ ~verdict.allowed
       /\ waiting' = IF verdict.ack THEN "answer" ELSE "none"
  /\ echoed' = Append(echoed, [no |-> admitted + 1, msg |-> Echo(Message)])
  /\ UNCHANGED <<queue, admitted, radio, silent, lost>>

(* A packet the router does not allow; an intercepted one is answered.     *)
PacketRefused ==
  /\ Handles /\ configSent /\ Message.kind = "packet"
  /\ LET verdict == Route(Message, clientIp) IN
       /\ ~verdict.allowed
       /\ waiting' = IF verdict.ack THEN "answer" ELSE "none"
  /\ UNCHANGED radioVars

Item == [no : Nat, msg : ToRadio]

(* Mutant: the bound of the queue is one too high. *)
EnqueueOneMore(item) ==
  IF Len(queue) <= QueueMax
  THEN queue' = Append(queue, item) /\ UNCHANGED lost
  ELSE lost' = lost \cup {item.no} /\ UNCHANGED queue

(* enqueue_raw: put_nowait, or the message is dropped. *)
Enqueue(item) ==
  IF Len(queue) < QueueMax
  THEN queue' = Append(queue, item) /\ UNCHANGED lost
  ELSE lost' = lost \cup {item.no} /\ UNCHANGED queue

(* A packet it allows: echoed to all clients, then queued for the radio,   *)
(* also when the echo raised an exception, which _process_locally          *)
(* swallows.  Nothing suspends in between.                                 *)
PacketAllowed ==
  /\ Handles /\ configSent /\ Message.kind = "packet"
  /\ Route(Message, clientIp).allowed
  /\ admitted' = admitted + 1
  /\ \/ /\ echoed' = Append(echoed, [no |-> admitted + 1, msg |-> Echo(Message)])
        /\ UNCHANGED silent
     \/ silent' = silent \cup {admitted + 1} /\ UNCHANGED echoed
  /\ Enqueue([no |-> admitted + 1, msg |-> Stripped(Message)])
  /\ UNCHANGED <<waiting, radio>>

(* The await ends: after a replay the client is configured. *)
HandlerGoesOn ==
  /\ waiting # "none"
  /\ waiting' = "none"
  /\ configSent' = (configSent \/ waiting = "replay")
  /\ UNCHANGED <<framingVars, clientIp, refreshing, radioVars>>

(* refresh_config of this client, in the task of on_reconnect. *)
RefreshBegins ==
  /\ ~refreshing
  /\ refreshing' = TRUE /\ configSent' = FALSE
  /\ UNCHANGED <<framingVars, clientIp, waiting, radioVars>>

RefreshEnds ==
  /\ refreshing
  /\ refreshing' = FALSE /\ configSent' = TRUE
  /\ UNCHANGED <<framingVars, clientIp, waiting, radioVars>>

(* _process takes a message; send_raw_to_radio writes it, or logs and      *)
(* forgets it when the link is down.                                       *)
RadioTake ==
  /\ queue # <<>>
  /\ queue' = Tail(queue)
  /\ \/ radio' = Append(radio, Head(queue)) /\ UNCHANGED lost
     \/ lost' = lost \cup {Head(queue).no} /\ UNCHANGED radio
  /\ UNCHANGED <<framingVars, sessionVars, admitted, echoed, silent>>

(* The peer and the parts of the read loop that touch nothing else.        *)
Bytes ==
  /\ \/ \E p \in Payload : SendFrame(p)
     \/ \E s \in Noise : SendNoise(s)
     \/ \E n \in 1..Len(stream) : ReadChunk(n)
     \/ NoMoreFrames /\ waiting = "none"
  /\ UNCHANGED <<sessionVars, radioVars>>

Next ==
  \/ Bytes \/ WantConfig \/ Heartbeat \/ Ignored
  \/ PacketRefused \/ PacketAllowed \/ HandlerGoesOn \/ RefreshBegins
  \/ RefreshEnds \/ RadioTake

Spec == Init /\ [][Next]_vars

-----------------------------------------------------------------------------
(* Every variable keeps its type, and the queue its bound. *)
TypeOK ==
  /\ FramingTypeOK
  /\ clientIp \in Ip /\ configSent \in BOOLEAN /\ refreshing \in BOOLEAN
  /\ waiting \in {"none", "replay", "answer"}
  /\ queue \in Seq(Item) /\ Len(queue) <= QueueMax
  /\ admitted \in Nat /\ echoed \in Seq(Item) /\ radio \in Seq(Item)
  /\ silent \subseteq Nat /\ lost \subseteq Nat

Uplinked == radio \o queue

(* What the code enforces, and README.md promises, of the direction from   *)
(* clients to the radio: an admin command gets through only self-addressed *)
(* or from an allowed address, addContact never does, and nothing from     *)
(* node 0 is encrypted.                                                    *)
RadioPolicy ==
  \A i \in DOMAIN Uplinked :
    LET m == Uplinked[i].msg IN
      /\ m.admin # "none" => AdminAllowed(m, clientIp)
      /\ m.admin # "add_contact"
      /\ m.from = 0 => ~m.pki

(* What README.md also promises: removeByNodenum is answered with a fake   *)
(* ACK and dropped.  message_router.py sets a field that Routing lacks,    *)
(* and swallows the exception: the command goes on to the radio.           *)
RemovalIntercepted ==
  \A i \in DOMAIN Uplinked : Uplinked[i].msg.admin # "remove_by_nodenum"

SamePacket(e, m) ==
  /\ [e EXCEPT !.from = m.from, !.pki = m.pki] = m
  /\ e.from = m.from \/ (m.from = 0 /\ e.from = MyNodeNum)

Numbers(items) == {items[i].no : i \in DOMAIN items}
Ascending(items) == \A i, j \in DOMAIN items : i < j => items[i].no < items[j].no

(* The radio gets, and the clients are shown, packets in the order in      *)
(* which they came, each once, and the same packet under a number.  Every  *)
(* packet let through is on its way or lost, and shown unless its echo     *)
(* raised; one that was blocked is neither sent nor shown.                 *)
EchoMatchesRadio ==
  /\ Ascending(Uplinked) /\ Ascending(echoed)
  /\ \A i \in DOMAIN Uplinked, j \in DOMAIN echoed :
       Uplinked[i].no = echoed[j].no => SamePacket(echoed[j].msg, Uplinked[i].msg)
  /\ Numbers(Uplinked) \cup lost = 1..admitted /\ Numbers(Uplinked) \cap lost = {}
  /\ Numbers(echoed) \cup silent = 1..admitted /\ Numbers(echoed) \cap silent = {}
==============================================================================
