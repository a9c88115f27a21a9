------------------------------ MODULE Sessions ------------------------------
(***************************************************************************)
(* The client side of the multiplexer: TCPServer (the registry and the     *)
(* broadcast), ClientHandler (one read task and one write task for each    *)
(* connection), ConfigReplayBuilder (the control of a configuration        *)
(* replay) and the re-capture that follows a reconnection of the physical  *)
(* node (main.py).                                                         *)
(*                                                                         *)
(* asyncio runs one task at a time and switches only where an await really *)
(* suspends.  On the client side this is read(), queue.get() and           *)
(* writer.drain(); Queue.put() on an unbounded queue never suspends.  So a *)
(* broadcast is one step, and a replay is one step per frame: a frame is   *)
(* written, and the drain that follows it may let anything else run.       *)
(***************************************************************************)
EXTENDS Naturals, Sequences, FiniteSets

CONSTANTS
  Client,        \* connections; a value is reused only once nothing refers to it
  Node,          \* mesh nodes, by number
  ConfigId,      \* the want_config ids that clients use
  ConfigOnly,    \* want_config id 69420: a replay without the node database
  DbOnly,        \* want_config id 69421: a replay of the node database only
  NoId,          \* id 0, which a refresh uses
  Refresher,     \* runs of on_reconnect; each re-captures once
  Preamble,      \* sections of a full replay that precede the known nodes
  Responsive,    \* clients that keep reading their socket (for fairness)
  MaxBroadcast,  \* bound: broadcasts in a behaviour
  UplinkMax      \* capacity of the queue to the radio (QUEUE_MAX_SIZE)

Runner == Refresher \cup {"reader"}      \* who may run a replay on a connection
PreambleSection == {"myInfo", "ownNodeInfo", "metadata", "channels", "configs"}
ReplaySection == PreambleSection \cup {"knownNodes", "configComplete"}
Msg == Node \cup Client                  \* a broadcast: a NodeInfo, or a client's echo

ASSUME ConstantsAssumption ==
  /\ Node \subseteq Nat
  /\ Node \cap Client = {}
  /\ "reader" \notin Refresher
  /\ NoId \notin ConfigId \cup {ConfigOnly, DbOnly} /\ ConfigOnly # DbOnly
  /\ Preamble \in Seq(PreambleSection) /\ Preamble # <<>>
  /\ Responsive \subseteq Client
  /\ MaxBroadcast \in Nat /\ UplinkMax \in Nat

VARIABLES
  clients,     \* TCPServer._clients
  conn,        \* [Client -> {"up", "lost", "closed"}] the connection's transport
  tasks,       \* [Client -> SUBSET {"read", "write"}] the handler's live tasks
  configSent,  \* _config_sent
  lastId,      \* _last_config_id
  replay,      \* [Client -> [Runner -> progress of the replay that runner has there]]
  out,         \* ClientHandler._queue
  phase,       \* [Refresher -> {"idle", "busy", "done"}]
  todo,        \* [Refresher -> SUBSET Client] rest of the snapshot of _clients
  known,       \* StateCache.known_nodes
  uplink,      \* MessageQueue._queue
  \* History.
  bcast,       \* every message broadcast so far
  joined,      \* [Client -> Nat] messages broadcast before the client registered
  got,         \* [Client -> Seq(Msg)] broadcasts written to the client
  knows,       \* [Client -> SUBSET Node] nodes written to the client
  completes,   \* [Client -> SUBSET ids] config_complete frames written to it
  tail,        \* [Client -> the section of the last replay frame written to it]
  epoch,       \* captures made after a reconnection
  fresh,       \* [Client -> Nat] newest epoch a completed replay began in
  unrefreshed  \* clients whose refresh failed, until a replay of the newest epoch

handlerVars == <<clients, conn, tasks>>
flagVars    == <<configSent, lastId>>
refreshVars == <<phase, todo>>
queueVars   == <<out, bcast, joined, got>>
vars == <<handlerVars, flagVars, replay, queueVars, refreshVars, known, uplink,
          knows, completes, tail, epoch, fresh, unrefreshed>>

(* The sections of a replay, in the order they are sent. *)
Order(id) ==
  CASE id = DbOnly     -> <<"ownNodeInfo", "knownNodes", "configComplete">>
    [] id = ConfigOnly -> Append(Preamble, "configComplete")
    [] OTHER           -> Preamble \o <<"knownNodes", "configComplete">>

(* at: the section whose last written frame is being drained, 0 when the   *)
(* runner has no replay there; pending: nodes of the snapshot still to     *)
(* send; since: the epoch in which the replay began.                       *)
Idle == [id |-> NoId, at |-> 0, pending |-> {}, since |-> 0]
Begun(id) == [id |-> id, at |-> 1, pending |-> {}, since |-> epoch]
Running(c, r) == replay[c][r].at > 0
Section(c, r) == Order(replay[c][r].id)[replay[c][r].at]

(* Mutant: the read loop starts a replay without awaiting it. *)
ReaderNeverWaits(c) == "read" \in tasks[c]

ReaderFree(c) == "read" \in tasks[c] /\ ~Running(c, "reader")

(* Sections sent with send_captured, which swallows the exceptions of      *)
(* drain.  Channels and nodes are, too, when the cache has none of them;   *)
(* here their drains may always raise.                                     *)
Swallowed == {"configs"}

Init ==
  /\ clients = {}
  /\ conn = [c \in Client |-> "closed"]
  /\ tasks = [c \in Client |-> {}]
  /\ configSent = [c \in Client |-> FALSE]
  /\ lastId = [c \in Client |-> NoId]
  /\ replay = [c \in Client |-> [r \in Runner |-> Idle]]
  /\ out = [c \in Client |-> <<>>]
  /\ phase = [r \in Refresher |-> "idle"]
  /\ todo = [r \in Refresher |-> {}]
  /\ known = {}
  /\ uplink = <<>>
  /\ bcast = <<>>
  /\ joined = [c \in Client |-> 0]
  /\ got = [c \in Client |-> <<>>]
  /\ knows = [c \in Client |-> {}]
  /\ completes = [c \in Client |-> {}]
  /\ tail = [c \in Client |-> "none"]
  /\ epoch = 0
  /\ fresh = [c \in Client |-> 0]
  /\ unrefreshed = {}

-----------------------------------------------------------------------------
(* Life of a connection. *)

(* ClientHandler.__init__. *)
NewHandler(c) ==
  /\ configSent' = [configSent EXCEPT ![c] = FALSE]
  /\ lastId' = [lastId EXCEPT ![c] = NoId]
  /\ out' = [out EXCEPT ![c] = <<>>]
  /\ got' = [got EXCEPT ![c] = <<>>]
  /\ knows' = [knows EXCEPT ![c] = {}]
  /\ completes' = [completes EXCEPT ![c] = {}]
  /\ tail' = [tail EXCEPT ![c] = "none"]
  /\ fresh' = [fresh EXCEPT ![c] = 0]
  /\ unrefreshed' = unrefreshed \ {c}

(* _handle_client up to the first await: a new handler is registered. *)
Accept(c) ==
  /\ c \notin clients
  /\ \A r \in Refresher : c \notin todo[r] /\ ~Running(c, r)
  /\ clients' = clients \cup {c}
  /\ conn' = [conn EXCEPT ![c] = "up"]
  /\ tasks' = [tasks EXCEPT ![c] = {"read", "write"}]
  /\ joined' = [joined EXCEPT ![c] = Len(bcast)]
  /\ NewHandler(c)
  /\ UNCHANGED <<replay, bcast, refreshVars, known, uplink, epoch>>

(* The peer closes, or the connection is reset.  From here on a read may   *)
(* return b"" and a drain may raise; after a mere EOF writes still work.   *)
PeerGone(c) ==
  /\ conn[c] = "up"
  /\ conn' = [conn EXCEPT ![c] = "lost"]
  /\ UNCHANGED <<clients, tasks, flagVars, replay, queueVars, refreshVars, known,
                 uplink, knows, completes, tail, epoch, fresh, unrefreshed>>

(* read() returns b"" or raises: the read loop ends. *)
ReaderEnds(c) ==
  /\ ReaderFree(c) /\ conn[c] = "lost"
  /\ tasks' = [tasks EXCEPT ![c] = @ \ {"read"}]
  /\ UNCHANGED <<clients, conn, flagVars, replay, queueVars, refreshVars, known,
                 uplink, knows, completes, tail, epoch, fresh, unrefreshed>>

(* handle() after asyncio.wait: the other task is cancelled, wherever it   *)
(* is, and the writer is closed.  The handler is still registered while    *)
(* wait_closed() runs.                                                     *)
Teardown(c) ==
  /\ c \in clients /\ conn[c] # "closed" /\ tasks[c] # {"read", "write"}
  /\ conn' = [conn EXCEPT ![c] = "closed"]
  /\ tasks' = [tasks EXCEPT ![c] = {}]
  /\ replay' = [replay EXCEPT ![c]["reader"] = Idle]
  /\ UNCHANGED <<clients, flagVars, queueVars, refreshVars, known,
                 uplink, knows, completes, tail, epoch, fresh, unrefreshed>>

(* The finally clause of _handle_client.  What the handler held is out of  *)
(* reach now, but for a refresh that is still at work on it.               *)
Unregister(c) ==
  /\ c \in clients /\ conn[c] = "closed"
  /\ clients' = clients \ {c}
  /\ joined' = [joined EXCEPT ![c] = 0]
  /\ NewHandler(c)
  /\ UNCHANGED <<conn, tasks, replay, bcast, refreshVars, known, uplink, epoch>>

-----------------------------------------------------------------------------
(* Configuration replay. *)

(* The want_config branch of _handle_to_radio, up to the first frame.  A   *)
(* repeated id may instead be dropped without any effect, while the clock  *)
(* says that CONFIG_COOLDOWN_SECONDS have not passed; time is not modelled *)
(* so an id that may be dropped may also be answered again.                *)
MayThrottle(c, id) == configSent[c] /\ id = lastId[c]

WantConfig(c, id) ==
  /\ ReaderFree(c)
  /\ lastId' = [lastId EXCEPT ![c] = id]
  /\ replay' = [replay EXCEPT ![c]["reader"] = Begun(id)]
  /\ tail' = [tail EXCEPT ![c] = Order(id)[1]]
  /\ UNCHANGED <<handlerVars, configSent, queueVars, refreshVars, known, uplink,
                 knows, completes, epoch, fresh, unrefreshed>>

(* The drain after the previous frame returns and the next one is written: *)
(* a further node of the snapshot, in ascending order; the next section,   *)
(* where send_known_nodes reads the cache once, as it begins (an empty     *)
(* cache makes it send synthetic nodes instead); or config_complete.       *)
SendNode(c, r, k, rest) ==
  \E n \in rest :
    /\ \A m \in rest : n <= m
    /\ replay' = [replay EXCEPT ![c][r].at = k, ![c][r].pending = rest \ {n}]
    /\ knows' = [knows EXCEPT ![c] = @ \cup {n}]
    /\ tail' = [tail EXCEPT ![c] = "knownNodes"]
    /\ UNCHANGED completes

(* Mutant: config_complete carries _last_config_id as it is when it is sent. *)
SendSectionLastId(c, r, k, s) ==
  /\ s = "knownNodes" => known = {}
  /\ replay' = [replay EXCEPT ![c][r].at = k]
  /\ tail' = [tail EXCEPT ![c] = s]
  /\ completes' = IF s = "configComplete"
                  THEN [completes EXCEPT ![c] = @ \cup {lastId[c]}]
                  ELSE completes
  /\ UNCHANGED knows

SendSection(c, r, k, s) ==
  /\ s = "knownNodes" => known = {}
  /\ replay' = [replay EXCEPT ![c][r].at = k]
  /\ tail' = [tail EXCEPT ![c] = s]
  /\ completes' = IF s = "configComplete"
                  THEN [completes EXCEPT ![c] = @ \cup {replay[c][r].id}]
                  ELSE completes
  /\ UNCHANGED knows

ReplayStep(c, r) ==
  /\ Running(c, r)
  /\ LET p == replay[c][r] IN
       \/ SendNode(c, r, p.at, p.pending)
       \/ /\ p.pending = {} /\ p.at < Len(Order(p.id))
          /\ LET s == Order(p.id)[p.at + 1] IN
               \/ s = "knownNodes" /\ SendNode(c, r, p.at + 1, known)
               \/ SendSection(c, r, p.at + 1, s)
  /\ UNCHANGED <<handlerVars, flagVars, queueVars, refreshVars, known, uplink,
                 epoch, fresh, unrefreshed>>

(* What a completed replay is worth, by the epoch it began in. *)
Refreshed(c, since) ==
  /\ fresh' = [fresh EXCEPT ![c] = IF @ < since THEN since ELSE @]
  /\ unrefreshed' = IF since = epoch THEN unrefreshed \ {c} ELSE unrefreshed

(* Mutant: refresh_config does not set _config_sent again. *)
ReplayFinishForgets(c, r) ==
  /\ Running(c, r)
  /\ replay[c][r].at = Len(Order(replay[c][r].id))
  /\ replay' = [replay EXCEPT ![c][r] = Idle]
  /\ configSent' = [configSent EXCEPT ![c] = @ \/ r = "reader"]
  /\ Refreshed(c, replay[c][r].since)
  /\ UNCHANGED <<handlerVars, lastId, queueVars, refreshVars, known,
                 uplink, knows, completes, tail, epoch>>

(* The drain after config_complete returns: the caller sets _config_sent.  *)
ReplayFinish(c, r) ==
  /\ Running(c, r)
  /\ replay[c][r].at = Len(Order(replay[c][r].id))
  /\ replay' = [replay EXCEPT ![c][r] = Idle]
  /\ configSent' = [configSent EXCEPT ![c] = TRUE]
  /\ Refreshed(c, replay[c][r].since)
  /\ UNCHANGED <<handlerVars, lastId, queueVars, refreshVars, known,
                 uplink, knows, completes, tail, epoch>>

(* An exception ends the replay: a drain raises, or a frame cannot be      *)
(* built or sent.  It ends the read loop, or is caught in                  *)
(* refresh_all_clients, which goes on with _config_sent still False.       *)
ReplayFail(c, r) ==
  /\ Running(c, r) /\ Section(c, r) \notin Swallowed
  /\ replay' = [replay EXCEPT ![c][r] = Idle]
  /\ IF r = "reader"
     THEN tasks' = [tasks EXCEPT ![c] = @ \ {"read"}] /\ UNCHANGED unrefreshed
     ELSE unrefreshed' = unrefreshed \cup {c} /\ UNCHANGED tasks
  /\ UNCHANGED <<clients, conn, flagVars, queueVars, refreshVars, known, uplink,
                 knows, completes, tail, epoch, fresh>>

-----------------------------------------------------------------------------
(* Refresh after a reconnection of the physical node. *)

(* _on_physical_reconnect from capture_defaults to the snapshot of the     *)
(* registry in refresh_all_clients: nothing suspends in between.           *)
Recapture(r) ==
  /\ phase[r] = "idle"
  /\ phase' = [phase EXCEPT ![r] = "busy"]
  /\ todo' = [todo EXCEPT ![r] = clients]
  /\ epoch' = epoch + 1
  /\ UNCHANGED <<handlerVars, flagVars, replay, queueVars, known, uplink,
                 knows, completes, tail, fresh, unrefreshed>>

(* Mutant: refresh_all_clients passes over a client that is not configured. *)
RefreshNextConfigured(r, c) ==
  /\ phase[r] = "busy" /\ c \in todo[r]
  /\ \A d \in Client : ~Running(d, r)
  /\ todo' = [todo EXCEPT ![r] = @ \ {c}]
  /\ IF configSent[c]
     THEN /\ configSent' = [configSent EXCEPT ![c] = FALSE]
          /\ lastId' = [lastId EXCEPT ![c] = NoId]
          /\ replay' = [replay EXCEPT ![c][r] = Begun(NoId)]
          /\ tail' = [tail EXCEPT ![c] = Order(NoId)[1]]
     ELSE UNCHANGED <<flagVars, replay, tail>>
  /\ UNCHANGED <<handlerVars, queueVars, phase, known, uplink,
                 knows, completes, epoch, fresh, unrefreshed>>

(* Mutant: a client whose connection is lost is left in the snapshot. *)
RefreshNextConnected(r, c) ==
  /\ phase[r] = "busy" /\ c \in todo[r] /\ conn[c] = "up"
  /\ \A d \in Client : ~Running(d, r)
  /\ todo' = [todo EXCEPT ![r] = @ \ {c}]
  /\ configSent' = [configSent EXCEPT ![c] = FALSE]
  /\ lastId' = [lastId EXCEPT ![c] = NoId]
  /\ replay' = [replay EXCEPT ![c][r] = Begun(NoId)]
  /\ tail' = [tail EXCEPT ![c] = Order(NoId)[1]]
  /\ UNCHANGED <<handlerVars, queueVars, phase, known, uplink,
                 knows, completes, epoch, fresh, unrefreshed>>

(* The loop body of refresh_all_clients for the next client, up to the     *)
(* first frame.  One client at a time: the replay is awaited.              *)
RefreshNext(r, c) ==
  /\ phase[r] = "busy" /\ c \in todo[r]
  /\ \A d \in Client : ~Running(d, r)
  /\ todo' = [todo EXCEPT ![r] = @ \ {c}]
  /\ configSent' = [configSent EXCEPT ![c] = FALSE]
  /\ lastId' = [lastId EXCEPT ![c] = NoId]
  /\ replay' = [replay EXCEPT ![c][r] = Begun(NoId)]
  /\ tail' = [tail EXCEPT ![c] = Order(NoId)[1]]
  /\ UNCHANGED <<handlerVars, queueVars, phase, known, uplink,
                 knows, completes, epoch, fresh, unrefreshed>>

RefreshDone(r) ==
  /\ phase[r] = "busy" /\ todo[r] = {}
  /\ \A d \in Client : ~Running(d, r)
  /\ phase' = [phase EXCEPT ![r] = "done"]
  /\ UNCHANGED <<handlerVars, flagVars, replay, queueVars, todo, known, uplink,
                 knows, completes, tail, epoch, fresh, unrefreshed>>

-----------------------------------------------------------------------------
(* Broadcasts. *)

(* Mutant: only clients that have their configuration get a broadcast. *)
BroadcastToConfigured(m) ==
  /\ Len(bcast) < MaxBroadcast
  /\ bcast' = Append(bcast, m)
  /\ out' = [c \in Client |-> IF c \in clients /\ configSent[c]
                              THEN Append(out[c], m) ELSE out[c]]
  /\ UNCHANGED <<joined, got>>

(* broadcast_from_radio: Queue.put on every registered handler's queue.    *)
Broadcast(m) ==
  /\ Len(bcast) < MaxBroadcast
  /\ bcast' = Append(bcast, m)
  /\ out' = [c \in Client |-> IF c \in clients THEN Append(out[c], m) ELSE out[c]]
  /\ UNCHANGED <<joined, got>>

(* process_incoming on a NodeInfo: _update_cache, then _route_broadcast.   *)
PhysicalNodeInfo(n) ==
  /\ known' = known \cup {n}
  /\ Broadcast(n)
  /\ UNCHANGED <<handlerVars, flagVars, replay, refreshVars, uplink,
                 knows, completes, tail, epoch, fresh, unrefreshed>>

(* Mutant: no bound on the queue. *)
EnqueueUnbounded(m) == uplink' = Append(uplink, m)

(* enqueue_raw: put_nowait, or the message is dropped when the queue is full. *)
Enqueue(m) == uplink' = IF Len(uplink) < UplinkMax THEN Append(uplink, m) ELSE uplink

(* _process_locally: the client's packet goes to every client, or an       *)
(* exception while the echo is made is swallowed, and there is none.       *)
Echo(c) == Broadcast(c) \/ UNCHANGED queueVars

(* Mutant: packets are accepted before the configuration was sent. *)
ClientPacketUnchecked(c) ==
  /\ ReaderFree(c)
  /\ Echo(c)
  /\ Enqueue(c)
  /\ UNCHANGED <<handlerVars, flagVars, replay, refreshVars, known,
                 knows, completes, tail, epoch, fresh, unrefreshed>>

(* The packet branch of _handle_to_radio for a packet the router lets      *)
(* through: it is echoed, then queued for the radio.  Nothing suspends.    *)
ClientPacket(c) ==
  /\ ReaderFree(c) /\ configSent[c]
  /\ Echo(c)
  /\ Enqueue(c)
  /\ UNCHANGED <<handlerVars, flagVars, replay, refreshVars, known,
                 knows, completes, tail, epoch, fresh, unrefreshed>>

(* MessageQueue._process takes the next message. *)
UplinkTake ==
  /\ uplink # <<>>
  /\ uplink' = Tail(uplink)
  /\ UNCHANGED <<handlerVars, flagVars, replay, queueVars, refreshVars, known,
                 knows, completes, tail, epoch, fresh, unrefreshed>>

(* Mutant: the newest message is written first. *)
DeliverNewest(c) ==
  /\ "write" \in tasks[c] /\ out[c] # <<>>
  /\ out' = [out EXCEPT ![c] = SubSeq(@, 1, Len(@) - 1)]
  /\ got' = [got EXCEPT ![c] = Append(@, out[c][Len(out[c])])]
  /\ knows' = [knows EXCEPT ![c] = @ \cup ({out[c][Len(out[c])]} \cap Node)]
  /\ UNCHANGED <<handlerVars, flagVars, replay, bcast, joined, refreshVars, known,
                 uplink, completes, tail, epoch, fresh, unrefreshed>>

(* Mutant: a message stays in the queue when it is written. *)
DeliverTwice(c) ==
  /\ "write" \in tasks[c] /\ out[c] # <<>> /\ Len(got[c]) <= MaxBroadcast
  /\ got' = [got EXCEPT ![c] = Append(@, Head(out[c]))]
  /\ knows' = [knows EXCEPT ![c] = @ \cup ({Head(out[c])} \cap Node)]
  /\ UNCHANGED out
  /\ UNCHANGED <<handlerVars, flagVars, replay, bcast, joined, refreshVars, known,
                 uplink, completes, tail, epoch, fresh, unrefreshed>>

(* _write_loop: the next message is written; the next get waits for drain. *)
Deliver(c) ==
  /\ "write" \in tasks[c] /\ out[c] # <<>>
  /\ out' = [out EXCEPT ![c] = Tail(@)]
  /\ got' = [got EXCEPT ![c] = Append(@, Head(out[c]))]
  /\ knows' = [knows EXCEPT ![c] = @ \cup ({Head(out[c])} \cap Node)]
  /\ UNCHANGED <<handlerVars, flagVars, replay, bcast, joined, refreshVars, known,
                 uplink, completes, tail, epoch, fresh, unrefreshed>>

(* The drain of the write loop raises, or encode_frame does for a message  *)
(* that is too long: the loop ends.                                        *)
WriterEnds(c) ==
  /\ "write" \in tasks[c]
  /\ tasks' = [tasks EXCEPT ![c] = @ \ {"write"}]
  /\ UNCHANGED <<clients, conn, flagVars, replay, queueVars, refreshVars, known,
                 uplink, knows, completes, tail, epoch, fresh, unrefreshed>>

-----------------------------------------------------------------------------
Next ==
  \/ \E c \in Client :
       \/ Accept(c) \/ PeerGone(c) \/ ReaderEnds(c) \/ Teardown(c) \/ Unregister(c)
       \/ \E id \in ConfigId : WantConfig(c, id)
       \/ \E r \in Runner : ReplayStep(c, r) \/ ReplayFinish(c, r) \/ ReplayFail(c, r)
       \/ \E r \in Refresher : RefreshNext(r, c)
       \/ ClientPacket(c) \/ Deliver(c) \/ WriterEnds(c)
  \/ \E r \in Refresher : Recapture(r) \/ RefreshDone(r)
  \/ \E n \in Node : PhysicalNodeInfo(n)
  \/ UplinkTake

Spec == Init /\ [][Next]_vars

(* The drain of a responsive client, or of one whose connection is lost,   *)
(* returns or raises, and the tasks of its handler go on; a client that    *)
(* stops reading without closing may hold a drain forever.  The event loop *)
(* does not starve a refresh that can take its next step, nor handle()     *)
(* when one of its tasks has ended.                                        *)
Drained(c, r) == ReplayStep(c, r) \/ ReplayFinish(c, r) \/ ReplayFail(c, r)

Fairness ==
  /\ \A c \in Client, r \in Runner :
       WF_vars((c \in Responsive \/ conn[c] # "up") /\ Drained(c, r))
  /\ \A c \in Client : WF_vars(Teardown(c))
  /\ \A c \in Responsive : WF_vars(Deliver(c))
  /\ \A r \in Refresher :
       WF_vars(RefreshDone(r) \/ \E c \in Client : RefreshNext(r, c))

FairSpec == Spec /\ Fairness

-----------------------------------------------------------------------------
(* Properties. *)

ReplayType ==
  [id : ConfigId \cup {NoId}, at : Nat, pending : SUBSET Node, since : Nat]

(* Every variable keeps its type: the state of handlers, registry, refreshes. *)
TypeOK ==
  /\ clients \in SUBSET Client
  /\ conn \in [Client -> {"up", "lost", "closed"}]
  /\ tasks \in [Client -> SUBSET {"read", "write"}]
  /\ configSent \in [Client -> BOOLEAN]
  /\ lastId \in [Client -> ConfigId \cup {NoId}]
  /\ replay \in [Client -> [Runner -> ReplayType]]
  /\ out \in [Client -> Seq(Msg)]
  /\ phase \in [Refresher -> {"idle", "busy", "done"}]
  /\ todo \in [Refresher -> SUBSET Client]
  /\ known \in SUBSET Node
  /\ uplink \in Seq(Client) /\ Len(uplink) <= UplinkMax
  /\ bcast \in Seq(Msg)
  /\ joined \in [Client -> Nat]
  /\ got \in [Client -> Seq(Msg)]
  /\ knows \in [Client -> SUBSET Node]
  /\ completes \in [Client -> SUBSET (ConfigId \cup {NoId})]
  /\ tail \in [Client -> ReplaySection \cup {"none"}]
  /\ epoch \in Nat
  /\ fresh \in [Client -> Nat] /\ unrefreshed \in SUBSET Client

Queued(c) == {out[c][i] : i \in DOMAIN out[c]}

(* A client whose handler is alive has been written, or still has in its   *)
(* queue, every message broadcast since it registered, once and in order,  *)
(* whether or not it has its configuration (broadcast_from_radio).         *)
SameStream ==
  \A c \in clients : "write" \in tasks[c] =>
    /\ joined[c] + Len(got[c]) + Len(out[c]) = Len(bcast)
    /\ \A i \in 1..Len(got[c]) : got[c][i] = bcast[joined[c] + i]
    /\ \A i \in 1..Len(out[c]) : out[c][i] = bcast[joined[c] + Len(got[c]) + i]

(* Once a client has been told that a replay with nodes is complete, every *)
(* node in the cache has been written to it or is in its queue: a node     *)
(* learnt while the replay was under way falls in no gap between the       *)
(* snapshot that send_known_nodes takes and the broadcasts.                *)
NoGap ==
  \A c \in clients :
    /\ "write" \in tasks[c]
    /\ completes[c] \ {ConfigOnly} # {}
    => known \subseteq knows[c] \cup Queued(c)

(* A duplicate want_config_id is dropped only after its answer was written *)
(* in full: the throttle never eats a request that has no answer.          *)
ThrottledWasAnswered ==
  \A c \in Client, id \in ConfigId :
    ReaderFree(c) /\ MayThrottle(c, id) => id \in completes[c]

(* No client's packet is echoed to the others, or queued for the radio,    *)
(* before a config_complete was written to that client (the comment "Must  *)
(* have completed config before processing messages").                     *)
EchoOnlyAfterConfig ==
  [][\A c \in Client :
       Len(bcast') > Len(bcast) /\ bcast'[Len(bcast')] = c => completes[c] # {}]_vars

Served(c) == conn[c] = "up" /\ "read" \in tasks[c]
Quiet(c) == \A r \in Runner : ~Running(c, r)

(* When no refresh is running, every client that is served, is configured  *)
(* and has no replay under way has completed one that began after the      *)
(* latest re-capture: no refresh forgets a client, whether it was mid-     *)
(* replay, not yet configured or not yet connected when it was captured.   *)
(* Only a refresh that ended with an exception leaves its client behind.   *)
RefreshedAfterCapture ==
  (\A r \in Refresher : phase[r] # "busy") =>
    \A c \in clients \ unrefreshed :
      Served(c) /\ configSent[c] /\ Quiet(c) => fresh[c] = epoch

(* A client that is served and whose request was answered is not refused   *)
(* as unconfigured once no replay is under way on it, though a refresh     *)
(* clears the flag and two runners set it, unless a refresh of it failed   *)
(* (ThrottledWasAnswered: its next request will not be dropped).           *)
AnsweredIsConfigured ==
  \A c \in clients \ unrefreshed :
    Served(c) /\ completes[c] # {} /\ Quiet(c) => configSent[c]

Log == INSTANCE BroadcastLog
         WITH Member <- Client, Message <- Msg, log <- bcast, members <- clients

(* The queues and write tasks implement the abstract broadcast log.        *)
ImplementsLog == Log!Spec

Follows(a, b) ==
  IF a \in {"none", "configComplete"}
  THEN \E id \in ConfigId \cup {NoId} : b = Order(id)[1]
  ELSE \E id \in ConfigId \cup {NoId} : \E i \in 1..Len(Order(id)) - 1 :
         a = Order(id)[i] /\ b = Order(id)[i + 1]

(* The replay frames written to a connected client follow the order of the *)
(* PhoneAPI init stream, one stream after another.                         *)
StreamInOrder ==
  [][\A c \in Client :
       conn[c] = "up" /\ tail'[c] # tail[c] => Follows(tail[c], tail'[c])]_vars

(* A responsive client's request is answered by a config_complete with its *)
(* id, unless the client goes away.                                        *)
RequestAnswered ==
  \A c \in Responsive, id \in ConfigId :
    Running(c, "reader") /\ replay[c]["reader"].id = id
      ~> id \in completes[c] \/ conn[c] # "up"

(* A refresh gets to the end of its snapshot of the clients. *)
RefreshEnds == \A r \in Refresher : phase[r] = "busy" ~> phase[r] = "done"

(* After a reconnection every connected client is refreshed: one that      *)
(* reads its socket leaves the snapshot (because its refresh began) or     *)
(* goes away, whatever the others do.                                      *)
RefreshReachesResponsive ==
  \A c \in Responsive :
    (\E r \in Refresher : c \in todo[r])
      ~> (\A r \in Refresher : c \notin todo[r]) \/ conn[c] # "up"
==============================================================================
