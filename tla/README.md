# Verification of the Meshtastic multiplexer

The program (`src/src/`) is an asyncio proxy: many Meshtastic clients share one
physical node. It captures a configuration, replays it to every client that
asks with `want_config_id`, forwards what the radio says to all clients, lets
clients' packets through to the radio one at a time, and refreshes its clients
when the physical node reconnects. This directory holds TLA+ models of that
code, TLC runs that check them on small instances, and TLAPS proofs for every
size.

Contents: [inventory](#inventory), [plan](#plan), [models](#the-models),
[runs](#the-runs), [fairness](#fairness), [proofs](#the-proofs),
[findings](#findings), [limits](#what-is-not-modelled).

## How to run

    tlc -workers 2 -config SessionsReplay.cfg MCSessions.tla
    tlapm SessionsProofs.tla

`PROJECT.json` lists the runs, the source lines of each definition ("map"), a
mutant of the code for each property of a passing run, the hazards and the
theorems.

## Inventory

| Component (file) | State | Operations | Interacts with |
|---|---|---|---|
| Client session: `ClientHandler` (client_handler.py) | `_queue`, `_config_sent`, `_last_config_id`, `last_activity`, a read and a write task, the transport | `handle`, `_read_loop`, `_write_loop`, `_handle_to_radio`, `refresh_config` | registry, replay, router, queue to the radio |
| Registry: `TCPServer` (tcp_server.py) | `_clients`, cleanup task | `_handle_client`, `broadcast_from_radio`, `refresh_all_clients`, `_cleanup_loop`, `stop` | sessions |
| Replay: `ConfigReplayBuilder` (config_capture.py) | none of its own; reads the cache and the capture | `replay`, one `send_*` for each section | writes to a client's transport |
| Capture: `ConfigCapture` (config_capture.py) | list of frames | `capture_defaults` | replay |
| Queue to the radio: `MessageQueue` (message_queue.py) | `_queue`, `_processing`, its tasks | `enqueue_raw`, `_process` | link |
| Link: `PhysicalNodeManager` (physical_node.py) | `_reader`, `_writer`, `_connected`, `_running`, `_read_loop_task`, `_reconnect_task`, the events for my_info and metadata, the read queue | `connect`, `disconnect`, `_do_connect`, `_read_loop`, `_reconnect_loop`, `process_incoming`, `send_raw_to_radio` | reconnect callback, incoming callback |
| Framing (protocol.py) | none | `encode_frame`, `find_frame` | sessions, link |
| Router: `MessageRouter` (message_router.py) | none | `route_from_client`, `route_from_physical` | sessions, link |
| Cache: `StateCache` (state_cache.py) | own node, my_info, metadata, channels, known nodes | updates | replay, main |
| Wiring (main.py) | all of the above | `_on_physical_reconnect`, `_update_cache`, `_route_broadcast`, start, shutdown | everything |
| Configuration, mock node, mDNS | - | - | start-up only |

Everything runs on one event loop. A task keeps control until an `await` really
suspends: `read()`, `queue.get()`, `writer.drain()`, `sleep()`, `open_connection()`,
`wait_closed()`, and waiting for a cancelled task. `Queue.put()` on an unbounded
queue and calls to coroutines that reach none of these do not suspend. The models
have one step from one suspension to the next, so their interleavings are those
of the loop.

What is hard, and what makes each component correct:

* **Sessions, registry, replay.** A replay suspends after each frame; meanwhile
  clients come and go, nodes are learnt, packets are broadcast and a refresh may
  begin a second replay on the same connection. Correct: each client gets one
  gapless stream of broadcasts; a node is either in its replay or broadcast to
  it; the throttle eats only requests that were answered; a refresh forgets
  nobody and leaves nobody refused; packets are taken only from clients that
  were configured.
* **Queue to the radio.** Every message enqueued before the first task runs
  starts another task; the end of `asyncio.run` cancels tasks at either await and
  before their first step. Correct: one sender at a time, paced; no message waits
  without a task, but for tasks cancelled before they began; FIFO, lossy only
  when full.
* **Link.** `connect`, both exits of the read loop and each failed attempt may
  start a reconnect loop, and all share one reader and writer without a lock.
  Correct: one task at a time drives the link, never none while it should be
  driven, none after `disconnect()`; what `wait_for_my_info` returns came over
  the present connection; it reconnects.
* **Expiry.** Two clocks. Correct: an idle client goes.
* **Framing.** Bytes come in chunks that respect no boundary, with noise between
  frames. Correct: what is decoded is what was sent, in order and once.
* **Router and uplink.** The echo to all clients comes before the bounded queue,
  and both before a link that may be down; exceptions in the echo, in the fake ACK
  and in the stripping are swallowed. Correct: only what the policy allows
  reaches the radio, and an intercepted command does not; clients and radio get
  the same packets in the same order, but for those that are lost on the way.
* **Identity.** Handlers of several connections wait, time out and copy, while
  `process_incoming` reads the same cache. Correct: the cache and the captured
  defaults are those of the present node, also if it speaks late, never one node's
  number with another's names; and every handler ends. (Not if it speaks late, and
  names may be mixed: see the further counterexamples.)
* **Data of a replay.** The list of channels changes under an iterator, the
  nodes under a snapshot. Correct: no channel is skipped, and what a client saw
  last is what the cache holds. (Not if a replay held an older copy: see the
  further counterexamples.)
* **Shutdown.** See the plan.

## Plan

In order of how much of the system's behaviour rests on it:

1. *Done:* `Sessions` with the abstract `BroadcastLog`; its theorems in
   `SessionsProofs`.
2. *Done:* `MessageQueue` with the abstract `BoundedFifo`; `MessageQueueProofs`.
3. *Done:* `PhysicalLink`; `PhysicalLinkProofs`.
4. *Done:* `ClientExpiry`.
5. *Done:* `Framing`; `FramingProofs`.
6. *Done:* `Router`, and `Uplink`, which composes it with `Framing`, the echo and the
   queue; `UplinkProofs`.
7. *Done:* `Identity`; `IdentityProofs`.
8. *Done:* `ReplayData`: channels and nodes with versions.
9. *Done:* `NoGap`, `RefreshedAfterCapture` and `AnsweredIsConfigured` proved in
   `SessionsProofs`.
10. *Done:* `ReplayDataProofs`; `EchoMatchesRadio` proved in `UplinkProofs`,
    `DecodedAsSent` in `FramingProofs`; `ClientExpiryProofs`. Every invariant of
    the runs that pass is now a theorem too.
11. `Shutdown`: `TCPServer.stop`, `disconnect` and the cancellation of the main
    task against sessions that are in any stage. What `wait_closed` waits for
    depends on the version of the event loop.

## The models

Variables and actions have the source's names where TLA+ allows it; "History"
variables exist only for properties. Operators whose comment begins with
"Mutant:" are not part of the model: each is a definition as a plausible bug would
have it, used to show that a property can fail.

### Sessions (+ MCSessions, SessionsProofs, BroadcastLog)

The client side: registry, handlers, replays, refreshes, broadcasts, and the
place where clients' packets join the queue to the radio.

| Code | Model |
|---|---|
| `_handle_client` to the first await; `ClientHandler.__init__` | `Accept`, `NewHandler` |
| a read returns `b""`; the end of `handle`; the `finally` of `_handle_client` | `ReaderEnds`, `Teardown`, `Unregister` |
| the `want_config_id` branch of `_handle_to_radio` | `WantConfig`, `MayThrottle` |
| `ConfigReplayBuilder.replay`, one step for each drained frame | `Order`, `ReplayStep`, `ReplayFinish`, `ReplayFail` |
| `_on_physical_reconnect` after its waits; `refresh_all_clients`; `refresh_config` | `Recapture`, `RefreshNext`, `RefreshDone` |
| `process_incoming` on a NodeInfo, `_update_cache`, `_route_broadcast` | `PhysicalNodeInfo`, `Broadcast` |
| the packet branch, `_process_locally`, `enqueue_raw` | `ClientPacket`, `Enqueue` |
| `_write_loop` | `Deliver`, `WriterEnds` |

The contents of frames are reduced to the section they belong to, the node they
describe, or the id they confirm. A client value stands for one handler object: it
is reused only when no task and no refresh refers to it any longer. The cooldown
of the throttle is a choice: a repeated id may be dropped (a stutter) or answered.
A refresh writes on connections whose handler may be gone, which is why a replay
can go on there and the flags outlive the connection.

`ReplayFail` and `WriterEnds` are any exception, on a live connection too: a drain
that raises (also because another task drains the same writer, before Python
3.10.7), a frame that cannot be built, a message too long for one. In the read task
it ends the connection. In a refresh it is caught by `refresh_all_clients`, which
leaves the client connected and refused until it asks again; `unrefreshed`
records such clients, and `ThrottledWasAnswered` says that nothing eats that next
request. `Echo` is `_process_locally`, which may swallow an exception and show
nothing.

`BroadcastLog` is the abstract specification of the broadcast: one log, of which
each member reads a contiguous part, starting where it joined. `Sessions`
implements it with `log <- bcast`, `members <- clients`; the clients' queues and
tasks are the means and do not appear in it.

### MessageQueue (+ MCMessageQueue, MessageQueueProofs, BoundedFifo)

`Enqueue`/`EnqueueFull` are `enqueue_raw`. `Start` is the first step of
`_process`, `Loop` the stretch from `get_nowait` to the next await, `Drained` and
`Awake` the two awaits. Only the end of `asyncio.run` (`RunEnds`) cancels these
tasks, every one there is. A task at an await gets the exception there and goes
through its `finally` clause, which may start a successor (`Cancel`); one that has
not had its first step ends without running any of its body (`CancelUnstarted`),
and what it was started for stays in the queue. `cutShort` says that no task was
past the flag when the run ended, the only case in which messages are left
without a task. `LinkUp` and `LinkDown` are the connection of `PhysicalLink`.
Messages are numbers, in the order of the calls. `BoundedFifo` promises order,
loss only when full, and that accepted messages are taken while it is open, which
is until `asyncio.run` ends. It does not promise that the radio gets them: a message taken while the link is down is logged and
lost, by design of the code.

### PhysicalLink (+ MCPhysicalLink, PhysicalLinkProofs)

`pc` says which await each task is at: the sleep of the reconnect loop ("delay"),
`open_connection` ("opening"), the drain and pause of the handshake
("handshake"), or the read loop. `Main` is the task that calls `connect()` and
`disconnect()`. `ReadLoopEnds` covers end of file, an exception and the idle
timeout. The node is external: it is reachable or not, and a transport works
or is broken. `hooks` are the reconnect callbacks, which the code starts without
waiting for earlier ones.

### Framing (+ MCFraming, FramingProofs)

`EncodeFrame` and `FindFrame` are `encode_frame` and `find_frame` on sequences of
bytes. The actions are the peer (`SendFrame`, `SendNoise`; external) and the loop
that both `_read_loop`s have: `ReadChunk` is a `read(4096)` with any number of
the bytes that have come in, `Extract` a `find_frame` that returned a payload,
`NoMoreFrames` one that returned none, after which the loop reads again. `stream`
holds all bytes ever sent, so that a property can compare. `cut` records frames that
lost their first byte (the finding below), `skipped` a stop at a bad length: the loop
then waits for the next read though a frame may be in the buffer.

### Router (in Uplink)

`Route` is `route_from_client` and `_route_packet` as one decision over the
fields they read. IP networks are sets of addresses, an invalid entry is no
entry. The meshtastic package is not in the repository; `Absent` names those fields
that the code sets or clears and that its messages lack: doing so raises, the
exception is swallowed and the packet goes on to the radio. Of the fields at
issue, `request_id` is not one of `Routing` (it is one of `Data`), and
`public_key` is one of `MeshPacket`, so the runs have
`Absent = {"Routing.request_id"}`. `Stripped` has both outcomes of the stripping.

### Uplink (+ MCUplink, UplinkProofs)

One connection from its socket to the radio. It EXTENDS `Framing`: `Extract` is
part of every action that handles a message. `_handle_to_radio` is one action for
each branch (`WantConfig`, `Heartbeat`, `Ignored`, `PacketRefused`,
`PacketAllowed`); the branches that await (a replay, a heartbeat's answer, a fake
ACK) leave `waiting` set until `HandlerGoesOn`, and the loop extracts nothing
meanwhile. `RefreshBegins` and `RefreshEnds` are `refresh_config` in another task,
which takes `_config_sent` away from under it. Protobuf parsing is external: a
function from payloads to messages. Packets let through are numbered (`admitted`), so
that what the radio gets and what the clients are shown can be compared:
`silent` has the numbers whose echo raised, `lost` those dropped at a full queue
or at a link that was down.

### Identity (+ MCIdentity, IdentityProofs)

Whose node the clients are shown. What a node says is known by the number of the
connection it came over. `Connected`, `Lost` and `Receive...` are the link
(`_do_connect` from the clearing of the events, `_maybe_capture_my_info`, the read queue);
`CopyInfo`, `InfoTimeout` and `CaptureDefaults` the handlers: the start of
`main()`, and one `_on_physical_reconnect` for each connection, which may
overlap; `Process` is `process_incoming` with `_update_cache`, which goes on until
its queue is empty, for nothing in it suspends before.

The order in which the event loop wakes tasks matters here. The frame that sets
an event also feeds the queue of `process_incoming`; the handlers that wait for the
event are woken first, and so copy my_info before the node's own NodeInfo is compared
with it, except when `process_incoming` was awake already (its queue was not
empty): then it may handle the own NodeInfo first and take it for another node's.
`awake` records that it was, `NoneWoken` that no handler is before it; a new
connection comes after a delay in which everything woken has run (`Settled`). So
`OneNodeShown` is violated (`IdentityMixed.cfg`). A my_info that arrives after the
wait has timed out (`timedOut`) is never copied (main.py:115): `LateInfoCopied` is
violated (`IdentityLate.cfg`). What the other properties say is of connections
whose my_info came in time. `cache.node_info` of an earlier node stays until the
new one's is recognised.

### ReplayData (+ MCReplayData, ReplayDataProofs)

What the channels and nodes of a replay say. Each has a version, which counts the
updates; 0 is a captured default or an unknown node. `UpdateChannel` and
`UpdateNode` are `process_incoming` with `_update_cache` and `_route_broadcast`: the
new version is in the cache and in the client's queue in one step. A runner is a
task with a replay on the connection (the read task or a refresh).
`StartChannels`, `NextChannel` iterate over the cache's own list; `NextHeld` goes
through what was copied when the section began, the defaults or the snapshot of
the nodes. `pos` and `begun`, `sent` are the iterator and what it should reach.
`overtaken` has what was broadcast while a replay held an older copy: `UpToDate`
exempts it, and `ShownIsCurrent`, which does not, is violated (`ReplayStale.cfg`).

### ClientExpiry (+ MCClientExpiry, ClientExpiryProofs)

Two clocks with different origins, the stamp a handler takes of one and the
comparison the cleanup makes with the other, in minutes.

How the modules fit: `Sessions.uplink` is `MessageQueue.queue` seen from the
clients (with `UplinkTake` for all of its tasks); `MessageQueue.linkUp` is
`PhysicalLink.connected`; a hook of `PhysicalLink` is a refresher of `Sessions`.
`Uplink` and `ReplayData` look into single steps of `Sessions`: the first into
`ClientPacket` and the read loop, the second into the sections of a replay;
`Identity` looks into the callback before `Recapture`, and has the events of
`PhysicalLink`. In `Sessions` the cleanup never removes a client, which is what the code does
(see the findings).

## The runs

| Run | Instance | Shows |
|---|---|---|
| `sessions_replay` | 1 client that reads, 1 node, the 3 kinds of replay, 1 refresh, 1 broadcast, fair | `ThrottledWasAnswered`, `RefreshedAfterCapture`, `AnsweredIsConfigured`, `EchoOnlyAfterConfig`, `RequestAnswered`, `RefreshEnds` |
| `sessions_broadcast` | 2 clients, 2 nodes, 1 id, 2 broadcasts | `NoGap`, `SameStream`, `ImplementsLog`, `TypeOK` |
| `sessions_stalled` | 2 clients, one of which may stop reading | violation of `RefreshReachesResponsive` |
| `sessions_mixed` | 1 client, 1 refresh, the full order of sections | violation of `StreamInOrder` |
| `message_queue` | 4 tasks, capacity 3, 6 messages, the end of `asyncio.run`, fair | `SingleFlight`, `NoStranded`, `Paced`, `ImplementsFifo`, `TypeOK` |
| `physical_link` | 3 tasks, 2 callbacks, delays 1, 2, 3, fair | `OneDriver`, `NeverAbandoned`, `InfoIsCurrent`, `StoppedForGood`, `Reconnects`, `TypeOK` |
| `client_expiry` | 1 client, timeout 5, cleanup each minute, boot at 100 | violation of `IdleClientsExpire` |
| `framing_split` | 3 frames, 2 pieces of noise, any chunks | violation of `NoFrameLost` |
| `uplink` | 3 frames of up to 2 bytes, 1 piece of noise (one has a bad length), any chunks, queue of 1 | `DecodedAsSent`, `RadioPolicy`, `EchoMatchesRadio`, `TypeOK` |
| `removal_forwarded` | as `uplink` | violation of `RemovalIntercepted` |
| `identity` | 2 nodes, 2 connections, fair | `IdentityIsCopied`, `CaptureAgrees`, `HandlersEnd`, `TypeOK` |
| `replay_data` | 2 channels, 2 nodes, 3 updates, 2 replays at a time | `NoneSkipped`, `UpToDate`, `TypeOK` |

Four configurations are kept beside these runs. `SessionsRefresh.cfg` is a larger
instance of two properties of `sessions_replay`: two clients in the snapshot of one
refresh, without broadcasts, which neither of them reads (4 million states, no
error). `IdentityMixed.cfg`, `IdentityLate.cfg` and `ReplayStale.cfg` each have a
property that the code violates at once; see [further
counterexamples](#further-counterexamples).

What each property says is in the comment before it. Why the bounds suffice:

* **Nodes and broadcasts.** `NoGap` can only fail for a node learnt between a
  snapshot and its end; two nodes give one before, one after it, and both orders
  within a snapshot. Two broadcasts give order.
* **Clients.** `SameStream` and `NoGap` speak of one client at a time, and
  clients meet only in the registry, in a refresh (one at a time) and in the
  source of an echo: two of them are every kind of meeting. A refresh is with one
  client in `sessions_replay` and with two in `SessionsRefresh.cfg`. Several
  refreshes that overlap are beyond these instances: the theorems of
  `SessionsProofs` cover any number of clients and refreshes.
* **Ids.** The client of `sessions_replay` asks for the two special replays, and
  a refresh sends the full one; that of `sessions_broadcast` asks for the full one.
* **Preamble.** What matters of the sections before the nodes is that there are
  steps, some of whose exceptions are swallowed: two sections, one of each kind
  (`ShortPreamble`), or one (`OnePreamble`). `sessions_mixed`, which is about
  order, has all of them.
* **Refreshes.** One in these runs; any number in the theorems.
* **Tasks of the queue.** With capacity 3, three messages start three tasks
  before the first runs, or before all are cancelled, and one that is cancelled at an
  await starts a fourth. `Enqueue` waits for a
  free task value, a bound of the model; every message beyond the capacity
  is refused before it would need one.
* **Tasks of the link.** A task ends as it starts its successor, so two values
  would do while `OneDriver` holds; a third leaves room for it to fail.
* **Callbacks.** Two at a time. `HandshakeDone` waits for a free one, a bound of
  the model; the callback's effects are in `Sessions`.

* **Bytes.** Payloads and noise are chosen so that they contain start bytes where
  these could be taken for a frame; a chunk may end anywhere. Three frames let
  a loss in one be seen in the next, and a queue of one be full. `MaxPacket` 2
  leaves a length that is too long by one.
* **Connections.** Two: each handler, and that of the start, can meet a later
  connection and another node. What a third would do to the handler of the
  first is what the second does to that of the start; the theorems have any
  number.
* **Updates.** One before, one between and one after the sections that read the
  cache. Runners are symmetric (`RunnerSymmetry`): invariants only, and no
  constant tells them apart. The run with 4 updates finds nothing more.

Deadlock is checked but in `framing_split` and the runs of `Identity` and
`ReplayData`: there the peer may have sent all the model lets it send, and everything
is handled. In the others a client can connect or go, a refresh begin or
end, or the node come and go, whatever the bounds have used up.

## Fairness

* `Sessions`: the drain of a client that reads, or whose connection is lost, ends
  (asyncio resumes a writer when the buffer empties and raises when the
  transport is closed), and the tasks of responsive clients go on. Nothing is
  assumed of a client that stops reading without closing: its drain may last for
  ever, for the code sets no timeout. The event loop runs a refresh that can
  take its next step, and `handle()` when one of its two tasks has ended. Nothing
  makes clients ask, or nodes speak.
* `MessageQueue`: until `asyncio.run` ends a ready task runs, a timer expires, a
  drain towards the radio ends. The last is an assumption about the transport, not
  about the code. Nothing is assumed of the loop once it ends: a successor that is
  started then may never run.
* `PhysicalLink`: timers expire; an attempt to connect and a handshake end one way
  or the other; a read loop notices a broken transport; callbacks end. The node
  need not stay reachable, nor a connection last.
* `Identity`: the waits for my_info and metadata have timeouts, which expire, and
  the event loop runs a task that was woken. Nothing makes the node speak.

All fairness is weak: no action competes with another for the chance to run.

## The proofs

Each theorem holds for all values of the constants that satisfy the module's
ASSUME: any number of clients, nodes, tasks, refreshes, any capacity and bounds. The
assumptions are those the code makes: special ids are distinct and not 0, a replay
has at least one section, delays are positive and ordered.

* **SessionsProofs.** `TypeCorrect` first. `StreamIsSame` rests on an invariant,
  *Streamed*, that says for each client with a live write task where its queue and
  what it was written lie in the log; a broadcast extends the queue and the log by
  the same message, and a write moves one from the queue to what was written.
  `BroadcastIsALog` then maps each step to a step of `BroadcastLog` or a stutter:
  a write reads the log's next message because of `SameStream`, and a live write task
  belongs to a registered client (`TasksAreRegistered`).
  `ThrottleIsSafe` needs more than its property says: a replay may have been begun
  by a refresh (id 0), or by the read task with an id that a refresh has since
  reset. The inductive `AnswerInv` says that whatever is in `_last_config_id` was
  either answered or is the id of the read task's present replay, and that
  `_config_sent` is set only after some `config_complete`. `EchoesAreConfigured`
  follows from it as well. `NobodyStaysUnconfigured`, `RefreshReachesAll` and
  `NoNodeIsMissed` have an invariant each over the stages of replays
  and refreshes: what a replay in its last section has written, whose snapshot a
  refresh still has to visit, and that whatever the cache learnt after a snapshot
  is in the client's queue. The first two leave out a client whose refresh ended
  with an exception, which the code leaves refused (`unrefreshed`).
* **MessageQueueProofs.** `SingleFlight` is inductive given `TypeOK`: the step of a
  started task preserves it because it looks at the flag (`OneFlight`). `NoStranded` is
  not: while a
  run ends, a task that is there need not be one that will take the message. *QueueInv*
  says that, but for `cutShort`, a message that waits has a task past the flag, which
  leaves it to a successor if it is cancelled, or one that will have its first step
  (`Takes`).
  `SendsArePaced` and `ImplementsFifoSafety` follow.
* **PhysicalLinkProofs.** `OneDriver` is not inductive: a cancelled task must be
  one the manager holds a reference to. *LinkInv* adds *Owned* (a sleeping,
  opening or reading task is the one in `_reconnect_task` or `_read_loop_task`)
  and *Stages* (what `running` and `stopped` say of each other and of the tasks);
  `NeverAbandoned` and `InfoIsCurrent` are parts of it. `Stops` follows.

* **IdentityProofs.** The inductive *IdentityInv* adds to the properties where
  the handler of the present connection is, against what has come over it: it does
  not miss my_info, and the events are those of the connection. From this no older handler can undo what the present
  one copied, because each copies what `phys_mgr` holds by then.
* **FramingProofs.** `FrameFound`: on a buffer that begins where a frame begins,
  `FindFrame` returns its payload once the whole frame is there, and leaves the
  buffer alone until then. `ChunksLoseNothing`: with no noise between frames,
  what is decoded is a prefix of what was sent and all of it when the loop waits,
  for any payloads and chunks; its invariant says that the buffer is the part of
  the stream from the end of the last decoded frame to the last byte read. So
  the loss of `framing_split` needs noise. `NoiseDoesNoHarm` is `DecodedAsSent`
  with noise, for any payloads and chunks, if the noise is *Harmless*: a first
  start byte in it begins no pair, or a pair whose length is too large. The wake
  bytes of a client and text have no such byte at all; both noises of the runs
  are harmless. Its invariant says of the stream where the frames are (*Layout*) and that
  start bytes outside of them are harmless (*Between*), and of the buffer that it
  is the rest of the stream (*Rest*), no whole frame is gone in part, and those
  that are gone are what was decoded (*Decoded*). The lemma `NextInBuffer` is the
  step: the first pair of start bytes in the buffer is that of the first
  whole frame that is not gone, or a bad header before it. *Rest* and *Decoded* need
  `PlainCuts`: a frame that lost its first byte is noise, which may hold
  anything, a frame in its payload or its length too.
* **UplinkProofs.** `ReadsFrames`: the uplink is a framing loop, so what is
  proved of that holds here (`HandlesWhatWasSent`). `PolicyHolds`:
  `RadioPolicy`, from the invariant that each message in the queue or written to the
  radio satisfied the policy when it was let in, and that the address of a
  client never changes. It assumes that the stripping does not raise
  (`Exists("MeshPacket.public_key")`), for on the path that forwards the original a
  packet from node 0 stays encrypted. `EchoesMatch`: `EchoMatchesRadio` is inductive given
  the types: a packet let through takes the next number, so appending it keeps the
  numbers ascending (`NumbersGrow`), and taking one to the radio or losing it moves
  its number (`NumbersShrink`).
* **ReplayDataProofs.** `TypeCorrect` says of the cache's list that it has each
  index once and in ascending order, also after the sort in `update_channel`. That
  `InOrder` gives such a list is a fact about finite sets of naturals, and `Shift`
  one about two of them: what is in the shorter list is nowhere later in it than in
  the longer one. So an insertion can only move a channel towards the end, and an
  iterator that goes on by position may send one twice but skips none
  (*IteratorInv*, `NoChannelSkipped`). `EndsUpToDate` needs *DataInv*: the last message
  about a channel or node in the client's queue is what the cache holds; what a
  replay still holds, or the client was shown last, is current, or news of it is in
  the queue, or it was overtaken; and *CoverInv*: what the sections so far
  have gone over was shown, or is in the queue or in the rest of the section.
* **ClientExpiryProofs.** `NobodyIsRemoved`: with the clocks that the code reads no
  round of the cleanup removes anyone, for a stamp is never less than `BootTime`, and
  the machine has not been up for as long as that. It is the first finding for all
  values, and the reason why `Sessions` has no cleanup.

Only model-checked: every liveness property (`RequestAnswered`, `RefreshEnds`,
`Reconnects`, `HandlersEnd`) and the fair part of `ImplementsFifo`,
which are beyond this prover. Beyond the assumptions of `NoiseDoesNoHarm`, noise that
looks like the beginning of a frame, `DecodedAsSent` does not hold, nor should it.

## Findings

1. `tcp_server.py:104`: the cleanup compares the event loop's clock with stamps
   of `time.time()`, so no idle client is ever removed (README.md:34). Run
   `client_expiry`.
2. `tcp_server.py:64`: a refresh waits for each client in turn and without limit;
   one that stops reading keeps all later ones on the old configuration
   (README.md:37). Run `sessions_stalled`.
3. `client_handler.py:219`: a refresh replays on a connection whose read task is
   in a replay, and the frames of both interleave (README.md:229 gives the
   order). Run `sessions_mixed`.
4. `protocol.py:37`: when a buffer of four bytes or more holds no pair of start
   bytes, all of it is dropped, the first start byte of a frame at its end too; the
   rest of that frame is then taken for noise. The docstring (protocol.py:26) says
   that incomplete data is returned. Run `framing_split`.
5. `message_router.py:150`: the fake ACK sets a field that `mesh_pb2.Routing` does not
   have; the exception is swallowed at line 117 and the `removeByNodenum` goes on
   to the radio (README.md:30 and 218 say that it is dropped). The exception
   depends on the meshtastic package, which is not in the repository: it is the
   value of `Absent`. Run `removal_forwarded`.

### Further counterexamples

Three hazards of the code are real, and the models have them, but no run of
`PROJECT.json` states the promise that is broken. To see them:

    tlc -config IdentityMixed.cfg MCIdentity.tla
    tlc -config IdentityLate.cfg MCIdentity.tla
    tlc -config ReplayStale.cfg MCReplayData.tla

* `OneNodeShown` (physical_node.py:116): the frame that wakes the reconnect handler
  feeds the queue of `process_incoming` too, which may be awake already; then the
  own NodeInfo of a new node is compared with the previous number, and until the node
  says it again clients are shown the number of one node with the names of another
  (configs/config.example.yaml:34: "copy identity from physical node").
* `LateInfoCopied` (main.py:115): a my_info that comes after the wait has timed
  out is never copied, and clients are shown the previous number, or none (the
  same promise).
* `ShownIsCurrent` (config_capture.py:575 and 594): the captured default channels
  and the snapshot of the nodes are sent frame by frame, so an older copy may follow
  the broadcast of the news and stay with the client (README.md:26 says that
  the node's state is replayed).

## What is not modelled

* The fields and layout of frames, protobuf parsing, logging, the YAML
  configuration (`config.py`: its values are constants), the mock node, mDNS (output
  only, at the start).
* `ConfigCapture`: a list of frames put together from literals. When it runs is
  `Recapture`, what it takes from the node is `Captured` in `Identity`, its
  channels are `Defaults` in `ReplayData`. `capture_from_interface` and the cache's
  `update_config` and `update_module_config` are never called.
* The clock of the throttle: a choice, see above.
* The growth of a client's queue: the number of broadcasts is bounded.
* The length of a message: payloads are assumed to fit a frame
  (`FramingAssumption`). What one that does not fit causes, the end of write tasks
  on live connections, is in `Sessions` (`WriterEnds`), but not that one broadcast
  ends them all.
* The loss of packets that were accepted: `Uplink` counts them, and nothing in
  the code promises that there are none.
* `route_from_physical`: it forwards every message, config_complete too
  (README.md:212 says it is filtered).
* `stop()` and the rest of the shutdown: see the plan.
