----------------------------- MODULE ReplayData -----------------------------
(***************************************************************************)
(* What a replay says, against what the cache holds.  Channels and nodes   *)
(* have versions; process_incoming puts a new one in the cache and in the  *)
(* client's queue in one step, while replays write to the client between   *)
(* its drains: the channels from the cache's list itself, the nodes from a *)
(* snapshot, and, when the cache has no channel, captured defaults.        *)
(* Sessions has the rest of a replay, and the life of the connection.      *)
(***************************************************************************)
EXTENDS Integers, Sequences, SequencesExt

CONSTANTS
  Channel,     \* indexes of channels
  Node,        \* numbers of nodes, but 0xFFFFFFFF, which no replay sends
  MaxUpdates,  \* bound: messages of the node that change the cache
  Runner       \* who may run a replay on the connection: read task, refreshes

ASSUME ReplayDataAssumption ==
  /\ Channel \subseteq Nat /\ IsFiniteSet(Channel) /\ Channel # {}
  /\ Node \subseteq Nat /\ IsFiniteSet(Node)
  /\ MaxUpdates \in Nat

MaxVersion == MaxUpdates + 1
Key == ({"channel"} \X Channel) \cup ({"node"} \X Node)
Item == [key : Key, version : 0..MaxVersion]      \* version 0: a captured default
Stages == {"idle", "channels", "defaults", "configs", "nodes"}

VARIABLES
  channels,    \* StateCache.channels: Seq(Item), the list itself
  known,       \* StateCache.known_nodes: [Node -> version], 0 for a node not known
  stage,       \* [Runner -> the section whose last frame is being drained]
  pos,         \* [Runner -> how far the iterator over channels has come]
  todo,        \* [Runner -> rest of the defaults, or of the snapshot]
  out,         \* ClientHandler._queue
  updates,     \* how many messages have changed the cache
  \* History.
  shown,       \* [Key -> the last version written to the client, or -1]
  overtaken,   \* keys written while a replay still held an older copy
  completed,   \* a replay has been completed
  begun,       \* [Runner -> channels in the cache when the section began]
  sent         \* [Runner -> channels written since]

cacheVars == <<channels, known>>
replayVars == <<stage, pos, todo, begun, sent, completed>>
vars == <<cacheVars, updates, replayVars, out, shown, overtaken>>

Items(list) == {list[i] : i \in DOMAIN list}
Indexes == {x.key[2] : x \in Items(channels)}
ItemOf(kind, k, v) == [key |-> <<kind, k>>, version |-> v]
Ascending(list) == \A i, j \in DOMAIN list : i < j => list[i].key[2] < list[j].key[2]
InOrder(items) == CHOOSE list \in SetToSeqs(items) : Ascending(list)

(* The client joins when the cache may have something already. *)
Init ==
  /\ channels \in {InOrder({ItemOf("channel", c, 1) : c \in S}) : S \in SUBSET Channel}
  /\ known \in [Node -> 0..1]
  /\ stage = [r \in Runner |-> "idle"]
  /\ pos = [r \in Runner |-> 0] /\ todo = [r \in Runner |-> <<>>]
  /\ out = <<>> /\ updates = 0
  /\ shown = [k \in Key |-> -1] /\ overtaken = {} /\ completed = FALSE
  /\ begun = [r \in Runner |-> {}] /\ sent = [r \in Runner |-> {}]

Cached(k) ==
  IF k[1] = "node" THEN known[k[2]]
  ELSE IF k[2] \in Indexes THEN (CHOOSE x \in Items(channels) : x.key = k).version ELSE 0

-----------------------------------------------------------------------------
(* process_incoming: _update_cache, then the broadcast. *)

(* Mutant: the new channel is put at the end, and the list is not sorted.  *)
UpdateChannelUnsorted(c) ==
  LET new == ItemOf("channel", c, Cached(<<"channel", c>>) + 1) IN
    /\ updates < MaxUpdates /\ updates' = updates + 1
    /\ channels' = Append(SelectSeq(channels, LAMBDA x : x.key # new.key), new)
    /\ out' = Append(out, new)
    /\ UNCHANGED <<known, replayVars, shown, overtaken>>

(* update_channel: in its place, or appended and the list sorted.          *)
UpdateChannel(c) ==
  LET new == ItemOf("channel", c, Cached(<<"channel", c>>) + 1) IN
    /\ updates < MaxUpdates /\ updates' = updates + 1
    /\ channels' = InOrder({x \in Items(channels) : x.key # new.key} \cup {new})
    /\ out' = Append(out, new)
    /\ UNCHANGED <<known, replayVars, shown, overtaken>>

(* update_known_node, from a NodeInfo or a NODEINFO_APP packet.            *)
UpdateNode(n) ==
  /\ updates < MaxUpdates /\ updates' = updates + 1
  /\ known' = [known EXCEPT ![n] = @ + 1]
  /\ out' = Append(out, ItemOf("node", n, known[n] + 1))
  /\ UNCHANGED <<channels, replayVars, shown, overtaken>>

-----------------------------------------------------------------------------
(* Frames. *)

(* A replay holds an older default, or an older node. *)
HeldOlder(item) ==
  \E r \in Runner : \E x \in Items(todo[r]) :
    x.key = item.key /\ x.version < item.version /\ (x.key[1] = "node" \/ x.version = 0)

(* writer.write. *)
Write(item) ==
  /\ shown' = [shown EXCEPT ![item.key] = item.version]
  /\ overtaken' = IF HeldOlder(item) THEN overtaken \cup {item.key}
                  ELSE IF item.version = Cached(item.key) THEN overtaken \ {item.key}
                  ELSE overtaken

(* The write loop of the client. *)
Deliver ==
  /\ out # <<>>
  /\ out' = Tail(out)
  /\ Write(Head(out))
  /\ UNCHANGED <<cacheVars, updates, replayVars>>

Defaults == InOrder({ItemOf("channel", c, 0) : c \in Channel})
Snapshot == InOrder({ItemOf("node", n, known[n]) : n \in {m \in Node : known[m] > 0}})

(* Mutant: the channels are taken from a copy of the list. *)
StartChannelsCopy(r) ==
  /\ stage[r] = "idle"
  /\ LET list == IF channels # <<>> THEN channels ELSE Defaults IN
       /\ Write(Head(list))
       /\ todo' = [todo EXCEPT ![r] = Tail(list)]
  /\ stage' = [stage EXCEPT ![r] = "defaults"]
  /\ UNCHANGED <<cacheVars, updates, pos, begun, sent, completed, out>>

(* send_channels, up to its first frame. *)
StartChannels(r) ==
  /\ stage[r] = "idle"
  /\ begun' = [begun EXCEPT ![r] = Indexes]
  /\ IF channels # <<>>
     THEN /\ Write(channels[1])
          /\ stage' = [stage EXCEPT ![r] = "channels"]
          /\ pos' = [pos EXCEPT ![r] = 1]
          /\ sent' = [sent EXCEPT ![r] = {channels[1].key[2]}]
          /\ UNCHANGED todo
     ELSE /\ Write(Head(Defaults))
          /\ stage' = [stage EXCEPT ![r] = "defaults"]
          /\ todo' = [todo EXCEPT ![r] = Tail(Defaults)]
          /\ UNCHANGED <<pos, sent>>
  /\ UNCHANGED <<cacheVars, updates, completed, out>>

(* The iterator goes on over the list as it is by now. *)
NextChannel(r) ==
  /\ stage[r] = "channels" /\ pos[r] < Len(channels)
  /\ LET item == channels[pos[r] + 1] IN
       /\ Write(item)
       /\ sent' = [sent EXCEPT ![r] = @ \cup {item.key[2]}]
  /\ pos' = [pos EXCEPT ![r] = @ + 1]
  /\ UNCHANGED <<cacheVars, updates, stage, todo, begun, completed, out>>

(* The next default, or node of the snapshot. *)
NextHeld(r) ==
  /\ stage[r] \in {"defaults", "nodes"} /\ todo[r] # <<>>
  /\ Write(Head(todo[r]))
  /\ todo' = [todo EXCEPT ![r] = Tail(@)]
  /\ UNCHANGED <<cacheVars, updates, stage, pos, begun, sent, completed, out>>

(* The end of the section: configs follow, which come from the capture.    *)
ChannelsEnd(r) ==
  /\ \/ stage[r] = "channels" /\ pos[r] >= Len(channels)
     \/ stage[r] = "defaults" /\ todo[r] = <<>>
  /\ stage' = [stage EXCEPT ![r] = "configs"]
  /\ UNCHANGED <<cacheVars, updates, pos, todo, begun, sent, completed, out, shown, overtaken>>

(* send_known_nodes takes its snapshot and writes the first node, or       *)
(* synthetic nodes, of numbers that are no node's.                         *)
StartNodes(r) ==
  /\ stage[r] = "configs"
  /\ stage' = [stage EXCEPT ![r] = "nodes"]
  /\ IF Snapshot # <<>>
     THEN Write(Head(Snapshot)) /\ todo' = [todo EXCEPT ![r] = Tail(Snapshot)]
     ELSE UNCHANGED <<todo, shown, overtaken>>
  /\ UNCHANGED <<cacheVars, updates, pos, begun, sent, completed, out>>

(* config_complete is written and drained. *)
Complete(r) ==
  /\ stage[r] = "nodes" /\ todo[r] = <<>>
  /\ stage' = [stage EXCEPT ![r] = "idle"]
  /\ pos' = [pos EXCEPT ![r] = 0]
  /\ begun' = [begun EXCEPT ![r] = {}] /\ sent' = [sent EXCEPT ![r] = {}]
  /\ completed' = TRUE
  /\ UNCHANGED <<cacheVars, updates, todo, out, shown, overtaken>>

Next ==
  \/ \E c \in Channel : UpdateChannel(c)
  \/ \E n \in Node : UpdateNode(n)
  \/ Deliver
  \/ \E r \in Runner : \/ StartChannels(r) \/ NextChannel(r) \/ NextHeld(r)
                       \/ ChannelsEnd(r) \/ StartNodes(r) \/ Complete(r)

Spec == Init /\ [][Next]_vars

-----------------------------------------------------------------------------
(* Every variable keeps its type; the cache's list has one channel of an   *)
(* index, in ascending order.                                              *)
TypeOK ==
  /\ channels \in Seq(Item) /\ known \in [Node -> 0..MaxVersion]
  /\ Ascending(channels)
  /\ stage \in [Runner -> Stages] /\ pos \in [Runner -> Nat]
  /\ todo \in [Runner -> Seq(Item)] /\ out \in Seq(Item)
  /\ shown \in [Key -> -1..MaxVersion] /\ overtaken \in SUBSET Key
  /\ completed \in BOOLEAN /\ updates \in 0..MaxUpdates
  /\ begun \in [Runner -> SUBSET Channel] /\ sent \in [Runner -> SUBSET Channel]

(* A replay that iterates over the cache's own list has sent, when it gets *)
(* to the configs, every channel there was when it began, though the list  *)
(* has been inserted into under the iterator.                              *)
NoneSkipped ==
  \A r \in Runner : stage[r] = "configs" /\ pos[r] > 0 => begun[r] \subseteq sent[r]

(* After a whole replay, and with no news on the way, the last the client  *)
(* was shown of each channel and node is what the cache holds, even while  *)
(* more replays run: but for one whose news was written while a replay     *)
(* still held an older copy of it, a captured default or a node of a       *)
(* snapshot.                                                               *)
UpToDate ==
  completed /\ out = <<>> =>
    \A k \in Key \ overtaken : Cached(k) > 0 => shown[k] = Cached(k)

(* When no replay is under way, a whole one has been sent and no news is   *)
(* on its way, the client has been shown the node as it is (README.md:26:  *)
(* the node's state is captured and replayed to new clients).  No copy     *)
(* that a replay held is excused here.                                     *)
ShownIsCurrent ==
  completed /\ out = <<>> /\ (\A r \in Runner : stage[r] = "idle") =>
    \A k \in Key : Cached(k) > 0 => shown[k] = Cached(k)
==============================================================================
