------------------------------ MODULE Identity ------------------------------
(***************************************************************************)
(* Whose node the clients are shown: what PhysicalNodeManager captures     *)
(* from each connection, the handlers that copy it (the start of main()    *)
(* and one _on_physical_reconnect for each connection, which may overlap), *)
(* process_incoming, which feeds _update_cache, and the cache.             *)
(*                                                                         *)
(* What a node says of itself is known by the number of the connection it  *)
(* came over.  The event loop runs tasks in the order in which they were   *)
(* woken: a handler that waits for an event before process_incoming, which *)
(* is woken by the frame that set it, unless that was woken before, by a   *)
(* frame that is still in its queue.                                       *)
(***************************************************************************)
EXTENDS Naturals, Sequences

CONSTANTS
  NodeNum,    \* numbers of the nodes that may answer
  MaxConn     \* bound: connections to a physical node

ASSUME IdentityAssumption == NodeNum \subseteq Nat \ {0} /\ MaxConn \in Nat

Handler == 0..MaxConn        \* 0: main(); n: the callback of the n-th connection
Script == <<"log", "info", "own", "metadata">>   \* external: what a node says first
Frame == [type : {"log", "info", "own", "metadata"}, at : 1..MaxConn]

VARIABLES
  nodes,      \* Seq(NodeNum): the node at the other end of each connection so far
  up,         \* _connected
  said,       \* how much of Script the node has said on the present connection
  infoAt,     \* phys_mgr.my_info: the connection it came over, 0 for None
  metaAt,     \* phys_mgr.metadata, likewise
  infoSet,    \* _my_info_captured
  metaSet,    \* _metadata_captured
  inbox,      \* _read_queue
  pc,         \* [Handler -> what it awaits]
  cacheInfo,  \* StateCache.my_info (and my_node_num), likewise
  cacheOwn,   \* StateCache.node_info, likewise
  captured,   \* ConfigCapture: whose number and whose firmware version
  \* History.
  awake,      \* process_incoming was woken before the handlers that are
  timedOut,   \* handlers whose wait for my_info timed out
  noMeta,     \* handlers whose wait for metadata timed out
  ownSeen     \* connections whose own NodeInfo process_incoming has handled

linkVars == <<nodes, up, said, infoAt, metaAt, infoSet, metaSet>>
cacheVars == <<cacheInfo, cacheOwn, captured>>
historyVars == <<timedOut, noMeta, ownSeen>>
vars == <<linkVars, inbox, pc, cacheVars, awake, historyVars>>

Conn == Len(nodes)
NumAt(n) == IF n = 0 THEN 0 ELSE nodes[n]

Init ==
  /\ nodes = <<>> /\ up = FALSE /\ said = 0
  /\ infoAt = 0 /\ metaAt = 0 /\ infoSet = FALSE /\ metaSet = FALSE
  /\ inbox = <<>> /\ awake = FALSE
  /\ pc = [h \in Handler |-> IF h = 0 THEN "info" ELSE "none"]
  /\ cacheInfo = 0 /\ cacheOwn = 0 /\ captured = [num |-> 0, firmware |-> 0]
  /\ timedOut = {} /\ noMeta = {} /\ ownSeen = {}

-----------------------------------------------------------------------------
NoneWoken == \A h \in Handler : pc[h] # "woken"

(* The connection, as in PhysicalLink.  An attempt to connect begins with  *)
(* a delay, in which the event loop runs all that was woken.               *)
Settled == NoneWoken /\ (pc[0] = "done" => inbox = <<>>)

(* Mutant: the events are not cleared. *)
ConnectedStale(k) ==
  /\ ~up /\ Conn < MaxConn /\ Settled
  /\ nodes' = Append(nodes, k)
  /\ up' = TRUE /\ said' = 0
  /\ pc' = [pc EXCEPT ![Conn + 1] = IF infoSet THEN "woken" ELSE "info"]
  /\ UNCHANGED <<infoAt, metaAt, infoSet, metaSet, inbox, cacheVars, awake, historyVars>>

(* The end of _do_connect: the events are cleared, what they announced is  *)
(* not, and a callback starts to wait.                                     *)
Connected(k) ==
  /\ ~up /\ Conn < MaxConn /\ Settled
  /\ nodes' = Append(nodes, k)
  /\ up' = TRUE /\ said' = 0
  /\ infoSet' = FALSE /\ metaSet' = FALSE
  /\ pc' = [pc EXCEPT ![Conn + 1] = "info"]
  /\ UNCHANGED <<infoAt, metaAt, inbox, cacheVars, awake, historyVars>>

Lost ==
  /\ up
  /\ up' = FALSE
  /\ UNCHANGED <<nodes, said, infoAt, metaAt, infoSet, metaSet, inbox, pc, cacheVars,
                 awake, historyVars>>

(* The read loop gets the next frame: _maybe_capture_my_info, then the     *)
(* queue of process_incoming.  The first line of the script may be missing.*)
Receive(type) ==
  /\ up
  /\ \E i \in said + 1..Len(Script) :
       /\ Script[i] = type /\ (i = said + 1 \/ (said = 0 /\ i = 2))
       /\ said' = i
  /\ inbox' = Append(inbox, [type |-> type, at |-> Conn])

ReceivePlain ==
  /\ Receive("log") \/ Receive("own")
  /\ UNCHANGED <<nodes, up, infoAt, metaAt, infoSet, metaSet, pc, cacheVars, awake, historyVars>>

(* Every waiting handler is woken. *)
ReceiveInfo ==
  /\ Receive("info")
  /\ infoAt' = Conn /\ infoSet' = TRUE
  /\ pc' = [h \in Handler |-> IF pc[h] = "info" THEN "woken" ELSE pc[h]]
  /\ awake' = (pc[0] = "done" /\ inbox # <<>>)
  /\ UNCHANGED <<nodes, up, metaAt, metaSet, cacheVars, timedOut, noMeta, ownSeen>>

ReceiveMetadata ==
  /\ Receive("metadata")
  /\ metaAt' = Conn /\ metaSet' = TRUE
  /\ UNCHANGED <<nodes, up, infoAt, infoSet, pc, cacheVars, awake, historyVars>>

-----------------------------------------------------------------------------
(* The handlers.  main() and _on_physical_reconnect have the same steps.   *)

(* cache.update_my_info with phys_mgr.my_info as it is by now. *)
CopyInfo(h) ==
  /\ pc[h] = "woken"
  /\ pc' = [pc EXCEPT ![h] = "metadata"]
  /\ cacheInfo' = infoAt
  /\ UNCHANGED <<linkVars, inbox, cacheOwn, captured, awake, historyVars>>

(* Mutant: the exception of the timeout ends the handler. *)
InfoTimeoutRaises(h) ==
  /\ pc[h] = "info"
  /\ pc' = [pc EXCEPT ![h] = "failed"]
  /\ timedOut' = timedOut \cup {h}
  /\ UNCHANGED <<linkVars, inbox, cacheVars, awake, noMeta, ownSeen>>

(* wait_for_my_info times out: nothing is copied, and the handler goes on. *)
InfoTimeout(h) ==
  /\ pc[h] = "info"
  /\ pc' = [pc EXCEPT ![h] = "metadata"]
  /\ timedOut' = timedOut \cup {h}
  /\ UNCHANGED <<linkVars, inbox, cacheVars, awake, noMeta, ownSeen>>

(* capture_defaults: a new list, with the number and firmware of phys_mgr, *)
(* of whatever connection, and literals for the rest.                      *)
Captured == [num |-> infoAt, firmware |-> metaAt]

(* Mutant: the wait for metadata has no timeout. *)
CaptureDefaultsPatient(h) ==
  /\ pc[h] = "metadata" /\ metaSet
  /\ pc' = [pc EXCEPT ![h] = "done"]
  /\ captured' = Captured
  /\ UNCHANGED <<linkVars, inbox, cacheInfo, cacheOwn, awake, historyVars>>

(* wait_for_metadata ends, by the event or the timeout. *)
CaptureDefaults(h) ==
  /\ pc[h] = "metadata"
  /\ pc' = [pc EXCEPT ![h] = "done"]
  /\ captured' = Captured
  /\ noMeta' = IF metaSet THEN noMeta ELSE noMeta \cup {h}
  /\ UNCHANGED <<linkVars, inbox, cacheInfo, cacheOwn, awake, timedOut, ownSeen>>

(* process_incoming, which main() starts when its waits are over, with     *)
(* _update_cache: a NodeInfo of the node whose number is my_node_num is    *)
(* the own one.  It goes on while there are frames, for neither get() on a *)
(* queue with something in it nor the callbacks suspend.                   *)
Process ==
  /\ pc[0] = "done" /\ inbox # <<>>
  /\ awake \/ NoneWoken
  /\ LET infos == {i \in DOMAIN inbox : inbox[i].type = "own"}
         own == {i \in infos : NumAt(inbox[i].at) = NumAt(cacheInfo)}
     IN /\ \/ own = {} /\ UNCHANGED cacheOwn
           \/ \E i \in own : (\A j \in own : j <= i) /\ cacheOwn' = inbox[i].at
        /\ ownSeen' = ownSeen \cup {inbox[i].at : i \in infos}
  /\ inbox' = <<>> /\ awake' = FALSE
  /\ UNCHANGED <<linkVars, pc, cacheInfo, captured, timedOut, noMeta>>

Next ==
  \/ \E k \in NodeNum : Connected(k)
  \/ Lost \/ ReceivePlain \/ ReceiveInfo \/ ReceiveMetadata \/ Process
  \/ \E h \in Handler : CopyInfo(h) \/ InfoTimeout(h) \/ CaptureDefaults(h)

Spec == Init /\ [][Next]_vars

(* Timeouts expire, and the loop runs a task that was woken.               *)
FairSpec ==
  Spec /\ \A h \in Handler : WF_vars(CopyInfo(h) \/ InfoTimeout(h) \/ CaptureDefaults(h))

-----------------------------------------------------------------------------
(* Every variable keeps its type. *)
TypeOK ==
  /\ nodes \in Seq(NodeNum) /\ Conn <= MaxConn
  /\ up \in BOOLEAN /\ said \in 0..Len(Script)
  /\ infoAt \in 0..Conn /\ metaAt \in 0..Conn /\ infoSet \in BOOLEAN /\ metaSet \in BOOLEAN
  /\ inbox \in Seq(Frame)
  /\ pc \in [Handler -> {"none", "info", "woken", "metadata", "done"}]
  /\ cacheInfo \in 0..Conn /\ cacheOwn \in 0..Conn
  /\ captured \in [num : 0..Conn, firmware : 0..Conn]
  /\ awake \in BOOLEAN
  /\ timedOut \in SUBSET Handler /\ noMeta \in SUBSET Handler
  /\ ownSeen \in SUBSET (1..MaxConn)

(* The handler of the present connection has been through its wait for     *)
(* my_info, and it did not time out.                                       *)
Copied == Conn > 0 /\ pc[Conn] \in {"metadata", "done"} /\ Conn \notin timedOut

(* From then on the cache holds what the node said on this connection,     *)
(* whatever handlers of earlier connections, or of the start, still do.    *)
IdentityIsCopied == Copied => cacheInfo = Conn

(* And when it has captured, the captured defaults agree with the cache    *)
(* about the node, and with the node about its firmware unless that was    *)
(* not said in time; no handler of an earlier connection undoes it.        *)
CaptureAgrees ==
  Copied /\ pc[Conn] = "done" =>
    /\ captured.num = cacheInfo
    /\ Conn \notin noMeta => captured.firmware = Conn

(* What sync_physical_identity promises, "copy identity from physical      *)
(* node", of send_own_node_info, which takes the number from phys_mgr and  *)
(* the names from cache.node_info: both are of one node, once the handler  *)
(* has copied my_info and process_incoming has handled the own NodeInfo.   *)
(* It may have handled it too early, before the number was copied.         *)
OneNodeShown ==
  Copied /\ Conn \in ownSeen /\ cacheOwn # 0 => NumAt(cacheOwn) = NumAt(infoAt)

(* The same promise for send_my_node_info, which takes cache.my_info: when *)
(* the handler of the present connection is done, it is what the node has  *)
(* said.  My_info that comes after the wait timed out is never copied.     *)
LateInfoCopied ==
  Conn > 0 /\ pc[Conn] = "done" /\ infoAt = Conn => cacheInfo = Conn

(* The start of main() and every reconnection get to their capture (and    *)
(* main() to its server), even if the node never says a word.              *)
HandlersEnd == \A h \in Handler : pc[h] # "none" ~> pc[h] = "done"
==============================================================================
