--------------------------- MODULE IdentityProofs ----------------------------
(***************************************************************************)
(* Proofs about Identity, for any number of connections and any nodes.     *)
(***************************************************************************)
EXTENDS Identity, TLAPS

(* What the read loop appends to the queue has the type of a frame.        *)
LEMMA ReceiveType ==
  ASSUME TypeOK, NEW type \in {"log", "info", "own", "metadata"}, Receive(type)
  PROVE  /\ up /\ Conn \in Nat /\ said' \in 1..4 /\ said' >= said
         /\ Conn > 0 => inbox' \in Seq(Frame)
         /\ \/ type = "log" /\ said' = 1 /\ said = 0
            \/ type = "info" /\ said' = 2 /\ said < 2
            \/ type = "own" /\ said' = 3 /\ said = 2
            \/ type = "metadata" /\ said' = 4 /\ said = 3
<1>1. PICK i \in said + 1..Len(Script) :
        /\ Script[i] = type /\ (i = said + 1 \/ (said = 0 /\ i = 2)) /\ said' = i
  BY DEF Receive
<1>2. Len(Script) = 4 /\ said \in 0..4 /\ Conn \in Nat /\ Conn <= MaxConn
  BY DEF TypeOK, Script, Conn
<1>3. /\ Script[1] = "log" /\ Script[2] = "info" /\ Script[3] = "own" /\ Script[4] = "metadata"
  BY DEF Script
<1>4. i \in 1..4 /\ (i = 1 \/ i = 2 \/ i = 3 \/ i = 4)
  BY <1>1, <1>2
<1>5. ASSUME Conn > 0 PROVE inbox' \in Seq(Frame)
  <2>1. Conn \in 1..MaxConn
    BY <1>2, <1>5, IdentityAssumption
  <2>2. [type |-> type, at |-> Conn] \in Frame
    BY <2>1 DEF Frame
  <2> QED BY <2>2 DEF Receive, TypeOK
<1>6. up
  BY DEF Receive
<1> QED BY <1>1, <1>2, <1>3, <1>4, <1>5, <1>6

(* A connection that is up, or that a frame came over, was made.           *)
UpIsConn ==
  /\ up => Conn > 0
  /\ \A i \in DOMAIN inbox : inbox[i].at \in 1..Conn

(* A frame is put at the end of the queue.                                 *)
LEMMA InboxAppend ==
  ASSUME TypeOK, UpIsConn, NEW type \in {"log", "info", "own", "metadata"}, Receive(type), Conn' = Conn
  PROVE  /\ \A i \in DOMAIN inbox' :
              \/ i \in DOMAIN inbox /\ inbox'[i] = inbox[i]
              \/ inbox'[i] = [type |-> type, at |-> Conn]
         /\ \A i \in DOMAIN inbox' : inbox'[i].at \in 1..Conn
<1>1. inbox \in Seq(Frame) /\ inbox' = Append(inbox, [type |-> type, at |-> Conn])
  BY DEF TypeOK, Receive
<1>2. Conn > 0 /\ Conn \in Nat
  BY ReceiveType DEF UpIsConn
<1>3. \A i \in DOMAIN inbox' :
        \/ i \in DOMAIN inbox /\ inbox'[i] = inbox[i]
        \/ inbox'[i] = [type |-> type, at |-> Conn]
  BY <1>1
<1> QED BY <1>2, <1>3 DEF UpIsConn

(* Every variable keeps its type.                                          *)
THEOREM TypeCorrect == Spec => [](TypeOK /\ UpIsConn)
<1> USE DEF linkVars, cacheVars, historyVars
<1>1. Init => TypeOK /\ UpIsConn
  <2> SUFFICES ASSUME Init PROVE TypeOK /\ UpIsConn
    OBVIOUS
  <2>1. Conn = 0 /\ MaxConn \in Nat /\ Len(Script) = 4 /\ nodes \in Seq(NodeNum) /\ inbox \in Seq(Frame)
    BY IdentityAssumption DEF Init, Conn, Script
  <2>2. infoAt \in 0..0 /\ said \in 0..4 /\ captured \in [num : 0..0, firmware : 0..0]
    BY DEF Init
  <2>3. TypeOK
    BY <2>1, <2>2 DEF Init, TypeOK, Handler
  <2>4. UpIsConn
    BY DEF Init, UpIsConn
  <2> QED BY <2>3, <2>4
<1>2. TypeOK /\ UpIsConn /\ [Next]_vars => TypeOK' /\ UpIsConn'
  <2> SUFFICES ASSUME TypeOK, UpIsConn, [Next]_vars PROVE TypeOK' /\ UpIsConn'
    OBVIOUS
  <2>0. /\ Conn \in Nat /\ MaxConn \in Nat /\ Len(Script) = 4 /\ Conn <= MaxConn
        /\ (nodes' = nodes => Conn' = Conn)
    BY IdentityAssumption DEF TypeOK, Conn, Script
  <2>1. ASSUME NEW k \in NodeNum, Connected(k) PROVE TypeOK' /\ UpIsConn'
    <3>1. nodes' \in Seq(NodeNum) /\ Conn' = Conn + 1 /\ Conn < MaxConn
      BY <2>1 DEF Connected, TypeOK, Conn
    <3>2. 0..Conn \subseteq 0..Conn' /\ Conn' <= MaxConn /\ Conn' > 0
      BY <2>0, <3>1
    <3>3. [num : 0..Conn, firmware : 0..Conn] \subseteq [num : 0..Conn', firmware : 0..Conn']
      BY <3>2
    <3>4. Conn + 1 \in Handler
      BY <2>0, <3>1 DEF Handler
    <3>5. TypeOK'
      <4>1. pc' \in [Handler -> {"none", "info", "woken", "metadata", "done"}]
        BY <2>1, <3>4 DEF Connected, TypeOK
      <4>2. /\ infoAt \in 0..Conn' /\ metaAt \in 0..Conn' /\ cacheInfo \in 0..Conn'
            /\ cacheOwn \in 0..Conn' /\ captured \in [num : 0..Conn', firmware : 0..Conn']
        BY <3>2, <3>3 DEF TypeOK
      <4>3. UNCHANGED <<infoAt, metaAt, inbox, cacheVars, awake, historyVars>> /\ up' /\ said' = 0
        BY <2>1 DEF Connected
      <4>4. infoSet' \in BOOLEAN /\ metaSet' \in BOOLEAN
        BY <2>1 DEF Connected
      <4>5. 0 \in 0..Len(Script)
        BY <2>0
      <4> QED BY <3>1, <3>2, <4>1, <4>2, <4>3, <4>4, <4>5 DEF TypeOK
    <3>6. UNCHANGED inbox
      BY <2>1 DEF Connected
    <3> QED BY <2>0, <3>1, <3>2, <3>5, <3>6 DEF UpIsConn
  <2>2. CASE Lost
    BY <2>0, <2>2 DEF Lost, TypeOK, UpIsConn, Conn
  <2>3. CASE ReceivePlain
    <3>1. said' \in 0..4 /\ inbox' \in Seq(Frame)
      BY <2>3, ReceiveType DEF ReceivePlain, UpIsConn
    <3>2. Conn' = Conn /\ Handler' = Handler
      BY <2>0, <2>3 DEF ReceivePlain
    <3>3. \A i \in DOMAIN inbox' : inbox'[i].at \in 1..Conn
      BY <2>3, <3>2, InboxAppend DEF ReceivePlain
    <3> QED BY <2>0, <2>3, <3>1, <3>2, <3>3 DEF ReceivePlain, TypeOK, UpIsConn
  <2>4. CASE ReceiveInfo
    <3>1. said' \in 0..4 /\ inbox' \in Seq(Frame) /\ Conn > 0
      BY <2>4, ReceiveType DEF ReceiveInfo, UpIsConn
    <3>2. Conn' = Conn /\ Conn \in 0..Conn /\ Conn \in 1..MaxConn
      BY <2>0, <2>4, <3>1 DEF ReceiveInfo
    <3>3. \A i \in DOMAIN inbox' : inbox'[i].at \in 1..Conn
      BY <2>4, <3>2, InboxAppend DEF ReceiveInfo
    <3> QED BY <2>0, <2>4, <3>1, <3>2, <3>3 DEF ReceiveInfo, TypeOK, UpIsConn
  <2>5. CASE ReceiveMetadata
    <3>1. said' \in 0..4 /\ inbox' \in Seq(Frame) /\ Conn > 0
      BY <2>5, ReceiveType DEF ReceiveMetadata, UpIsConn
    <3>2. Conn' = Conn /\ Conn \in 0..Conn
      BY <2>0, <2>5, <3>1 DEF ReceiveMetadata
    <3>3. \A i \in DOMAIN inbox' : inbox'[i].at \in 1..Conn
      BY <2>5, <3>2, InboxAppend DEF ReceiveMetadata
    <3> QED BY <2>0, <2>5, <3>1, <3>2, <3>3 DEF ReceiveMetadata, TypeOK, UpIsConn
  <2>6. ASSUME NEW h \in Handler, CopyInfo(h) \/ InfoTimeout(h) \/ CaptureDefaults(h)
        PROVE  TypeOK' /\ UpIsConn'
    <3>1. Conn' = Conn /\ UNCHANGED up
      BY <2>0, <2>6 DEF CopyInfo, InfoTimeout, CaptureDefaults, Captured
    <3>2. CASE CopyInfo(h)
      BY <2>0, <3>1, <3>2 DEF CopyInfo, TypeOK, UpIsConn
    <3>3. CASE InfoTimeout(h)
      BY <2>0, <3>1, <3>3 DEF InfoTimeout, TypeOK, UpIsConn
    <3>4. CASE CaptureDefaults(h)
      BY <2>0, <3>1, <3>4 DEF CaptureDefaults, Captured, TypeOK, UpIsConn
    <3> QED BY <2>6, <3>2, <3>3, <3>4
  <2>7. CASE Process
    <3>1. Conn' = Conn /\ UNCHANGED up /\ inbox' = <<>> /\ awake' = FALSE
      BY <2>0, <2>7 DEF Process
    <3>2. inbox' \in Seq(Frame) /\ \A i \in DOMAIN inbox' : inbox'[i].at \in 1..Conn
      BY <3>1
    <3>3. \A i \in DOMAIN inbox : inbox[i].at \in 0..Conn /\ inbox[i].at \in 1..MaxConn
      BY <2>0 DEF UpIsConn
    <3>4. cacheOwn' \in 0..Conn
      <4>1. cacheOwn' = cacheOwn \/ \E i \in DOMAIN inbox : cacheOwn' = inbox[i].at
        BY <2>7 DEF Process
      <4> QED BY <3>3, <4>1 DEF TypeOK
    <3>5. ownSeen' \in SUBSET (1..MaxConn)
      <4>1. PICK infos \in SUBSET DOMAIN inbox :
              ownSeen' = ownSeen \cup {inbox[i].at : i \in infos}
        BY <2>7 DEF Process
      <4>2. {inbox[i].at : i \in infos} \in SUBSET (1..MaxConn)
        BY <3>3, <4>1
      <4> QED BY <2>0, <4>1, <4>2 DEF TypeOK
    <3>6. UNCHANGED <<nodes, said, infoAt, metaAt, infoSet, metaSet, pc, cacheInfo, captured, timedOut, noMeta>>
      BY <2>7 DEF Process
    <3>7. TypeOK'
      BY <3>1, <3>2, <3>4, <3>5, <3>6 DEF TypeOK
    <3>8. UpIsConn'
      BY <3>1, <3>2 DEF UpIsConn
    <3> QED BY <3>7, <3>8
  <2>8. CASE UNCHANGED vars
    BY <2>0, <2>8 DEF vars, TypeOK, UpIsConn
  <2> QED BY <2>1, <2>2, <2>3, <2>4, <2>5, <2>6, <2>7, <2>8 DEF Next
<1> QED BY <1>1, <1>2, PTL DEF Spec
-----------------------------------------------------------------------------
(* Where the handler of the present connection is, against what has come   *)
(* over that connection: it does not miss my_info, and the events are      *)
(* those of the connection.                                                *)
InfoIsHere ==
  /\ Conn > 0 /\ (pc[Conn] = "woken" \/ Copied) => infoAt = Conn
  /\ Conn > 0 /\ said >= 2 => pc[Conn] # "info"
  /\ Conn > 0 => pc[Conn] # "none"

MetaIsHere ==
  /\ metaSet => metaAt = Conn
  /\ Conn > 0 /\ pc[Conn] = "done" /\ Conn \notin noMeta => metaAt = Conn

IdentityInv == InfoIsHere /\ MetaIsHere /\ IdentityIsCopied /\ CaptureAgrees

(* Every step keeps the handlers in step with the connection.              *)
LEMMA IdentityStep ==
  TypeOK /\ TypeOK' /\ UpIsConn /\ IdentityInv /\ [Next]_vars => IdentityInv'
<1> SUFFICES ASSUME TypeOK, TypeOK', UpIsConn, IdentityInv, [Next]_vars PROVE IdentityInv'
  OBVIOUS
<1> USE DEF linkVars, cacheVars, historyVars
<1>0. /\ Conn \in Nat /\ MaxConn \in Nat /\ Conn <= MaxConn
      /\ (nodes' = nodes => Conn' = Conn)
      /\ Conn > 0 => Conn \in Handler
  <2>1. Conn \in Nat /\ MaxConn \in Nat /\ Conn <= MaxConn
    BY IdentityAssumption DEF TypeOK, Conn
  <2> QED BY <2>1 DEF Conn, Handler
<1>i. InfoIsHere /\ MetaIsHere /\ IdentityIsCopied /\ CaptureAgrees
  BY DEF IdentityInv
<1>1. ASSUME NEW k \in NodeNum, Connected(k) PROVE IdentityInv'
  <2>1. Conn' = Conn + 1 /\ Conn' \in Handler /\ Conn' \in Nat /\ Conn' > 0
    BY <1>0, <1>1, IdentityAssumption DEF Connected, TypeOK, Conn, Handler
  <2>2. pc'[Conn'] = "info" /\ said' = 0 /\ ~metaSet'
    BY <1>1, <2>1 DEF Connected, TypeOK
  <2>3. ~Copied'
    BY <2>2 DEF Copied
  <2> QED BY <2>1, <2>2, <2>3 DEF IdentityInv, InfoIsHere, MetaIsHere, IdentityIsCopied, CaptureAgrees
<1>2. ASSUME UNCHANGED <<nodes, infoAt, pc, cacheInfo, captured, timedOut, metaAt, metaSet, noMeta, said>>
      PROVE  IdentityInv'
  BY <1>0, <1>i, <1>2 DEF IdentityInv, InfoIsHere, MetaIsHere, IdentityIsCopied, CaptureAgrees, Copied
<1>3. CASE Lost \/ Process \/ UNCHANGED vars
  BY <1>2, <1>3 DEF Lost, Process, vars
(* A frame that no handler waits for. *)
<1>4. ASSUME NEW type \in {"log", "own", "metadata"}, Receive(type),
             metaAt' = IF type = "metadata" THEN Conn ELSE metaAt,
             metaSet' = (metaSet \/ type = "metadata"),
             UNCHANGED <<nodes, infoAt, pc, cacheInfo, captured, timedOut, noMeta>>
      PROVE  IdentityInv'
  <2>1. said' >= 2 => said >= 2
    <3>1. \/ type = "log" /\ said' = 1 /\ said = 0
          \/ type = "own" /\ said' = 3 /\ said = 2
          \/ type = "metadata" /\ said' = 4 /\ said = 3
      BY <1>4, ReceiveType
    <3> QED BY <3>1
  <2>2. InfoIsHere'
    BY <1>0, <1>i, <1>4, <2>1 DEF InfoIsHere, Copied
  <2>3. MetaIsHere'
    BY <1>0, <1>i, <1>4 DEF MetaIsHere
  <2>4. IdentityIsCopied' /\ CaptureAgrees'
    BY <1>0, <1>i, <1>4 DEF IdentityIsCopied, CaptureAgrees, Copied
  <2> QED BY <2>2, <2>3, <2>4 DEF IdentityInv
<1>5. CASE ReceivePlain \/ ReceiveMetadata
  <2>1. CASE ReceivePlain
    BY <1>4, <2>1 DEF ReceivePlain, TypeOK
  <2>2. CASE ReceiveMetadata
    BY <1>4, <2>2 DEF ReceiveMetadata, TypeOK
  <2> QED BY <1>5, <2>1, <2>2
<1>6. CASE ReceiveInfo
  <2>1. said' = 2 /\ Conn > 0 /\ Conn' = Conn /\ infoAt' = Conn /\ Conn \in Handler
    BY <1>0, <1>6, ReceiveType DEF ReceiveInfo, UpIsConn
  <2>2. /\ pc'[Conn] = IF pc[Conn] = "info" THEN "woken" ELSE pc[Conn]
        /\ pc'[Conn] # "info" /\ pc'[Conn] # "none"
        /\ pc'[Conn] \in {"metadata", "done"} => pc'[Conn] = pc[Conn]
    BY <1>6, <1>i, <2>1 DEF ReceiveInfo, InfoIsHere
  <2>3. UNCHANGED <<metaAt, metaSet, cacheInfo, captured, timedOut, noMeta>>
    BY <1>6 DEF ReceiveInfo
  <2>4. Copied' => Copied
    BY <2>1, <2>2, <2>3 DEF Copied
  <2>5. InfoIsHere'
    BY <2>1, <2>2 DEF InfoIsHere
  <2>6. MetaIsHere'
    BY <1>i, <2>1, <2>2, <2>3 DEF MetaIsHere
  <2>7. IdentityIsCopied' /\ CaptureAgrees'
    BY <1>i, <2>1, <2>2, <2>3, <2>4 DEF IdentityIsCopied, CaptureAgrees
  <2> QED BY <2>5, <2>6, <2>7 DEF IdentityInv
<1>7. ASSUME NEW h \in Handler, CopyInfo(h) PROVE IdentityInv'
  <2>1. /\ Conn' = Conn /\ cacheInfo' = infoAt /\ pc[h] = "woken"
        /\ \A g \in Handler : pc'[g] = IF g = h THEN "metadata" ELSE pc[g]
        /\ UNCHANGED <<linkVars, captured, historyVars>>
    BY <1>0, <1>7 DEF CopyInfo, TypeOK
  <2>2. Conn > 0 => (Copied' => infoAt = Conn)
    BY <1>0, <1>i, <2>1 DEF InfoIsHere, Copied
  <2>3. Copied' => Conn > 0 /\ cacheInfo' = Conn
    BY <2>1, <2>2 DEF Copied
  <2>4. InfoIsHere'
    BY <1>0, <1>i, <2>1, <2>2 DEF InfoIsHere
  <2>5. MetaIsHere'
    BY <1>0, <1>i, <2>1 DEF MetaIsHere
  <2>6. Copied' /\ pc'[Conn] = "done" => Copied /\ pc[Conn] = "done" /\ cacheInfo = Conn
    BY <1>0, <1>i, <2>1 DEF Copied, IdentityIsCopied
  <2>7. IdentityIsCopied' /\ CaptureAgrees'
    BY <1>i, <2>1, <2>3, <2>6 DEF IdentityIsCopied, CaptureAgrees
  <2> QED BY <2>4, <2>5, <2>7 DEF IdentityInv
<1>8. ASSUME NEW h \in Handler, InfoTimeout(h) PROVE IdentityInv'
  <2>1. /\ Conn' = Conn /\ timedOut' = timedOut \cup {h} /\ pc[h] = "info"
        /\ \A g \in Handler : pc'[g] = IF g = h THEN "metadata" ELSE pc[g]
        /\ UNCHANGED <<linkVars, cacheVars, noMeta>>
    BY <1>0, <1>8 DEF InfoTimeout, TypeOK
  <2>2. Copied' => Copied /\ pc'[Conn] = pc[Conn]
    BY <1>0, <2>1 DEF Copied
  <2>3. InfoIsHere'
    BY <1>0, <1>i, <2>1, <2>2 DEF InfoIsHere
  <2>4. MetaIsHere'
    BY <1>0, <1>i, <2>1 DEF MetaIsHere
  <2>5. IdentityIsCopied' /\ CaptureAgrees'
    BY <1>0, <1>i, <2>1, <2>2 DEF IdentityIsCopied, CaptureAgrees
  <2> QED BY <2>3, <2>4, <2>5 DEF IdentityInv
<1>9. ASSUME NEW h \in Handler, CaptureDefaults(h) PROVE IdentityInv'
  <2>1. /\ Conn' = Conn /\ pc[h] = "metadata"
        /\ captured'.num = infoAt /\ captured'.firmware = metaAt
        /\ \A g \in Handler : pc'[g] = IF g = h THEN "done" ELSE pc[g]
        /\ noMeta' = IF metaSet THEN noMeta ELSE noMeta \cup {h}
        /\ UNCHANGED <<linkVars, cacheInfo, timedOut>>
    BY <1>0, <1>9 DEF CaptureDefaults, Captured, TypeOK
  <2>2. Copied' => Copied
    BY <1>0, <2>1 DEF Copied
  <2>3. InfoIsHere'
    BY <1>0, <1>i, <2>1, <2>2 DEF InfoIsHere
  <2>4. MetaIsHere'
    BY <1>0, <1>i, <2>1 DEF MetaIsHere
  <2>5. Copied' => infoAt = Conn /\ cacheInfo = Conn /\ Conn > 0
    BY <1>i, <2>2 DEF IdentityIsCopied, InfoIsHere, Copied
  <2>6. CaptureAgrees'
    BY <2>1, <2>4, <2>5 DEF CaptureAgrees, MetaIsHere
  <2>7. IdentityIsCopied'
    BY <2>1, <2>5 DEF IdentityIsCopied
  <2> QED BY <2>3, <2>4, <2>6, <2>7 DEF IdentityInv
<1> QED BY <1>1, <1>3, <1>5, <1>6, <1>7, <1>8, <1>9 DEF Next

(* The handlers are in step with the connection.                           *)
THEOREM Inductive == Spec => []IdentityInv
<1>1. Init => IdentityInv
  <2> SUFFICES ASSUME Init PROVE IdentityInv
    OBVIOUS
  <2>1. Conn = 0 /\ ~Copied
    BY DEF Init, Conn, Copied
  <2> QED BY <2>1 DEF Init, IdentityInv, InfoIsHere, MetaIsHere, IdentityIsCopied, CaptureAgrees
<1> QED BY <1>1, IdentityStep, TypeCorrect, PTL DEF Spec

(* The cache holds what the node of the present connection said of itself. *)
THEOREM CacheIsCopied == Spec => []IdentityIsCopied
BY Inductive, PTL DEF IdentityInv

(* The captured defaults are of the same node as the cache.                *)
THEOREM CapturesAgree == Spec => []CaptureAgrees
BY Inductive, PTL DEF IdentityInv
==============================================================================
