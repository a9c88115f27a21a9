--------------------------- MODULE SessionsProofs ---------------------------
(***************************************************************************)
(* Proofs about Sessions, for any sets of clients, nodes, ids and          *)
(* refreshes and any preamble.  Types first; then the order of broadcasts, *)
(* which is inductive by itself and gives the refinement of BroadcastLog;  *)
(* then the answers, where the properties need an invariant that relates   *)
(* what the throttle remembers to the replay that is under way; at the end *)
(* what overlapping refreshes and replays with nodes achieve.              *)
(***************************************************************************)
EXTENDS Sessions, SequenceTheorems, TLAPS

(* The order of a replay: two sections or more, config_complete the last.  *)
LEMMA OrderShape ==
  ASSUME NEW id \in ConfigId \cup {NoId}
  PROVE  /\ Len(Order(id)) \in Nat /\ Len(Order(id)) >= 2
         /\ \A i \in 1..Len(Order(id)) : Order(id)[i] \in ReplaySection
         /\ Order(id)[Len(Order(id))] = "configComplete"
<1>0. Preamble \in Seq(ReplaySection) /\ Len(Preamble) \in Nat /\ Len(Preamble) >= 1
  <2>1. PreambleSection \subseteq ReplaySection
    BY DEF ReplaySection
  <2>2. Preamble \in Seq(PreambleSection) /\ Preamble # <<>>
    BY ConstantsAssumption
  <2>3. Preamble \in Seq(ReplaySection)
    BY <2>1, <2>2, SeqMonotonic
  <2>4. Len(Preamble) \in Nat \ {0}
    BY <2>2, EmptySeq
  <2> QED BY <2>3, <2>4
<1>1. CASE id = DbOnly
  <2>1. Order(id) = <<"ownNodeInfo", "knownNodes", "configComplete">>
    BY <1>1, ConstantsAssumption DEF Order
  <2> QED BY <2>1 DEF ReplaySection, PreambleSection
<1>2. CASE id # DbOnly /\ id = ConfigOnly
  <2>1. Order(id) = Append(Preamble, "configComplete")
    BY <1>2 DEF Order
  <2> QED BY <1>0, <2>1, ElementOfSeq DEF ReplaySection
<1>3. CASE id # DbOnly /\ id # ConfigOnly
  <2> DEFINE last == <<"knownNodes", "configComplete">>
  <2>1. Order(id) = Preamble \o last
    BY <1>3 DEF Order
  <2>0. "knownNodes" \in ReplaySection /\ "configComplete" \in ReplaySection
    BY DEF ReplaySection
  <2>2. last \in Seq(ReplaySection) /\ Len(last) = 2 /\ last[2] = "configComplete"
    BY <2>0
  <2> HIDE DEF last
  <2>3. /\ Preamble \o last \in Seq(ReplaySection)
        /\ Len(Preamble \o last) = Len(Preamble) + 2
    BY <1>0, <2>2, ConcatProperties
  <2>4. (Preamble \o last)[Len(Preamble) + 2] = last[2]
    BY <1>0, <2>2, ConcatProperties
  <2> QED BY <1>0, <2>1, <2>2, <2>3, <2>4, ElementOfSeq
<1> QED BY <1>1, <1>2, <1>3

(* The conjunct of TypeOK about replay.                                    *)
ReplayTypeOK == replay \in [Client -> [Runner -> ReplayType]]

(* Changing one of them keeps the type of replay.                          *)
LEMMA ReplayUpdate ==
  ASSUME ReplayTypeOK, NEW c \in Client, NEW r \in Runner, NEW q \in ReplayType
  PROVE  [replay EXCEPT ![c][r] = q] \in [Client -> [Runner -> ReplayType]]
BY DEF ReplayTypeOK

(* What the two ways to write a replay's next frame change has its type.   *)
LEMMA StepUpdate ==
  ASSUME TypeOK, NEW c \in Client, NEW r \in Runner, NEW k \in Nat, NEW s \in ReplaySection,
         NEW rest \in SUBSET Node,
         SendNode(c, r, k, rest) \/ SendSection(c, r, k, s)
  PROVE  /\ replay' \in [Client -> [Runner -> ReplayType]]
         /\ knows' \in [Client -> SUBSET Node]
         /\ completes' \in [Client -> SUBSET (ConfigId \cup {NoId})]
         /\ tail' \in [Client -> ReplaySection \cup {"none"}]
<1> USE DEF TypeOK
<1>0. replay[c][r] \in ReplayType
  OBVIOUS
<1>1. CASE SendNode(c, r, k, rest)
  <2>1. PICK n \in rest :
          /\ replay' = [replay EXCEPT ![c][r].at = k, ![c][r].pending = rest \ {n}]
          /\ knows' = [knows EXCEPT ![c] = @ \cup {n}]
          /\ tail' = [tail EXCEPT ![c] = "knownNodes"]
          /\ UNCHANGED completes
    BY <1>1 DEF SendNode
  <2> DEFINE q == [replay[c][r] EXCEPT !.at = k, !.pending = rest \ {n}]
  <2>2. q \in ReplayType
    BY <1>0 DEF ReplayType
  <2>3. replay' = [replay EXCEPT ![c][r] = q]
    BY <2>1
  <2>4. replay' \in [Client -> [Runner -> ReplayType]]
    BY <2>2, <2>3, ReplayUpdate DEF ReplayTypeOK
  <2> QED BY <2>1, <2>4 DEF ReplaySection
<1>2. CASE SendSection(c, r, k, s)
  <2> DEFINE q == [replay[c][r] EXCEPT !.at = k]
  <2>2. q \in ReplayType
    BY <1>0 DEF ReplayType
  <2>3. replay' = [replay EXCEPT ![c][r] = q]
    BY <1>2 DEF SendSection
  <2>4. replay' \in [Client -> [Runner -> ReplayType]]
    BY <2>2, <2>3, ReplayUpdate DEF ReplayTypeOK
  <2>5. replay[c][r].id \in ConfigId \cup {NoId}
    BY <1>0 DEF ReplayType
  <2>6. completes' \in [Client -> SUBSET (ConfigId \cup {NoId})]
    BY <1>2, <2>5 DEF SendSection
  <2> QED BY <1>2, <2>4, <2>6 DEF SendSection
<1> QED BY <1>1, <1>2

(* A replay that goes on keeps the types.                                  *)
LEMMA ReplayStepType ==
  ASSUME TypeOK, NEW c \in Client, NEW r \in Runner, ReplayStep(c, r)
  PROVE  TypeOK'
<1> DEFINE p == replay[c][r]
<1>1. p.id \in ConfigId \cup {NoId} /\ p.at \in Nat /\ p.pending \in SUBSET Node
  BY DEF TypeOK, ReplayType
<1>2. known \in SUBSET Node /\ "knownNodes" \in ReplaySection
  BY DEF TypeOK, ReplaySection
<1>3. PICK k \in Nat, s \in ReplaySection, rest \in SUBSET Node :
        SendNode(c, r, k, rest) \/ SendSection(c, r, k, s)
  <2>1. CASE SendNode(c, r, p.at, p.pending)
    BY <1>1, <1>2, <2>1
  <2>2. CASE SendNode(c, r, p.at + 1, known)
    <3>1. p.at + 1 \in Nat
      BY <1>1
    <3> QED BY <1>2, <2>2, <3>1
  <2>3. ASSUME p.at < Len(Order(p.id)),
               SendSection(c, r, p.at + 1, Order(p.id)[p.at + 1])
        PROVE \E k \in Nat, s \in ReplaySection : SendSection(c, r, k, s)
    <3>1. p.at + 1 \in Nat /\ p.at + 1 \in 1..Len(Order(p.id))
      BY <1>1, <2>3, OrderShape
    <3>2. Order(p.id)[p.at + 1] \in ReplaySection
      BY <1>1, <3>1, OrderShape
    <3> QED BY <2>3, <3>1, <3>2
  <2> QED BY <2>1, <2>2, <2>3 DEF ReplayStep
<1>4. /\ replay' \in [Client -> [Runner -> ReplayType]]
      /\ knows' \in [Client -> SUBSET Node]
      /\ completes' \in [Client -> SUBSET (ConfigId \cup {NoId})]
      /\ tail' \in [Client -> ReplaySection \cup {"none"}]
  BY <1>3, StepUpdate
<1> QED BY <1>4 DEF ReplayStep, TypeOK, handlerVars, flagVars, queueVars, refreshVars

(* What a replay that goes on changes: only its own progress, never its id *)
(* nor to "not running"; and it comes to its last section with the frame   *)
(* config_complete.                                                        *)
LEMMA ReplayStepShape ==
  ASSUME TypeOK, NEW c \in Client, NEW r \in Runner, ReplayStep(c, r)
  PROVE  /\ \A d \in Client, q \in Runner :
              d # c \/ q # r => replay'[d][q] = replay[d][q]
         /\ replay'[c][r].id = replay[c][r].id
         /\ replay'[c][r].at > 0
         /\ replay'[c][r].at = Len(Order(replay[c][r].id)) =>
              \/ replay'[c][r].at = replay[c][r].at
              \/ replay[c][r].id \in completes'[c]
         /\ \A d \in Client : completes[d] \subseteq completes'[d]
<1> DEFINE p == replay[c][r]
           Goal == /\ \A d \in Client, q \in Runner :
                        d # c \/ q # r => replay'[d][q] = replay[d][q]
                   /\ replay'[c][r].id = p.id
                   /\ replay'[c][r].at > 0
                   /\ replay'[c][r].at = Len(Order(p.id)) =>
                        replay'[c][r].at = p.at \/ p.id \in completes'[c]
                   /\ \A d \in Client : completes[d] \subseteq completes'[d]
<1>1. /\ p.id \in ConfigId \cup {NoId} /\ p.at \in Nat /\ p.at > 0
      /\ p = [id |-> p.id, at |-> p.at, pending |-> p.pending, since |-> p.since]
  BY DEF ReplayStep, Running, TypeOK, ReplayType
<1>2. ASSUME NEW k \in Nat, k > 0, NEW rest, SendNode(c, r, k, rest),
             k = p.at \/ k # Len(Order(p.id))
      PROVE  Goal
  <2>1. PICK n \in rest :
          /\ replay' = [replay EXCEPT ![c][r].at = k, ![c][r].pending = rest \ {n}]
          /\ UNCHANGED completes
    BY <1>2 DEF SendNode
  <2>2. replay' = [replay EXCEPT ![c][r] = [p EXCEPT !.at = k, !.pending = rest \ {n}]]
    BY <2>1
  <2>3. replay'[c][r] = [p EXCEPT !.at = k, !.pending = rest \ {n}]
    BY <2>2 DEF TypeOK
  <2>4. replay'[c][r].id = p.id /\ replay'[c][r].at = k
    BY <1>1, <2>3
  <2>5. \A d \in Client, q \in Runner : d # c \/ q # r => replay'[d][q] = replay[d][q]
    BY <2>2 DEF TypeOK
  <2> QED BY <1>2, <2>1, <2>4, <2>5
<1>3. ASSUME p.at < Len(Order(p.id)),
             SendSection(c, r, p.at + 1, Order(p.id)[p.at + 1])
      PROVE  Goal
  <2>1. replay' = [replay EXCEPT ![c][r] = [p EXCEPT !.at = p.at + 1]]
    BY <1>3 DEF SendSection
  <2>2. replay'[c][r] = [p EXCEPT !.at = p.at + 1]
    BY <2>1 DEF TypeOK
  <2>3. replay'[c][r].id = p.id /\ replay'[c][r].at = p.at + 1
    BY <1>1, <2>2
  <2>4. \A d \in Client, q \in Runner : d # c \/ q # r => replay'[d][q] = replay[d][q]
    BY <2>1 DEF TypeOK
  <2>5. /\ \A d \in Client : completes[d] \subseteq completes'[d]
        /\ Order(p.id)[p.at + 1] = "configComplete" => p.id \in completes'[c]
    BY <1>3 DEF SendSection, TypeOK
  <2> QED BY <1>1, <2>3, <2>4, <2>5, OrderShape
<1>4. CASE SendNode(c, r, p.at, p.pending)
  BY <1>1, <1>2, <1>4
<1>5. ASSUME p.at < Len(Order(p.id)), Order(p.id)[p.at + 1] = "knownNodes",
             SendNode(c, r, p.at + 1, known)
      PROVE  Goal
  <2>1. p.at + 1 # Len(Order(p.id))
    BY <1>1, <1>5, OrderShape
  <2> QED BY <1>1, <1>2, <1>5, <2>1
<1> QED BY <1>3, <1>4, <1>5 DEF ReplayStep

(* A broadcast appends its message to the log and to every queue.          *)
LEMMA BroadcastType ==
  ASSUME TypeOK, NEW m \in Msg, Broadcast(m)
  PROVE  /\ bcast' \in Seq(Msg) /\ out' \in [Client -> Seq(Msg)]
         /\ joined' = joined /\ got' = got
BY DEF TypeOK, Broadcast

(* What ClientHandler.__init__ sets, and a handler changes afterwards.     *)
HandlerType ==
  /\ configSent \in [Client -> BOOLEAN]
  /\ lastId \in [Client -> ConfigId \cup {NoId}]
  /\ out \in [Client -> Seq(Msg)]
  /\ got \in [Client -> Seq(Msg)]
  /\ knows \in [Client -> SUBSET Node]
  /\ completes \in [Client -> SUBSET (ConfigId \cup {NoId})]
  /\ tail \in [Client -> ReplaySection \cup {"none"}]
  /\ fresh \in [Client -> Nat] /\ unrefreshed \in SUBSET Client

(* A new handler has the types of a handler.                               *)
LEMMA NewHandlerType ==
  ASSUME HandlerType, NEW c \in Client, NewHandler(c)
  PROVE  HandlerType'
<1>1. <<>> \in Seq(Msg)
  OBVIOUS
<1> QED BY <1>1 DEF HandlerType, NewHandler

(* A replay that fails ends the read task, or is remembered.               *)
LEMMA FailEffect ==
  ASSUME TypeOK, NEW c \in Client, NEW r \in Runner, ReplayFail(c, r)
  PROVE  /\ tasks' \in [Client -> SUBSET {"read", "write"}]
         /\ unrefreshed' \in SUBSET Client /\ unrefreshed \subseteq unrefreshed'
         /\ \A d \in Client : tasks'[d] \subseteq tasks[d]
         /\ \A d \in Client : d # c => tasks'[d] = tasks[d]
         /\ tasks'[c] = IF r = "reader" THEN tasks[c] \ {"read"} ELSE tasks[c]
         /\ "read" \notin tasks'[c] \/ c \in unrefreshed'
<1>0. tasks \in [Client -> SUBSET {"read", "write"}] /\ unrefreshed \in SUBSET Client
  BY DEF TypeOK
<1>1. CASE r = "reader"
  <2>1. tasks' = [tasks EXCEPT ![c] = @ \ {"read"}] /\ unrefreshed' = unrefreshed
    BY <1>1 DEF ReplayFail
  <2> QED BY <1>0, <1>1, <2>1
<1>2. CASE r # "reader"
  <2>1. tasks' = tasks /\ unrefreshed' = unrefreshed \cup {c}
    BY <1>2 DEF ReplayFail
  <2> QED BY <1>0, <1>2, <2>1
<1> QED BY <1>1, <1>2

(* Every variable of the client side keeps its type.                       *)
THEOREM TypeCorrect == Spec => []TypeOK
<1>1. Init => TypeOK
  <2>1. Idle \in ReplayType
    BY DEF Idle, ReplayType
  <2>2. <<>> \in Seq(Msg) /\ <<>> \in Seq(Client) /\ Len(<<>>) <= UplinkMax
    BY ConstantsAssumption
  <2> QED BY <2>1, <2>2 DEF Init, TypeOK
<1>2. TypeOK /\ [Next]_vars => TypeOK'
  <2> SUFFICES ASSUME TypeOK, [Next]_vars PROVE TypeOK'
    OBVIOUS
  <2> USE DEF handlerVars, flagVars, queueVars, refreshVars
  <2>0. \A id \in ConfigId \cup {NoId} :
          Begun(id) \in ReplayType /\ Order(id)[1] \in ReplaySection
    BY OrderShape DEF Begun, ReplayType, TypeOK
  <2>a. Idle \in ReplayType
    BY DEF Idle, ReplayType
  <2>1. ASSUME NEW c \in Client, Accept(c) \/ Unregister(c) PROVE TypeOK'
    <3>1. <<>> \in Seq(Msg) /\ Len(bcast) \in Nat
      BY DEF TypeOK
    <3>2. NewHandler(c)
      BY <2>1 DEF Accept, Unregister
    <3>3. CASE Accept(c)
      BY <3>1, <3>2, <3>3, NewHandlerType DEF Accept, TypeOK, HandlerType
    <3>4. CASE Unregister(c)
      BY <3>2, <3>4, NewHandlerType DEF Unregister, TypeOK, HandlerType
    <3> QED BY <2>1, <3>3, <3>4
  <2>2. ASSUME NEW c \in Client, PeerGone(c) \/ ReaderEnds(c) \/ WriterEnds(c)
        PROVE TypeOK'
    <3>1. CASE PeerGone(c)
      BY <3>1 DEF PeerGone, TypeOK
    <3>2. CASE ReaderEnds(c)
      BY <3>2 DEF ReaderEnds, TypeOK
    <3>3. CASE WriterEnds(c)
      BY <3>3 DEF WriterEnds, TypeOK
    <3> QED BY <2>2, <3>1, <3>2, <3>3
  <2>3. ASSUME NEW c \in Client, Teardown(c) PROVE TypeOK'
    <3>1. replay' \in [Client -> [Runner -> ReplayType]]
      BY <2>3, <2>a, ReplayUpdate DEF Teardown, TypeOK, ReplayTypeOK, Runner
    <3> QED BY <2>3, <3>1 DEF Teardown, TypeOK
  <2>4. ASSUME NEW c \in Client, NEW id \in ConfigId, WantConfig(c, id) PROVE TypeOK'
    <3>1. replay' \in [Client -> [Runner -> ReplayType]]
      BY <2>4, <2>0, ReplayUpdate DEF WantConfig, TypeOK, ReplayTypeOK, Runner
    <3> QED BY <2>4, <2>0, <3>1 DEF WantConfig, TypeOK
  <2>5. ASSUME NEW c \in Client, NEW r \in Runner, ReplayStep(c, r) PROVE TypeOK'
    BY <2>5, ReplayStepType
  <2>6. ASSUME NEW c \in Client, NEW r \in Runner, ReplayFinish(c, r) \/ ReplayFail(c, r)
        PROVE TypeOK'
    <3>0. replay' = [replay EXCEPT ![c][r] = Idle]
      BY <2>6 DEF ReplayFinish, ReplayFail
    <3>1. replay' \in [Client -> [Runner -> ReplayType]]
      BY <3>0, <2>a, ReplayUpdate DEF TypeOK, ReplayTypeOK
    <3>2. replay[c][r].since \in Nat
      BY DEF TypeOK, ReplayType
    <3>3. CASE ReplayFinish(c, r)
      BY <3>1, <3>2, <3>3 DEF ReplayFinish, Refreshed, TypeOK
    <3>4. CASE ReplayFail(c, r)
      <4>1. /\ tasks' \in [Client -> SUBSET {"read", "write"}]
            /\ unrefreshed' \in SUBSET Client
        BY <3>4, FailEffect DEF TypeOK
      <4> QED BY <3>1, <3>4, <4>1 DEF ReplayFail, TypeOK
    <3> QED BY <2>6, <3>3, <3>4
  <2>7. ASSUME NEW c \in Client, NEW r \in Refresher, RefreshNext(r, c) PROVE TypeOK'
    <3>1. replay' \in [Client -> [Runner -> ReplayType]]
      BY <2>7, <2>0, ReplayUpdate DEF RefreshNext, TypeOK, ReplayTypeOK, Runner
    <3> QED BY <2>7, <2>0, <3>1 DEF RefreshNext, TypeOK
  <2>8. ASSUME NEW r \in Refresher, Recapture(r) \/ RefreshDone(r) PROVE TypeOK'
    <3>1. CASE Recapture(r)
      BY <3>1 DEF Recapture, TypeOK
    <3>2. CASE RefreshDone(r)
      BY <3>2 DEF RefreshDone, TypeOK
    <3> QED BY <2>8, <3>1, <3>2
  <2>9. ASSUME NEW c \in Client, ClientPacket(c) PROVE TypeOK'
    <3>1. uplink' \in Seq(Client) /\ Len(uplink') <= UplinkMax
      BY <2>9, ConstantsAssumption DEF ClientPacket, Enqueue, TypeOK
    <3>2. c \in Msg
      BY DEF Msg
    <3>3. bcast' \in Seq(Msg) /\ out' \in [Client -> Seq(Msg)] /\ joined' = joined /\ got' = got
      BY <2>9, <3>2, BroadcastType DEF ClientPacket, Echo, TypeOK
    <3> QED BY <2>9, <3>1, <3>3 DEF ClientPacket, TypeOK
  <2>10. ASSUME NEW n \in Node, PhysicalNodeInfo(n) PROVE TypeOK'
    <3>1. n \in Msg
      BY DEF Msg
    <3> QED BY <2>10, <3>1, BroadcastType DEF PhysicalNodeInfo, TypeOK
  <2>11. ASSUME NEW c \in Client, Deliver(c) PROVE TypeOK'
    <3>1. Head(out[c]) \in Msg /\ Tail(out[c]) \in Seq(Msg)
      BY <2>11, HeadTailProperties DEF Deliver, TypeOK
    <3> QED BY <2>11, <3>1 DEF Deliver, TypeOK
  <2>12. CASE UplinkTake
    <3>1. Tail(uplink) \in Seq(Client) /\ Len(Tail(uplink)) <= UplinkMax
      BY <2>12, HeadTailProperties, ConstantsAssumption DEF UplinkTake, TypeOK
    <3> QED BY <2>12, <3>1 DEF UplinkTake, TypeOK
  <2>13. CASE UNCHANGED vars
    BY <2>13 DEF vars, TypeOK
  <2> QED BY <2>1, <2>2, <2>3, <2>4, <2>5, <2>6, <2>7, <2>8, <2>9, <2>10, <2>11, <2>12,
             <2>13 DEF Next
<1> QED BY <1>1, <1>2, PTL DEF Spec

-----------------------------------------------------------------------------
(* Broadcast order.  A client that joined at j and has read g and queued o *)
(* is in step with the log b; a broadcast and a read keep it so.           *)
Streamed(j, g, o, b) ==
  /\ j + Len(g) + Len(o) = Len(b)
  /\ \A i \in 1..Len(g) : g[i] = b[j + i]
  /\ \A i \in 1..Len(o) : o[i] = b[j + Len(g) + i]

(* The broadcast: one more message in the queue and in the log.            *)
LEMMA StreamedAppend ==
  ASSUME NEW j \in Nat, NEW g \in Seq(Msg), NEW o \in Seq(Msg), NEW b \in Seq(Msg),
         NEW m \in Msg, Streamed(j, g, o, b)
  PROVE  Streamed(j, g, Append(o, m), Append(b, m))
<1>1. /\ Len(Append(o, m)) = Len(o) + 1 /\ Len(Append(b, m)) = Len(b) + 1
      /\ Len(o) \in Nat /\ Len(g) \in Nat /\ Len(b) \in Nat
  OBVIOUS
<1>2. ASSUME NEW i \in 1..Len(g) PROVE g[i] = Append(b, m)[j + i]
  BY <1>1 DEF Streamed
<1>3. ASSUME NEW i \in 1..Len(Append(o, m))
      PROVE  Append(o, m)[i] = Append(b, m)[j + Len(g) + i]
  <2>0. i \in 1..(Len(o) + 1)
    BY <1>1
  <2>a. j + Len(g) + Len(o) = Len(b)
    BY DEF Streamed
  <2>1. CASE i = Len(o) + 1
    <3>1. j + Len(g) + i = Len(b) + 1
      BY <1>1, <2>a, <2>1
    <3> QED BY <1>1, <2>1, <3>1
  <2>2. CASE i # Len(o) + 1
    <3>1. i \in 1..Len(o) /\ j + Len(g) + i \in 1..Len(b)
      BY <1>1, <2>0, <2>a, <2>2
    <3>2. o[i] = b[j + Len(g) + i]
      BY <3>1 DEF Streamed
    <3> QED BY <1>1, <3>1, <3>2
  <2> QED BY <2>1, <2>2
<1>4. j + Len(g) + Len(Append(o, m)) = Len(Append(b, m))
  BY <1>1 DEF Streamed
<1> QED BY <1>2, <1>3, <1>4 DEF Streamed

(* The read: the message that leaves the queue is the next of the log.     *)
LEMMA StreamedRead ==
  ASSUME NEW j \in Nat, NEW g \in Seq(Msg), NEW o \in Seq(Msg), NEW b \in Seq(Msg),
         o # <<>>, Streamed(j, g, o, b)
  PROVE  /\ Streamed(j, Append(g, Head(o)), Tail(o), b)
         /\ j + Len(g) < Len(b)
         /\ Head(o) = b[j + Len(g) + 1]
<1>0. /\ Len(o) \in Nat \ {0} /\ Len(g) \in Nat /\ Len(b) \in Nat
  BY EmptySeq
<1>a. Head(o) = o[1]
  OBVIOUS
<1>b. Head(o) \in Msg /\ Len(Tail(o)) = Len(o) - 1
  BY HeadTailProperties
<1>1. /\ Len(Append(g, Head(o))) = Len(g) + 1 /\ Len(Tail(o)) = Len(o) - 1
      /\ Len(o) \in Nat \ {0} /\ Len(g) \in Nat /\ Len(b) \in Nat
  BY <1>0, <1>b
<1>2. j + Len(g) < Len(b) /\ Head(o) = b[j + Len(g) + 1]
  <2>1. 1 \in 1..Len(o)
    BY <1>0
  <2> QED BY <1>0, <1>a, <2>1 DEF Streamed
<1>3. ASSUME NEW i \in 1..Len(Append(g, Head(o)))
      PROVE  Append(g, Head(o))[i] = b[j + i]
  <2>0. i \in 1..(Len(g) + 1)
    BY <1>1, <1>3
  <2>1. CASE i = Len(g) + 1
    <3>1. Append(g, Head(o))[i] = Head(o) /\ j + i = j + Len(g) + 1
      BY <1>1, <2>1
    <3> QED BY <1>2, <3>1
  <2>2. CASE i # Len(g) + 1
    <3>1. i \in 1..Len(g)
      BY <1>1, <2>0, <2>2
    <3>2. Append(g, Head(o))[i] = g[i]
      BY <1>b, <3>1
    <3> QED BY <3>1, <3>2 DEF Streamed
  <2> QED BY <2>1, <2>2
<1>4. ASSUME NEW i \in 1..Len(Tail(o))
      PROVE  Tail(o)[i] = b[j + Len(Append(g, Head(o))) + i]
  <2>1. Tail(o)[i] = o[i + 1] /\ i + 1 \in 1..Len(o)
    BY <1>1, HeadTailProperties
  <2> QED BY <1>1, <2>1 DEF Streamed
<1> QED BY <1>1, <1>2, <1>3, <1>4 DEF Streamed

(* SameStream says that each client is in step.                            *)
LEMMA SameStreamIs ==
  SameStream <=> \A c \in clients : "write" \in tasks[c] =>
                   Streamed(joined[c], got[c], out[c], bcast)
BY DEF SameStream, Streamed

(* The same, after a step.                                                 *)
LEMMA SameStreamPrimed ==
  SameStream' <=> \A c \in clients' : "write" \in tasks'[c] =>
                    Streamed(joined'[c], got'[c], out'[c], bcast')
BY DEF SameStream, Streamed

(* A step that reads and writes no queue and starts no write task. *)
LEMMA StreamQuiet ==
  ASSUME TypeOK, SameStream, UNCHANGED queueVars, clients' \subseteq clients,
         \A d \in Client : tasks'[d] \subseteq tasks[d]
  PROVE  SameStream'
<1>1. ASSUME NEW c \in clients', "write" \in tasks'[c]
      PROVE  Streamed(joined'[c], got'[c], out'[c], bcast')
  <2>1. c \in clients /\ c \in Client /\ "write" \in tasks[c]
    BY <1>1 DEF TypeOK
  <2> QED BY <2>1, SameStreamIs DEF queueVars
<1> QED BY <1>1, SameStreamPrimed

(* A broadcast keeps every client in step.                                 *)
LEMMA StreamBroadcast ==
  ASSUME TypeOK, SameStream, NEW m \in Msg, Broadcast(m), UNCHANGED handlerVars
  PROVE  SameStream'
<1>1. ASSUME NEW c \in clients', "write" \in tasks'[c]
      PROVE  Streamed(joined'[c], got'[c], out'[c], bcast')
  <2>1. c \in clients /\ c \in Client /\ Streamed(joined[c], got[c], out[c], bcast)
    BY <1>1, SameStreamIs DEF TypeOK, handlerVars
  <2>2. Streamed(joined[c], got[c], Append(out[c], m), Append(bcast, m))
    BY <2>1, StreamedAppend DEF TypeOK
  <2> QED BY <2>1, <2>2 DEF Broadcast, TypeOK
<1> QED BY <1>1, SameStreamPrimed

(* So does the write task of one of them.                                  *)
LEMMA StreamDeliver ==
  ASSUME TypeOK, SameStream, NEW d \in Client, Deliver(d)
  PROVE  SameStream'
<1>1. ASSUME NEW c \in clients', "write" \in tasks'[c]
      PROVE  Streamed(joined'[c], got'[c], out'[c], bcast')
  <2>1. c \in clients /\ c \in Client /\ Streamed(joined[c], got[c], out[c], bcast)
    BY <1>1, SameStreamIs DEF Deliver, TypeOK, handlerVars
  <2>2. joined' = joined /\ bcast' = bcast
    BY DEF Deliver
  <2>3. CASE c = d
    <3>1. out[c] # <<>> /\ out'[c] = Tail(out[c]) /\ got'[c] = Append(got[c], Head(out[c]))
      BY <2>1, <2>3 DEF Deliver, TypeOK
    <3> QED BY <2>1, <2>2, <3>1, StreamedRead DEF TypeOK
  <2>4. CASE c # d
    BY <2>1, <2>2, <2>4 DEF Deliver, TypeOK
  <2> QED BY <2>3, <2>4
<1> QED BY <1>1, SameStreamPrimed

(* Every client whose handler is alive is written every broadcast since it *)
(* registered, once and in order, whether or not it is configured.         *)
THEOREM StreamIsSame == Spec => []SameStream
<1>1. Init => SameStream
  BY DEF Init, SameStream
<1>2. TypeOK /\ TypeOK' /\ SameStream /\ [Next]_vars => SameStream'
  <2> SUFFICES ASSUME TypeOK, TypeOK', SameStream, [Next]_vars PROVE SameStream'
    OBVIOUS
  <2> USE DEF handlerVars
  <2>1. ASSUME NEW d \in Client, Accept(d) PROVE SameStream'
    <3>1. ASSUME NEW c \in clients', "write" \in tasks'[c]
          PROVE  Streamed(joined'[c], got'[c], out'[c], bcast')
      <4>1. CASE c = d
        <5>1. joined'[c] = Len(bcast) /\ got'[c] = <<>> /\ out'[c] = <<>> /\ bcast' = bcast
          BY <2>1, <4>1 DEF Accept, NewHandler, TypeOK
        <5>2. Len(bcast) \in Nat /\ Len(<<>>) = 0
          BY EmptySeq DEF TypeOK
        <5> QED BY <5>1, <5>2 DEF Streamed
      <4>2. CASE c # d
        <5>1. c \in clients /\ c \in Client /\ tasks'[c] = tasks[c]
          BY <2>1, <3>1, <4>2 DEF Accept, TypeOK
        <5>2. UNCHANGED <<joined[c], got[c], out[c], bcast>>
          BY <2>1, <4>2, <5>1 DEF Accept, NewHandler, TypeOK
        <5> QED BY <3>1, <5>1, <5>2, SameStreamIs
      <4> QED BY <4>1, <4>2
    <3> QED BY <3>1, SameStreamPrimed
  <2>2. ASSUME NEW d \in Client, Unregister(d) PROVE SameStream'
    <3>1. ASSUME NEW c \in clients', "write" \in tasks'[c]
          PROVE  Streamed(joined'[c], got'[c], out'[c], bcast')
      <4>1. c \in clients /\ c \in Client /\ c # d /\ tasks'[c] = tasks[c]
        BY <2>2, <3>1 DEF Unregister, TypeOK
      <4>2. UNCHANGED <<joined[c], got[c], out[c], bcast>>
        BY <2>2, <4>1 DEF Unregister, NewHandler, TypeOK
      <4> QED BY <3>1, <4>1, <4>2, SameStreamIs
    <3> QED BY <3>1, SameStreamPrimed
  <2>3. ASSUME NEW c \in Client,
               ReaderEnds(c) \/ Teardown(c) \/ WriterEnds(c) \/ \E r \in Runner : ReplayFail(c, r)
        PROVE  SameStream'
    <3>1. \A d \in Client : tasks'[d] \subseteq tasks[d]
      <4>1. \/ UNCHANGED tasks \/ tasks' = [tasks EXCEPT ![c] = {}]
            \/ \E t : tasks' = [tasks EXCEPT ![c] = tasks[c] \ {t}]
        BY <2>3 DEF ReaderEnds, Teardown, WriterEnds, ReplayFail
      <4>2. tasks \in [Client -> SUBSET {"read", "write"}]
        BY DEF TypeOK
      <4>3. CASE UNCHANGED tasks
        BY <4>3
      <4>4. CASE tasks' = [tasks EXCEPT ![c] = {}]
        BY <4>2, <4>4
      <4>5. ASSUME NEW t, tasks' = [tasks EXCEPT ![c] = tasks[c] \ {t}]
            PROVE  \A d \in Client : tasks'[d] \subseteq tasks[d]
        BY <4>2, <4>5
      <4> QED BY <4>1, <4>3, <4>4, <4>5
    <3> QED BY <2>3, <3>1, StreamQuiet DEF ReaderEnds, Teardown, WriterEnds, ReplayFail
  <2>4. ASSUME NEW c \in Client,
               \/ PeerGone(c)
               \/ \E id \in ConfigId : WantConfig(c, id)
               \/ \E r \in Runner : ReplayStep(c, r) \/ ReplayFinish(c, r)
               \/ \E r \in Refresher : RefreshNext(r, c)
        PROVE  SameStream'
    <3>1. UNCHANGED <<clients, tasks, queueVars>>
      BY <2>4 DEF PeerGone, WantConfig, ReplayStep, ReplayFinish, RefreshNext
    <3> QED BY <3>1, StreamQuiet
  <2>5. ASSUME \/ \E r \in Refresher : Recapture(r) \/ RefreshDone(r)
               \/ UplinkTake \/ UNCHANGED vars
        PROVE  SameStream'
    <3>1. UNCHANGED <<clients, tasks, queueVars>>
      BY <2>5 DEF Recapture, RefreshDone, UplinkTake, vars
    <3> QED BY <3>1, StreamQuiet
  <2>6. ASSUME NEW c \in Client, ClientPacket(c) PROVE SameStream'
    <3>1. CASE Broadcast(c)
      BY <2>6, <3>1, StreamBroadcast DEF ClientPacket, Msg
    <3>2. CASE UNCHANGED queueVars
      BY <2>6, <3>2, StreamQuiet DEF ClientPacket
    <3> QED BY <2>6, <3>1, <3>2 DEF ClientPacket, Echo
  <2>7. ASSUME NEW n \in Node, PhysicalNodeInfo(n) PROVE SameStream'
    BY <2>7, StreamBroadcast DEF PhysicalNodeInfo, Msg
  <2>8. ASSUME NEW c \in Client, Deliver(c) PROVE SameStream'
    BY <2>8, StreamDeliver
  <2> QED BY <2>1, <2>2, <2>3, <2>4, <2>5, <2>6, <2>7, <2>8 DEF Next
<1> QED BY <1>1, <1>2, TypeCorrect, PTL DEF Spec

-----------------------------------------------------------------------------
(* A live task belongs to a registered handler whose connection has not    *)
(* been closed, and the read loop is alive while it awaits a replay.       *)
Registered ==
  \A c \in Client :
    /\ tasks[c] # {} => c \in clients /\ conn[c] # "closed"
    /\ Running(c, "reader") => "read" \in tasks[c]

(* Only registered handlers with an open connection have live tasks.       *)
THEOREM TasksAreRegistered == Spec => []Registered
<1>1. Init => Registered
  BY DEF Init, Registered, Running, Idle, Runner
<1>2. TypeOK /\ Registered /\ [Next]_vars => Registered'
  <2> SUFFICES ASSUME TypeOK, Registered, [Next]_vars, NEW d \in Client
               PROVE  /\ tasks'[d] # {} => d \in clients' /\ conn'[d] # "closed"
                      /\ Running(d, "reader")' => "read" \in tasks'[d]
    BY DEF Registered
  <2> DEFINE Goal == /\ tasks'[d] # {} => d \in clients' /\ conn'[d] # "closed"
                     /\ Running(d, "reader")' => "read" \in tasks'[d]
  <2> USE DEF handlerVars
  <2>0. /\ tasks[d] # {} => d \in clients /\ conn[d] # "closed"
        /\ Running(d, "reader") => "read" \in tasks[d]
        /\ "reader" \in Runner /\ Idle.at = 0
    BY DEF Registered, Runner, Idle
  <2>1. ASSUME NEW c \in Client, Accept(c) PROVE Goal
    BY <2>0, <2>1 DEF Accept, TypeOK, Running
  <2>2. ASSUME NEW c \in Client, PeerGone(c) PROVE Goal
    BY <2>0, <2>2 DEF PeerGone, TypeOK, Running
  <2>3. ASSUME NEW c \in Client, ReaderEnds(c) PROVE Goal
    BY <2>0, <2>3 DEF ReaderEnds, ReaderFree, TypeOK, Running
  <2>4. ASSUME NEW c \in Client, Teardown(c) PROVE Goal
    BY <2>0, <2>4 DEF Teardown, TypeOK, Running
  <2>5. ASSUME NEW c \in Client, Unregister(c) PROVE Goal
    BY <2>0, <2>5 DEF Unregister, TypeOK, Running
  <2>6. ASSUME NEW c \in Client, NEW id \in ConfigId, WantConfig(c, id) PROVE Goal
    BY <2>0, <2>6 DEF WantConfig, ReaderFree, TypeOK, Running
  <2>7. ASSUME NEW c \in Client, NEW r \in Runner, ReplayStep(c, r) PROVE Goal
    <3>1. Running(d, "reader")' => Running(d, "reader")
      BY <2>0, <2>7, ReplayStepShape DEF ReplayStep, Running
    <3> QED BY <2>0, <2>7, <3>1 DEF ReplayStep
  <2>8. ASSUME NEW c \in Client, NEW r \in Runner, ReplayFinish(c, r) PROVE Goal
    BY <2>0, <2>8 DEF ReplayFinish, TypeOK, Running
  <2>9. ASSUME NEW c \in Client, NEW r \in Runner, ReplayFail(c, r) PROVE Goal
    BY <2>0, <2>9, FailEffect DEF ReplayFail, TypeOK, Running
  <2>10. ASSUME NEW c \in Client, NEW r \in Refresher, RefreshNext(r, c) PROVE Goal
    <3>1. replay'[d]["reader"] = replay[d]["reader"]
      BY <2>0, <2>10, ConstantsAssumption DEF RefreshNext, TypeOK
    <3> QED BY <2>0, <2>10, <3>1 DEF RefreshNext, Running
  <2>11. ASSUME NEW c \in Client, WriterEnds(c) PROVE Goal
    BY <2>0, <2>11 DEF WriterEnds, TypeOK, Running
  <2>12. ASSUME UNCHANGED <<handlerVars, replay>> PROVE Goal
    BY <2>0, <2>12 DEF Running
  <2>13. ASSUME NEW c \in Client, ClientPacket(c) \/ Deliver(c) PROVE Goal
    BY <2>12, <2>13 DEF ClientPacket, Deliver
  <2>14. ASSUME \/ \E r \in Refresher : Recapture(r) \/ RefreshDone(r)
                \/ \E n \in Node : PhysicalNodeInfo(n)
                \/ UplinkTake \/ UNCHANGED vars
         PROVE Goal
    BY <2>12, <2>14 DEF Recapture, RefreshDone, PhysicalNodeInfo, UplinkTake, vars
  <2> QED BY <2>1, <2>2, <2>3, <2>4, <2>5, <2>6, <2>7, <2>8, <2>9, <2>10, <2>11, <2>13,
             <2>14 DEF Next
<1> QED BY <1>1, <1>2, TypeCorrect, PTL DEF Spec

-----------------------------------------------------------------------------
(* What the throttle relies on, for one client: a replay that the read     *)
(* loop awaits is the one it last recorded, or a refresh has cleared that; *)
(* a replay that only has its last drain to wait for has written its       *)
(* config_complete; and so an id recorded while no replay of the read loop *)
(* is under way is an id that was answered.                                *)
Answered(c) ==
  /\ Running(c, "reader") => lastId[c] \in {NoId, replay[c]["reader"].id}
  /\ c \in clients =>
       /\ \A r \in Runner :
            replay[c][r].at = Len(Order(replay[c][r].id))
              => replay[c][r].id \in completes[c]
       /\ "read" \in tasks[c] /\ ~Running(c, "reader")
            => lastId[c] \in {NoId} \cup completes[c]
       /\ configSent[c] => completes[c] # {}

AnswerInv == \A c \in Client : Answered(c)

(* A step that leaves c alone. *)
LEMMA AnsweredQuiet ==
  ASSUME NEW c \in Client, Answered(c), c \in clients' => c \in clients,
         tasks'[c] \subseteq tasks[c], replay'[c] = replay[c], lastId'[c] = lastId[c],
         configSent'[c] = configSent[c], completes'[c] = completes[c]
  PROVE  Answered(c)'
BY DEF Answered, Running

(* Neither a replay that has just begun nor none at all is at its end.     *)
LEMMA FreshReplay ==
  ASSUME NEW id \in ConfigId \cup {NoId}
  PROVE  /\ Begun(id).id = id /\ Begun(id).at = 1
         /\ Len(Order(id)) # 1 /\ Len(Order(NoId)) # 0
         /\ Idle.id = NoId /\ Idle.at = 0
BY OrderShape DEF Begun, Idle

(* Every step keeps the record of the answers right.                       *)
LEMMA AnswerInvStep == TypeOK /\ Registered /\ AnswerInv /\ [Next]_vars => AnswerInv'
<1> SUFFICES ASSUME TypeOK, Registered, AnswerInv, [Next]_vars, NEW d \in Client
             PROVE  Answered(d)'
  BY DEF AnswerInv
<1> USE DEF handlerVars, flagVars, queueVars
<1>0. /\ Answered(d) /\ "reader" \in Runner
      /\ tasks[d] # {} => d \in clients /\ conn[d] # "closed"
      /\ Running(d, "reader") => "read" \in tasks[d]
  BY DEF AnswerInv, Registered, Runner
<1>q. ASSUME d \in clients' => d \in clients,
             tasks'[d] \subseteq tasks[d],
             UNCHANGED <<replay[d], lastId[d], configSent[d], completes[d]>>
      PROVE  Answered(d)'
  BY <1>0, <1>q, AnsweredQuiet
<1>1. ASSUME NEW c \in Client, Accept(c) PROVE Answered(d)'
  <2>1. CASE c = d
    <3>1. \A r \in Runner : ~Running(d, r)
      BY <1>0, <1>1, <2>1 DEF Accept, Runner
    <3>2. \A r \in Runner : replay'[d][r].at = 0 /\ replay'[d][r].id \in ConfigId \cup {NoId}
      BY <1>1, <3>1 DEF Accept, Running, TypeOK, ReplayType
    <3>3. \A r \in Runner : replay'[d][r].at # Len(Order(replay'[d][r].id))
      BY <3>2, OrderShape
    <3>4. lastId'[d] = NoId /\ configSent'[d] = FALSE
      BY <1>1, <2>1 DEF Accept, NewHandler, TypeOK
    <3> QED BY <1>0, <3>2, <3>3, <3>4 DEF Answered, Running
  <2>2. CASE c # d
    BY <1>1, <1>q, <2>2 DEF Accept, NewHandler, TypeOK
  <2> QED BY <2>1, <2>2
<1>2. ASSUME NEW c \in Client, PeerGone(c) PROVE Answered(d)'
  BY <1>2, <1>q DEF PeerGone
<1>3. ASSUME NEW c \in Client, ReaderEnds(c) PROVE Answered(d)'
  BY <1>3, <1>q DEF ReaderEnds, TypeOK
<1>4. ASSUME NEW c \in Client, Teardown(c) PROVE Answered(d)'
  <2>1. CASE c = d
    <3>1. /\ tasks'[d] = {} /\ ~Running(d, "reader")'
          /\ \A r \in Runner : r # "reader" => replay'[d][r] = replay[d][r]
          /\ replay'[d]["reader"] = Idle
      BY <1>0, <1>4, <2>1 DEF Teardown, TypeOK, Running, Idle
    <3>2. replay'[d]["reader"].at # Len(Order(replay'[d]["reader"].id))
      BY <3>1, FreshReplay
    <3>3. UNCHANGED <<clients, lastId, configSent, completes>>
      BY <1>4 DEF Teardown
    <3> QED BY <1>0, <3>1, <3>2, <3>3 DEF Answered
  <2>2. CASE c # d
    BY <1>4, <1>q, <2>2 DEF Teardown, TypeOK
  <2> QED BY <2>1, <2>2
<1>5. ASSUME NEW c \in Client, Unregister(c) PROVE Answered(d)'
  <2>1. CASE c = d
    <3>1. ~Running(d, "reader") /\ d \notin clients'
      BY <1>0, <1>5, <2>1 DEF Unregister
    <3>2. replay' = replay
      BY <1>5 DEF Unregister
    <3> QED BY <3>1, <3>2 DEF Answered, Running
  <2>2. CASE c # d
    BY <1>5, <1>q, <2>2 DEF Unregister, NewHandler, TypeOK
  <2> QED BY <2>1, <2>2
<1>6. ASSUME NEW c \in Client, NEW id \in ConfigId, WantConfig(c, id) PROVE Answered(d)'
  <2>1. CASE c = d
    <3>1. /\ replay'[d]["reader"] = Begun(id) /\ lastId'[d] = id
          /\ \A r \in Runner : r # "reader" => replay'[d][r] = replay[d][r]
      BY <1>0, <1>6, <2>1 DEF WantConfig, TypeOK
    <3>0. replay'[d]["reader"].id = id /\ replay'[d]["reader"].at = 1 /\ Len(Order(id)) # 1
      BY <3>1, FreshReplay
    <3>2. Running(d, "reader")' /\ replay'[d]["reader"].at # Len(Order(replay'[d]["reader"].id))
      BY <3>0 DEF Running
    <3>3. UNCHANGED <<clients, tasks, configSent, completes>>
      BY <1>6 DEF WantConfig
    <3> QED BY <1>0, <3>0, <3>1, <3>2, <3>3 DEF Answered
  <2>2. CASE c # d
    BY <1>6, <1>q, <2>2 DEF WantConfig, TypeOK
  <2> QED BY <2>1, <2>2
<1>7. ASSUME NEW c \in Client, NEW r \in Runner, ReplayStep(c, r) PROVE Answered(d)'
  <2>1. UNCHANGED <<clients, tasks, lastId, configSent>>
    BY <1>7 DEF ReplayStep
  <2>2. completes[d] \subseteq completes'[d]
    BY <1>7, ReplayStepShape
  <2>3. ASSUME NEW q \in Runner
        PROVE  /\ Running(d, q)' <=> Running(d, q)
               /\ replay'[d][q].id = replay[d][q].id
               /\ \/ replay'[d][q].at = replay[d][q].at
                  \/ replay'[d][q].at = Len(Order(replay[d][q].id)) =>
                       replay[d][q].id \in completes'[d]
    BY <1>7, ReplayStepShape DEF ReplayStep, Running
  <2> QED BY <1>0, <2>1, <2>2, <2>3 DEF Answered
<1>8. ASSUME NEW c \in Client, NEW r \in Runner, ReplayFinish(c, r) PROVE Answered(d)'
  <2>1. CASE c = d
    <3>1. /\ replay'[d][r] = Idle
          /\ \A q \in Runner : q # r => replay'[d][q] = replay[d][q]
      BY <1>8, <2>1 DEF ReplayFinish, TypeOK
    <3>2. UNCHANGED <<clients, tasks, lastId, completes>>
      BY <1>8 DEF ReplayFinish
    <3>3. ~Running(d, r)' /\ replay'[d][r].at # Len(Order(replay'[d][r].id))
      BY <3>1, FreshReplay DEF Running
    <3>4. d \in clients => replay[d][r].id \in completes[d]
      BY <1>0, <1>8, <2>1 DEF ReplayFinish, Answered
    <3>5. Running(d, "reader")' => Running(d, "reader") /\ replay'[d]["reader"] = replay[d]["reader"]
      BY <1>0, <3>1, <3>3 DEF Running
    <3>6. d \in clients /\ "read" \in tasks[d] /\ ~Running(d, "reader")'
            => lastId[d] \in {NoId} \cup completes[d]
      <4>1. CASE r = "reader"
        BY <1>0, <1>8, <2>1, <3>4, <4>1 DEF ReplayFinish, Answered
      <4>2. CASE r # "reader"
        BY <1>0, <3>1, <4>2 DEF Answered, Running
      <4> QED BY <4>1, <4>2
    <3> QED BY <1>0, <3>1, <3>2, <3>3, <3>4, <3>5, <3>6 DEF Answered
  <2>2. CASE c # d
    BY <1>8, <1>q, <2>2 DEF ReplayFinish, TypeOK
  <2> QED BY <2>1, <2>2
<1>9. ASSUME NEW c \in Client, NEW r \in Runner, ReplayFail(c, r) PROVE Answered(d)'
  <2>1. CASE c = d
    <3>0. replay' = [replay EXCEPT ![d][r] = Idle]
      BY <1>9, <2>1 DEF ReplayFail
    <3>1. /\ replay'[d][r] = Idle
          /\ \A q \in Runner : q # r => replay'[d][q] = replay[d][q]
          /\ tasks'[d] = IF r = "reader" THEN tasks[d] \ {"read"} ELSE tasks[d]
      BY <1>9, <2>1, <3>0, FailEffect DEF TypeOK
    <3>2. UNCHANGED <<clients, lastId, configSent, completes>>
      BY <1>9 DEF ReplayFail
    <3>3. ~Running(d, r)' /\ replay'[d][r].at # Len(Order(replay'[d][r].id))
      BY <3>1, FreshReplay DEF Running
    <3>4. r # "reader" => replay'[d]["reader"] = replay[d]["reader"]
      BY <1>0, <3>1
    <3>5. r = "reader" => "read" \notin tasks'[d]
      BY <3>1
    <3> QED BY <1>0, <3>1, <3>2, <3>3, <3>4, <3>5 DEF Answered, Running
  <2>2. CASE c # d
    BY <1>9, <1>q, <2>2 DEF ReplayFail, TypeOK
  <2> QED BY <2>1, <2>2
<1>10. ASSUME NEW c \in Client, NEW r \in Refresher, RefreshNext(r, c) PROVE Answered(d)'
  <2>1. CASE c = d
    <3>1. /\ r \in Runner /\ r # "reader"
          /\ replay'[d][r] = Begun(NoId) /\ lastId'[d] = NoId /\ configSent'[d] = FALSE
          /\ \A q \in Runner : q # r => replay'[d][q] = replay[d][q]
      BY <1>10, <2>1, ConstantsAssumption DEF RefreshNext, TypeOK, Runner
    <3>2. UNCHANGED <<clients, tasks, completes>>
      BY <1>10 DEF RefreshNext
    <3>3. replay'[d][r].at # Len(Order(replay'[d][r].id))
      <4>1. replay'[d][r].at = 1 /\ replay'[d][r].id = NoId /\ Len(Order(NoId)) # 1
        BY <3>1, FreshReplay
      <4> QED BY <4>1
    <3> QED BY <1>0, <3>1, <3>2, <3>3 DEF Answered
  <2>2. CASE c # d
    BY <1>10, <1>q, <2>2 DEF RefreshNext, TypeOK
  <2> QED BY <2>1, <2>2
<1>11. ASSUME NEW c \in Client, WriterEnds(c) PROVE Answered(d)'
  BY <1>11, <1>q DEF WriterEnds, TypeOK
<1>12. ASSUME UNCHANGED <<handlerVars, flagVars, replay, completes>> PROVE Answered(d)'
  BY <1>12, <1>q
<1>13. ASSUME NEW c \in Client, ClientPacket(c) \/ Deliver(c) PROVE Answered(d)'
  BY <1>12, <1>13 DEF ClientPacket, Deliver
<1>14. ASSUME \/ \E r \in Refresher : Recapture(r) \/ RefreshDone(r)
              \/ \E n \in Node : PhysicalNodeInfo(n)
              \/ UplinkTake \/ UNCHANGED vars
       PROVE Answered(d)'
  BY <1>12, <1>14 DEF Recapture, RefreshDone, PhysicalNodeInfo, UplinkTake, vars
<1> QED BY <1>1, <1>2, <1>3, <1>4, <1>5, <1>6, <1>7, <1>8, <1>9, <1>10, <1>11, <1>13,
           <1>14 DEF Next

(* What _last_config_id and _config_sent say was answered, was.            *)
THEOREM AnswersAreRecorded == Spec => []AnswerInv
<1>1. Init => AnswerInv
  BY FreshReplay DEF Init, AnswerInv, Answered, Running, Runner
<1> QED BY <1>1, AnswerInvStep, TypeCorrect, TasksAreRegistered, PTL DEF Spec

(* The throttle drops a repeated want_config_id only when its answer was   *)
(* written in full.                                                        *)
THEOREM ThrottleIsSafe == Spec => []ThrottledWasAnswered
<1>1. Registered /\ AnswerInv => ThrottledWasAnswered
  <2> SUFFICES ASSUME Registered, AnswerInv, NEW c \in Client, NEW id \in ConfigId,
                      ReaderFree(c), MayThrottle(c, id)
               PROVE  id \in completes[c]
    BY DEF ThrottledWasAnswered
  <2>1. c \in clients /\ id # NoId /\ id = lastId[c]
    BY ConstantsAssumption DEF Registered, ReaderFree, MayThrottle
  <2> QED BY <2>1 DEF AnswerInv, Answered, ReaderFree
<1> QED BY <1>1, TasksAreRegistered, AnswersAreRecorded, PTL

(* A packet is echoed and queued for the radio only when a config_complete *)
(* was written to its sender.                                              *)
THEOREM EchoesAreConfigured == Spec => EchoOnlyAfterConfig
<1>1. ASSUME TypeOK, Registered, AnswerInv, [Next]_vars, NEW c \in Client,
             Len(bcast') > Len(bcast), bcast'[Len(bcast')] = c
      PROVE  completes[c] # {}
  <2>1. bcast' # bcast
    BY <1>1 DEF TypeOK
  <2>2. ASSUME NEW m \in Msg, Broadcast(m) PROVE m = c
    <3>1. bcast' = Append(bcast, m) /\ bcast \in Seq(Msg)
      BY <1>1, <2>2 DEF Broadcast, TypeOK
    <3> QED BY <1>1, <3>1
  <2>3. ASSUME NEW n \in Node, PhysicalNodeInfo(n) PROVE FALSE
    BY <2>2, <2>3, ConstantsAssumption DEF PhysicalNodeInfo, Msg
  <2>4. ASSUME NEW e \in Client, ClientPacket(e) PROVE completes[c] # {}
    <3>1. e = c
      BY <2>1, <2>2, <2>4 DEF ClientPacket, Echo, Msg, queueVars
    <3>2. "read" \in tasks[c] /\ configSent[c]
      BY <2>4, <3>1 DEF ClientPacket, ReaderFree
    <3> QED BY <1>1, <3>2 DEF Registered, AnswerInv, Answered
  <2>5. \/ \E n \in Node : PhysicalNodeInfo(n)
        \/ \E e \in Client : ClientPacket(e)
    <3>1. ASSUME NEW e \in Client,
                 \/ Accept(e) \/ PeerGone(e) \/ ReaderEnds(e) \/ Teardown(e) \/ Unregister(e)
                 \/ Deliver(e) \/ WriterEnds(e) \/ \E id \in ConfigId : WantConfig(e, id)
                 \/ \E r \in Runner : ReplayStep(e, r) \/ ReplayFinish(e, r) \/ ReplayFail(e, r)
                 \/ \E r \in Refresher : RefreshNext(r, e)
          PROVE  UNCHANGED bcast
      BY <3>1 DEF queueVars, Accept, PeerGone, ReaderEnds, Teardown, Unregister, WantConfig,
         ReplayStep, ReplayFinish, ReplayFail, RefreshNext, Deliver, WriterEnds
    <3>2. ASSUME \/ \E r \in Refresher : Recapture(r) \/ RefreshDone(r)
                 \/ UplinkTake \/ UNCHANGED vars
          PROVE  UNCHANGED bcast
      BY <3>2 DEF vars, queueVars, Recapture, RefreshDone, UplinkTake
    <3> QED BY <1>1, <2>1, <3>1, <3>2 DEF Next
  <2> QED BY <2>3, <2>4, <2>5
<1>2. TypeOK /\ Registered /\ AnswerInv /\ [Next]_vars =>
        [\A c \in Client :
           Len(bcast') > Len(bcast) /\ bcast'[Len(bcast')] = c => completes[c] # {}]_vars
  BY <1>1
<1> QED BY <1>2, TypeCorrect, TasksAreRegistered, AnswersAreRecorded, PTL
        DEF Spec, EchoOnlyAfterConfig

-----------------------------------------------------------------------------
(* The queues and the write tasks of the handlers implement the broadcast  *)
(* log: each step of the client side is a step of the log or leaves it.    *)
THEOREM BroadcastIsALog == Spec => ImplementsLog
<1>1. Init => Log!Init
  BY DEF Init, Log!Init
<1>2. TypeOK /\ Registered /\ SameStream /\ [Next]_vars => [Log!Next]_Log!vars
  <2> SUFFICES ASSUME TypeOK, Registered, SameStream, [Next]_vars
               PROVE  Log!Next \/ UNCHANGED <<bcast, clients, joined, got>>
    BY DEF Log!vars
  <2> USE DEF handlerVars, queueVars
  <2>1. ASSUME NEW c \in Client, Accept(c) PROVE Log!Join(c)
    BY <2>1 DEF Accept, NewHandler, Log!Join
  <2>2. ASSUME NEW c \in Client, Unregister(c) PROVE Log!Leave(c)
    BY <2>2 DEF Unregister, NewHandler, Log!Leave
  <2>3. ASSUME NEW c \in Client, Deliver(c) PROVE Log!Read(c)
    <3>1. c \in clients /\ "write" \in tasks[c] /\ out[c] # <<>>
      BY <2>3 DEF Deliver, Registered
    <3>2. Streamed(joined[c], got[c], out[c], bcast)
      BY <3>1, SameStreamIs
    <3>3. joined[c] + Len(got[c]) < Len(bcast) /\ Head(out[c]) = bcast[joined[c] + Len(got[c]) + 1]
      BY <3>1, <3>2, StreamedRead DEF TypeOK
    <3> QED BY <2>3, <3>1, <3>3 DEF Deliver, Log!Read
  <2>4. ASSUME NEW m \in Msg, Broadcast(m), UNCHANGED clients PROVE Log!Publish
    BY <2>4 DEF Broadcast, Log!Publish
  <2>5. ASSUME NEW c \in Client, ClientPacket(c)
        PROVE  Log!Publish \/ UNCHANGED <<bcast, clients, joined, got>>
    BY <2>4, <2>5 DEF ClientPacket, Echo, Msg
  <2>6. ASSUME NEW n \in Node, PhysicalNodeInfo(n) PROVE Log!Publish
    BY <2>4, <2>6 DEF PhysicalNodeInfo, Msg
  <2>7. ASSUME \/ \E c \in Client :
                    \/ PeerGone(c) \/ ReaderEnds(c) \/ Teardown(c) \/ WriterEnds(c)
                    \/ \E id \in ConfigId : WantConfig(c, id)
                    \/ \E r \in Runner :
                         ReplayStep(c, r) \/ ReplayFinish(c, r) \/ ReplayFail(c, r)
                    \/ \E r \in Refresher : RefreshNext(r, c)
               \/ \E r \in Refresher : Recapture(r) \/ RefreshDone(r)
               \/ UplinkTake \/ UNCHANGED vars
        PROVE  UNCHANGED <<bcast, clients, joined, got>>
    <3>1. CASE \/ \E r \in Refresher : Recapture(r) \/ RefreshDone(r)
               \/ UplinkTake \/ UNCHANGED vars
      BY <3>1 DEF vars, Recapture, RefreshDone, UplinkTake
    <3>2. ASSUME NEW c \in Client, \/ PeerGone(c) \/ ReaderEnds(c) \/ Teardown(c) \/ WriterEnds(c)
                                   \/ \E id \in ConfigId : WantConfig(c, id)
          PROVE  UNCHANGED <<bcast, clients, joined, got>>
      BY <3>2 DEF PeerGone, ReaderEnds, Teardown, WriterEnds, WantConfig
    <3>3. ASSUME NEW c \in Client,
                 \/ \E r \in Runner : ReplayStep(c, r) \/ ReplayFinish(c, r) \/ ReplayFail(c, r)
                 \/ \E r \in Refresher : RefreshNext(r, c)
          PROVE  UNCHANGED <<bcast, clients, joined, got>>
      BY <3>3 DEF ReplayStep, ReplayFinish, ReplayFail, RefreshNext
    <3> QED BY <2>7, <3>1, <3>2, <3>3
  <2> QED BY <2>1, <2>2, <2>3, <2>5, <2>6, <2>7 DEF Next, Log!Next
<1> QED BY <1>1, <1>2, TypeCorrect, TasksAreRegistered, StreamIsSame, PTL
        DEF Spec, ImplementsLog, Log!Spec

-----------------------------------------------------------------------------
(***************************************************************************)
(* For any number of clients and of refreshes that overlap: no client is   *)
(* left unconfigured, none is forgotten by a refresh, and no node falls    *)
(* between the snapshot of a replay and the broadcasts.                    *)
(***************************************************************************)

(* What one more frame of a replay changes: the rest of its nodes, or its  *)
(* section, and what the client has been written.                          *)
NodeSent(c, p, q) ==
  \E rest \in SUBSET Node : \E n \in rest :
    /\ q.pending = rest \ {n} /\ knows'[c] = knows[c] \cup {n} /\ completes'[c] = completes[c]
    /\ \/ q.at = p.at /\ rest = p.pending
       \/ /\ q.at = p.at + 1 /\ p.at < Len(Order(p.id))
          /\ rest = known /\ Order(p.id)[q.at] = "knownNodes"

SectionSent(c, p, q) ==
  /\ q.pending = {} /\ p.pending = {} /\ knows'[c] = knows[c]
  /\ q.at = p.at + 1 /\ p.at < Len(Order(p.id))
  /\ Order(p.id)[q.at] = "knownNodes" => known = {}
  /\ completes'[c] = IF Order(p.id)[q.at] = "configComplete"
                     THEN completes[c] \cup {p.id} ELSE completes[c]

LEMMA ReplayStepEffect ==
  ASSUME TypeOK, NEW c \in Client, NEW r \in Runner, ReplayStep(c, r)
  PROVE  /\ replay'[c][r].id = replay[c][r].id /\ replay'[c][r].since = replay[c][r].since
         /\ \/ NodeSent(c, replay[c][r], replay'[c][r])
            \/ SectionSent(c, replay[c][r], replay'[c][r])
         /\ \A d \in Client : d # c => knows'[d] = knows[d] /\ completes'[d] = completes[d]
<1> DEFINE p == replay[c][r]
           q == replay'[c][r]
           Goal == /\ q.id = p.id /\ q.since = p.since
                   /\ NodeSent(c, p, q) \/ SectionSent(c, p, q)
                   /\ \A d \in Client : d # c => knows'[d] = knows[d] /\ completes'[d] = completes[d]
<1>0. /\ p \in ReplayType /\ known \in SUBSET Node
      /\ p = [id |-> p.id, at |-> p.at, pending |-> p.pending, since |-> p.since]
  BY DEF TypeOK, ReplayType
<1>1. ASSUME NEW k \in Nat, NEW rest \in SUBSET Node, SendNode(c, r, k, rest),
             \/ k = p.at /\ rest = p.pending
             \/ /\ k = p.at + 1 /\ p.at < Len(Order(p.id))
                /\ rest = known /\ Order(p.id)[k] = "knownNodes"
      PROVE  Goal
  <2>1. PICK n \in rest :
          /\ replay' = [replay EXCEPT ![c][r].at = k, ![c][r].pending = rest \ {n}]
          /\ knows' = [knows EXCEPT ![c] = @ \cup {n}]
          /\ UNCHANGED completes
    BY <1>1 DEF SendNode
  <2>2. replay' = [replay EXCEPT ![c][r] = [p EXCEPT !.at = k, !.pending = rest \ {n}]]
    BY <2>1
  <2>3. q = [p EXCEPT !.at = k, !.pending = rest \ {n}]
    BY <2>2 DEF TypeOK
  <2>4. q.id = p.id /\ q.since = p.since /\ q.at = k /\ q.pending = rest \ {n}
    BY <1>0, <2>3
  <2>5. /\ knows'[c] = knows[c] \cup {n} /\ completes'[c] = completes[c]
        /\ \A d \in Client : d # c => knows'[d] = knows[d] /\ completes'[d] = completes[d]
    BY <2>1 DEF TypeOK
  <2>6. NodeSent(c, p, q)
    BY <1>1, <2>4, <2>5 DEF NodeSent
  <2> QED BY <2>4, <2>5, <2>6
<1>2. ASSUME p.pending = {}, p.at < Len(Order(p.id)),
             SendSection(c, r, p.at + 1, Order(p.id)[p.at + 1])
      PROVE  Goal
  <2>1. replay' = [replay EXCEPT ![c][r] = [p EXCEPT !.at = p.at + 1]]
    BY <1>2 DEF SendSection
  <2>2. q = [p EXCEPT !.at = p.at + 1]
    BY <2>1 DEF TypeOK
  <2>3. q.id = p.id /\ q.since = p.since /\ q.at = p.at + 1 /\ q.pending = {}
    BY <1>0, <1>2, <2>2
  <2>4. /\ knows' = knows
        /\ completes'[c] = IF Order(p.id)[p.at + 1] = "configComplete"
                           THEN completes[c] \cup {p.id} ELSE completes[c]
        /\ \A d \in Client : d # c => completes'[d] = completes[d]
    BY <1>2 DEF SendSection, TypeOK
  <2>5. Order(p.id)[p.at + 1] = "knownNodes" => known = {}
    BY <1>2 DEF SendSection
  <2>6. SectionSent(c, p, q)
    BY <1>2, <2>3, <2>4, <2>5 DEF SectionSent
  <2> QED BY <2>3, <2>4, <2>6
<1>3. p.at \in Nat /\ p.at + 1 \in Nat /\ p.pending \in SUBSET Node
  BY <1>0 DEF ReplayType
<1>4. CASE SendNode(c, r, p.at, p.pending)
  BY <1>1, <1>3, <1>4
<1>5. ASSUME p.at < Len(Order(p.id)), Order(p.id)[p.at + 1] = "knownNodes",
             SendNode(c, r, p.at + 1, known)
      PROVE  Goal
  BY <1>0, <1>1, <1>3, <1>5
<1> QED BY <1>2, <1>4, <1>5 DEF ReplayStep

-----------------------------------------------------------------------------
(* A client that is served and was ever answered has its configuration, or *)
(* a replay under way that will say so, or a refresh of it has failed.     *)
Configured(c) ==
  c \in clients /\ Served(c) /\ completes[c] # {}
    => configSent[c] \/ c \in unrefreshed \/ \E r \in Runner : Running(c, r)

(* No client whose request was answered stays refused as unconfigured,     *)
(* unless a refresh of it failed.                                          *)
THEOREM NobodyStaysUnconfigured == Spec => []AnsweredIsConfigured
<1> USE DEF handlerVars, flagVars, queueVars
<1>1. Init => \A d \in Client : Configured(d)
  BY DEF Init, Configured
<1>2. TypeOK /\ (\A d \in Client : Configured(d)) /\ [Next]_vars => (\A d \in Client : Configured(d))'
  <2> SUFFICES ASSUME TypeOK, [Next]_vars, NEW d \in Client, Configured(d)
               PROVE  Configured(d)'
    OBVIOUS
  <2> USE DEF Served
  <2>q. ASSUME d \in clients' => d \in clients, conn'[d] = "up" => conn[d] = "up",
               tasks'[d] \subseteq tasks[d], d \in unrefreshed => d \in unrefreshed',
               UNCHANGED <<replay[d], configSent[d], completes[d]>>
        PROVE  Configured(d)'
    BY <2>q DEF Configured, Running
  <2>1. ASSUME NEW c \in Client, Accept(c) \/ Unregister(c) PROVE Configured(d)'
    <3>1. CASE c = d
      BY <2>1, <3>1 DEF Accept, Unregister, NewHandler, TypeOK, Configured
    <3>2. CASE c # d
      BY <2>1, <2>q, <3>2 DEF Accept, Unregister, NewHandler, TypeOK
    <3> QED BY <3>1, <3>2
  <2>2. ASSUME NEW c \in Client, PeerGone(c) \/ ReaderEnds(c) \/ WriterEnds(c)
        PROVE  Configured(d)'
    <3>1. CASE PeerGone(c)
      BY <3>1, <2>q DEF PeerGone, TypeOK
    <3>2. CASE ReaderEnds(c)
      BY <3>2, <2>q DEF ReaderEnds, TypeOK
    <3>3. CASE WriterEnds(c)
      BY <3>3, <2>q DEF WriterEnds, TypeOK
    <3> QED BY <2>2, <3>1, <3>2, <3>3
  <2>3. ASSUME NEW c \in Client, Teardown(c) PROVE Configured(d)'
    <3>1. CASE c = d
      BY <2>3, <3>1 DEF Teardown, TypeOK, Configured
    <3>2. CASE c # d
      BY <2>3, <2>q, <3>2 DEF Teardown, TypeOK
    <3> QED BY <3>1, <3>2
  <2>4. ASSUME NEW c \in Client, NEW id \in ConfigId, WantConfig(c, id) PROVE Configured(d)'
    <3>1. CASE c = d
      <4>1. "reader" \in Runner /\ replay'[d]["reader"] = Begun(id)
        BY <2>4, <3>1 DEF WantConfig, TypeOK, Runner
      <4> QED BY <4>1 DEF Configured, Running, Begun
    <3>2. CASE c # d
      BY <2>4, <2>q, <3>2 DEF WantConfig, TypeOK
    <3> QED BY <3>1, <3>2
  <2>5. ASSUME NEW c \in Client, NEW r \in Runner, ReplayStep(c, r) PROVE Configured(d)'
    <3>1. CASE c = d
      BY <2>5, <3>1, ReplayStepShape DEF Configured, Running
    <3>2. ASSUME c # d, NEW e \in Runner PROVE Running(d, e)' <=> Running(d, e)
      BY <2>5, <3>2, ReplayStepShape DEF Running
    <3>3. CASE c # d
      BY <2>5, <3>2, <3>3, ReplayStepEffect DEF ReplayStep, Configured
    <3> QED BY <3>1, <3>3
  <2>6. ASSUME NEW c \in Client, NEW r \in Runner, ReplayFinish(c, r) PROVE Configured(d)'
    <3>1. CASE c = d
      BY <2>6, <3>1 DEF ReplayFinish, TypeOK, Configured
    <3>2. CASE c # d
      BY <2>6, <2>q, <3>2 DEF ReplayFinish, Refreshed, TypeOK
    <3> QED BY <3>1, <3>2
  <2>7. ASSUME NEW c \in Client, NEW r \in Runner, ReplayFail(c, r) PROVE Configured(d)'
    <3>1. CASE c = d
      BY <2>7, <3>1, FailEffect DEF ReplayFail, Configured
    <3>2. CASE c # d
      BY <2>7, <2>q, <3>2, FailEffect DEF ReplayFail, TypeOK
    <3> QED BY <3>1, <3>2
  <2>8. ASSUME NEW c \in Client, NEW r \in Refresher, RefreshNext(r, c) PROVE Configured(d)'
    <3>1. CASE c = d
      <4>1. r \in Runner /\ replay'[d][r] = Begun(NoId)
        BY <2>8, <3>1 DEF RefreshNext, TypeOK, Runner
      <4> QED BY <4>1 DEF Configured, Running, Begun
    <3>2. CASE c # d
      BY <2>8, <2>q, <3>2 DEF RefreshNext, TypeOK
    <3> QED BY <3>1, <3>2
  <2>9. ASSUME NEW c \in Client, ClientPacket(c) \/ Deliver(c) PROVE Configured(d)'
    BY <2>9, <2>q DEF ClientPacket, Deliver
  <2>10. ASSUME \/ \E r \in Refresher : Recapture(r) \/ RefreshDone(r)
                \/ \E n \in Node : PhysicalNodeInfo(n)
                \/ UplinkTake \/ UNCHANGED vars
         PROVE Configured(d)'
    BY <2>10, <2>q DEF Recapture, RefreshDone, PhysicalNodeInfo, UplinkTake, vars
  <2> QED BY <2>1, <2>2, <2>3, <2>4, <2>5, <2>6, <2>7, <2>8, <2>9, <2>10 DEF Next
<1>3. TypeOK /\ (\A d \in Client : Configured(d)) => AnsweredIsConfigured
  BY DEF TypeOK, Configured, Quiet, AnsweredIsConfigured
<1> QED BY <1>1, <1>2, <1>3, TypeCorrect, PTL DEF Spec
-----------------------------------------------------------------------------
(* A refresh owes c something: c is in its snapshot, or it or another      *)
(* runner is at work on a replay that began after the latest capture.      *)
Owed(c) ==
  \/ \E r \in Refresher : c \in todo[r]
  \/ \E r \in Runner : Running(c, r) /\ replay[c][r].since = epoch

(* A client that is served has a replay of the latest capture, or is owed  *)
(* one, or has none since it connected, or its refresh has failed.         *)
Current(c) ==
  /\ fresh[c] <= epoch
  /\ \A r \in Runner : replay[c][r].since <= epoch
  /\ c \in clients /\ Served(c) =>
       \/ fresh[c] = epoch \/ Owed(c) \/ c \in unrefreshed
       \/ ~configSent[c] /\ \A r \in Runner : ~Running(c, r)

TodoOfBusy == \A r \in Refresher : todo[r] # {} => phase[r] = "busy"

(* Only a refresh that is under way has clients in its snapshot.           *)
LEMMA TodoStep == TypeOK /\ TodoOfBusy /\ [Next]_vars => TodoOfBusy'
<1> SUFFICES ASSUME TypeOK, TodoOfBusy, [Next]_vars PROVE TodoOfBusy'
  OBVIOUS
<1>1. ASSUME NEW r \in Refresher, Recapture(r) \/ RefreshDone(r) PROVE TodoOfBusy'
  BY <1>1 DEF Recapture, RefreshDone, TodoOfBusy, TypeOK
<1>2. ASSUME NEW r \in Refresher, NEW c \in Client, RefreshNext(r, c) PROVE TodoOfBusy'
  BY <1>2 DEF RefreshNext, TodoOfBusy, TypeOK
<1>3. ASSUME UNCHANGED refreshVars PROVE TodoOfBusy'
  BY <1>3 DEF TodoOfBusy, refreshVars
<1>4. ASSUME NEW c \in Client,
             \/ Accept(c) \/ PeerGone(c) \/ ReaderEnds(c) \/ Teardown(c) \/ Unregister(c)
             \/ \E id \in ConfigId : WantConfig(c, id)
             \/ \E r \in Runner : ReplayStep(c, r) \/ ReplayFinish(c, r) \/ ReplayFail(c, r)
             \/ ClientPacket(c) \/ Deliver(c) \/ WriterEnds(c)
      PROVE  UNCHANGED refreshVars
  BY <1>4 DEF Accept, PeerGone, ReaderEnds, Teardown, Unregister, WantConfig, ReplayStep,
     ReplayFinish, ReplayFail, ClientPacket, Deliver, WriterEnds
<1>5. ASSUME (\E n \in Node : PhysicalNodeInfo(n)) \/ UplinkTake \/ UNCHANGED vars
      PROVE  UNCHANGED refreshVars
  BY <1>5 DEF PhysicalNodeInfo, UplinkTake, vars
<1> QED BY <1>1, <1>2, <1>3, <1>4, <1>5 DEF Next

(* Every step keeps every client current. *)
LEMMA CurrentStep ==
  TypeOK /\ Registered /\ (\A d \in Client : Current(d)) /\ [Next]_vars
    => (\A d \in Client : Current(d))'
<1> SUFFICES ASSUME TypeOK, Registered, [Next]_vars, NEW d \in Client, Current(d)
             PROVE  Current(d)'
  OBVIOUS
<1> USE DEF handlerVars, flagVars, queueVars, refreshVars, Served
<1>0. /\ epoch \in Nat /\ fresh[d] \in Nat /\ fresh[d] <= epoch
      /\ \A r \in Runner : replay[d][r].since \in Nat /\ replay[d][r].since <= epoch
      /\ Idle.since = 0 /\ Idle.at = 0
      /\ \A id : Begun(id).since = epoch /\ Begun(id).at = 1
      /\ "reader" \in Runner /\ Refresher \subseteq Runner
  BY DEF TypeOK, ReplayType, Current, Idle, Begun, Runner
<1>q. ASSUME d \in clients' => d \in clients, conn'[d] = "up" => conn[d] = "up",
             tasks'[d] \subseteq tasks[d], d \in unrefreshed => d \in unrefreshed',
             \A r \in Refresher : d \in todo[r] => d \in todo'[r],
             UNCHANGED <<replay[d], configSent[d], fresh[d], epoch>>
      PROVE  Current(d)'
  BY <1>q DEF Current, Owed, Running
<1>1. ASSUME NEW c \in Client, Accept(c) PROVE Current(d)'
  <2>1. CASE c = d
    <3>1. \A r \in Runner : ~Running(d, r)
      BY <1>0, <1>1, <2>1 DEF Accept, Registered, Runner
    <3>2. configSent'[d] = FALSE /\ fresh'[d] = 0 /\ epoch' = epoch /\ replay' = replay
      BY <1>1, <2>1 DEF Accept, NewHandler, TypeOK
    <3> QED BY <1>0, <3>1, <3>2 DEF Current, Running
  <2>2. CASE c # d
    BY <1>1, <1>q, <2>2 DEF Accept, NewHandler, TypeOK
  <2> QED BY <2>1, <2>2
<1>2. ASSUME NEW c \in Client, Unregister(c) PROVE Current(d)'
  <2>1. CASE c = d
    BY <1>0, <1>2, <2>1 DEF Unregister, NewHandler, TypeOK, Current
  <2>2. CASE c # d
    BY <1>2, <1>q, <2>2 DEF Unregister, NewHandler, TypeOK
  <2> QED BY <2>1, <2>2
<1>3. ASSUME NEW c \in Client, PeerGone(c) \/ ReaderEnds(c) \/ WriterEnds(c)
      PROVE  Current(d)'
  <2>1. CASE PeerGone(c)
    BY <2>1, <1>q DEF PeerGone, TypeOK
  <2>2. CASE ReaderEnds(c)
    BY <2>2, <1>q DEF ReaderEnds, TypeOK
  <2>3. CASE WriterEnds(c)
    BY <2>3, <1>q DEF WriterEnds, TypeOK
  <2> QED BY <1>3, <2>1, <2>2, <2>3
<1>4. ASSUME NEW c \in Client, Teardown(c) PROVE Current(d)'
  <2>1. CASE c = d
    <3>1. /\ conn'[d] = "closed" /\ UNCHANGED <<fresh, epoch>>
          /\ replay'[d]["reader"] = Idle
          /\ \A r \in Runner : r # "reader" => replay'[d][r] = replay[d][r]
      BY <1>0, <1>4, <2>1 DEF Teardown, TypeOK
    <3> QED BY <1>0, <3>1 DEF Current
  <2>2. CASE c # d
    BY <1>4, <1>q, <2>2 DEF Teardown, TypeOK
  <2> QED BY <2>1, <2>2
<1>5. ASSUME NEW c \in Client, NEW r \in Runner, NEW id, replay' = [replay EXCEPT ![c][r] = Begun(id)],
             UNCHANGED <<fresh, unrefreshed, epoch>>,
             c # d => UNCHANGED <<clients, conn, tasks, configSent[d]>>,
             c # d => \A s \in Refresher : d \in todo[s] => d \in todo'[s]
      PROVE  Current(d)'
  <2>1. CASE c = d
    <3>1. /\ replay'[d][r] = Begun(id)
          /\ \A s \in Runner : s # r => replay'[d][s] = replay[d][s]
      BY <1>5, <2>1 DEF TypeOK
    <3> QED BY <1>0, <1>5, <3>1 DEF Current, Owed, Running
  <2>2. CASE c # d
    BY <1>5, <1>q, <2>2 DEF TypeOK
  <2> QED BY <2>1, <2>2
<1>6. ASSUME NEW c \in Client, NEW id \in ConfigId, WantConfig(c, id) PROVE Current(d)'
  BY <1>0, <1>5, <1>6 DEF WantConfig
<1>7. ASSUME NEW c \in Client, NEW r \in Refresher, RefreshNext(r, c) PROVE Current(d)'
  <2>1. \A s \in Refresher : c # d /\ d \in todo[s] => d \in todo'[s]
    BY <1>7 DEF RefreshNext, TypeOK
  <2> QED BY <1>0, <1>5, <1>7, <2>1 DEF RefreshNext, TypeOK
<1>8. ASSUME NEW c \in Client, NEW r \in Runner, ReplayStep(c, r) PROVE Current(d)'
  <2>1. ASSUME NEW s \in Runner
        PROVE  replay'[d][s].since = replay[d][s].since /\ (Running(d, s)' <=> Running(d, s))
    <3>1. CASE d # c \/ s # r
      BY <1>8, <3>1, ReplayStepShape DEF Running
    <3>2. CASE d = c /\ s = r
      <4>1. replay'[c][r].since = replay[c][r].since
        BY <1>8, ReplayStepEffect
      <4>2. replay'[c][r].at > 0
        BY <1>8, ReplayStepShape
      <4>3. replay[c][r].at > 0
        BY <1>8 DEF ReplayStep, Running
      <4> QED BY <3>2, <4>1, <4>2, <4>3 DEF Running
    <3> QED BY <3>1, <3>2
  <2>2. UNCHANGED <<handlerVars, configSent, todo, fresh, unrefreshed, epoch>>
    BY <1>8 DEF ReplayStep
  <2> QED BY <2>1, <2>2, <1>0 DEF Current, Owed
<1>9. ASSUME NEW c \in Client, NEW r \in Runner, ReplayFinish(c, r) PROVE Current(d)'
  <2>1. CASE c = d
    <3>1. /\ replay'[d][r] = Idle
          /\ \A s \in Runner : s # r => replay'[d][s] = replay[d][s]
          /\ fresh'[d] = IF fresh[d] < replay[d][r].since THEN replay[d][r].since ELSE fresh[d]
          /\ d \in unrefreshed => d \in unrefreshed' \/ replay[d][r].since = epoch
      BY <1>9, <2>1 DEF ReplayFinish, Refreshed, TypeOK
    <3>2. UNCHANGED <<handlerVars, todo, epoch>> /\ Running(d, r)
      BY <1>9, <2>1 DEF ReplayFinish
    <3>3. fresh'[d] <= epoch /\ \A s \in Runner : replay'[d][s].since <= epoch
      BY <1>0, <3>1
    <3>4. fresh[d] = epoch \/ replay[d][r].since = epoch => fresh'[d] = epoch
      BY <1>0, <3>1
    <3>5. Owed(d) => Owed(d)' \/ replay[d][r].since = epoch
      BY <3>1, <3>2 DEF Owed, Running
    <3> QED BY <3>1, <3>2, <3>3, <3>4, <3>5 DEF Current
  <2>2. CASE c # d
    BY <1>9, <1>q, <2>2 DEF ReplayFinish, Refreshed, TypeOK
  <2> QED BY <2>1, <2>2
<1>10. ASSUME NEW c \in Client, NEW r \in Runner, ReplayFail(c, r) PROVE Current(d)'
  <2>1. CASE c = d
    <3>1. /\ replay'[d][r] = Idle
          /\ \A s \in Runner : s # r => replay'[d][s] = replay[d][s]
          /\ "read" \notin tasks'[d] \/ d \in unrefreshed'
          /\ UNCHANGED <<fresh, epoch>>
      BY <1>10, <2>1, FailEffect DEF ReplayFail, TypeOK
    <3> QED BY <1>0, <3>1 DEF Current
  <2>2. CASE c # d
    BY <1>10, <1>q, <2>2, FailEffect DEF ReplayFail, TypeOK
  <2> QED BY <2>1, <2>2
<1>11. ASSUME NEW r \in Refresher, Recapture(r) PROVE Current(d)'
  <2>1. todo'[r] = clients /\ epoch' = epoch + 1 /\ UNCHANGED <<clients, fresh, replay>>
    BY <1>11 DEF Recapture, TypeOK
  <2>2. fresh'[d] <= epoch' /\ \A s \in Runner : replay'[d][s].since <= epoch'
    BY <1>0, <2>1
  <2> QED BY <2>1, <2>2 DEF Current, Owed
<1>12. ASSUME \/ \E c \in Client : ClientPacket(c) \/ Deliver(c)
              \/ \E r \in Refresher : RefreshDone(r)
              \/ \E n \in Node : PhysicalNodeInfo(n)
              \/ UplinkTake \/ UNCHANGED vars
       PROVE Current(d)'
  BY <1>12, <1>q DEF ClientPacket, Deliver, RefreshDone, PhysicalNodeInfo, UplinkTake, vars
<1> QED BY <1>1, <1>2, <1>3, <1>4, <1>6, <1>7, <1>8, <1>9, <1>10, <1>11, <1>12 DEF Next

(* No refresh forgets a client, however many of them overlap.              *)
THEOREM RefreshReachesAll == Spec => []RefreshedAfterCapture
<1>1. Init => TodoOfBusy /\ \A d \in Client : Current(d)
  BY DEF Init, TodoOfBusy, Current, Idle
<1>2. TypeOK /\ TodoOfBusy /\ (\A d \in Client : Current(d)) => RefreshedAfterCapture
  BY DEF TypeOK, TodoOfBusy, Current, Owed, Quiet, RefreshedAfterCapture
<1> QED BY <1>1, <1>2, TodoStep, CurrentStep, TypeCorrect, TasksAreRegistered, PTL DEF Spec
-----------------------------------------------------------------------------
(* In a replay with nodes they come right before config_complete, which    *)
(* comes last; the nodes are not the first section.                        *)
LEMMA OrderOfNodes ==
  ASSUME NEW id \in ConfigId \cup {NoId}
  PROVE  /\ Len(Order(id)) \in Nat
         /\ \A i \in 1..Len(Order(id)) : Order(id)[i] = "configComplete" <=> i = Len(Order(id))
         /\ id # ConfigOnly =>
              /\ Len(Order(id)) > 2
              /\ \A i \in 1..Len(Order(id)) : Order(id)[i] = "knownNodes" <=> i = Len(Order(id)) - 1
<1>0. /\ Len(Preamble) \in Nat /\ Len(Preamble) >= 1 /\ Preamble \in Seq(PreambleSection)
      /\ \A i \in 1..Len(Preamble) : Preamble[i] \notin {"knownNodes", "configComplete"}
  <2>1. Preamble \in Seq(PreambleSection) /\ Preamble # <<>>
    BY ConstantsAssumption
  <2>2. Len(Preamble) \in Nat \ {0}
    BY <2>1, EmptySeq
  <2>3. \A i \in 1..Len(Preamble) : Preamble[i] \in PreambleSection
    BY <2>1, ElementOfSeq
  <2> QED BY <2>1, <2>2, <2>3 DEF PreambleSection
<1>1. CASE id = DbOnly
  <2>1. Order(id) = <<"ownNodeInfo", "knownNodes", "configComplete">>
    BY <1>1, ConstantsAssumption DEF Order
  <2> QED BY <2>1
<1>2. CASE id # DbOnly /\ id = ConfigOnly
  <2>1. Order(id) = Append(Preamble, "configComplete")
    BY <1>2 DEF Order
  <2>2. /\ Len(Order(id)) = Len(Preamble) + 1 /\ Order(id)[Len(Preamble) + 1] = "configComplete"
        /\ \A i \in 1..Len(Preamble) : Order(id)[i] = Preamble[i]
    BY <1>0, <2>1
  <2> QED BY <1>0, <1>2, <2>2
<1>3. CASE id # DbOnly /\ id # ConfigOnly
  <2> DEFINE last == <<"knownNodes", "configComplete">>
  <2>1. Order(id) = Preamble \o last
    BY <1>3 DEF Order
  <2>0. "knownNodes" \in ReplaySection /\ "configComplete" \in ReplaySection
    BY DEF ReplaySection
  <2>2. /\ last \in Seq(ReplaySection) /\ Len(last) = 2
        /\ last[1] = "knownNodes" /\ last[2] = "configComplete"
    BY <2>0
  <2>a. PreambleSection \subseteq ReplaySection
    BY DEF ReplaySection
  <2>3. Preamble \in Seq(ReplaySection)
    BY <1>0, <2>a, SeqMonotonic
  <2> HIDE DEF last
  <2>b. /\ Len(Preamble \o last) = Len(Preamble) + Len(last)
        /\ \A i \in 1..Len(Preamble) + Len(last) :
             (Preamble \o last)[i] = IF i <= Len(Preamble) THEN Preamble[i] ELSE last[i - Len(Preamble)]
    BY <2>2, <2>3, ConcatProperties, ZenonT(20)
  <2>4. /\ Len(Order(id)) = Len(Preamble) + 2
        /\ \A i \in 1..Len(Preamble) : Order(id)[i] = Preamble[i]
        /\ Order(id)[Len(Preamble) + 1] = last[1]
        /\ Order(id)[Len(Preamble) + 2] = last[2]
    BY <1>0, <2>1, <2>2, <2>b
  <2> QED BY <1>0, <2>2, <2>4
<1> QED BY <1>1, <1>2, <1>3

(* What a client was written, or will be from its queue. *)
Reaches(c) == knows[c] \cup Queued(c)

(* A replay that is at its nodes has the rest of them to send, and one     *)
(* that was complete has left no node out.                                 *)
Caught(c) ==
  c \in clients /\ "write" \in tasks[c] =>
    /\ completes[c] \ {ConfigOnly} # {} => known \subseteq Reaches(c)
    /\ \A r \in Runner :
         LET p == replay[c][r] IN
           p.at > 0 /\ p.id # ConfigOnly /\ p.at = Len(Order(p.id)) - 1
             => known \subseteq Reaches(c) \cup p.pending

(* A step after which the same nodes have reached the client. *)
LEMMA CaughtQuiet ==
  ASSUME NEW c \in Client, Caught(c), c \in clients' => c \in clients,
         tasks'[c] \subseteq tasks[c], replay'[c] = replay[c], completes'[c] = completes[c],
         "write" \in tasks'[c] /\ c \in clients => known' \ Reaches(c)' \subseteq known \ Reaches(c)
  PROVE  Caught(c)'
BY DEF Caught

(* A broadcast adds its message to what reaches a client. *)
LEMMA BroadcastReaches ==
  ASSUME TypeOK, NEW m \in Msg, Broadcast(m), UNCHANGED knows, NEW c \in clients
  PROVE  Reaches(c)' = Reaches(c) \cup {m}
<1>1. c \in Client /\ out[c] \in Seq(Msg) /\ out'[c] = Append(out[c], m)
  BY DEF TypeOK, Broadcast
<1>2. Queued(c)' = Queued(c) \cup {m}
  <2>1. /\ Len(out'[c]) = Len(out[c]) + 1 /\ out'[c][Len(out[c]) + 1] = m
        /\ \A i \in 1..Len(out[c]) : out'[c][i] = out[c][i]
        /\ DOMAIN out[c] = 1..Len(out[c]) /\ DOMAIN out'[c] = 1..Len(out'[c])
        /\ Len(out[c]) \in Nat
    BY <1>1
  <2> QED BY <2>1 DEF Queued
<1> QED BY <1>2 DEF Reaches

(* A message that is written leaves the queue for what the client knows.   *)
LEMMA DeliverReaches ==
  ASSUME TypeOK, NEW c \in Client, Deliver(c)
  PROVE  Reaches(c) \cap Node \subseteq Reaches(c)'
<1>1. /\ out[c] \in Seq(Msg) /\ out[c] # <<>> /\ out'[c] = Tail(out[c])
      /\ knows'[c] = knows[c] \cup ({Head(out[c])} \cap Node)
  BY DEF TypeOK, Deliver
<1>2. ASSUME NEW i \in DOMAIN out[c], i # 1 PROVE out[c][i] \in Queued(c)'
  <2>1. /\ i \in 1..Len(out[c]) /\ Len(out[c]) \in Nat /\ Len(Tail(out[c])) = Len(out[c]) - 1
        /\ DOMAIN Tail(out[c]) = 1..Len(Tail(out[c]))
        /\ \A j \in 1..Len(Tail(out[c])) : Tail(out[c])[j] = out[c][j + 1]
    BY <1>1
  <2>2. i - 1 \in DOMAIN out'[c] /\ out'[c][i - 1] = out[c][i]
    BY <1>1, <1>2, <2>1
  <2> QED BY <2>2 DEF Queued
<1>3. out[c][1] = Head(out[c]) /\ Queued(c)' \subseteq Reaches(c)' /\ knows'[c] \subseteq Reaches(c)'
  BY <1>1 DEF Reaches
<1>4. ASSUME NEW n \in Queued(c), n \in Node PROVE n \in Reaches(c)'
  <2>1. PICK i \in DOMAIN out[c] : n = out[c][i]
    BY <1>4 DEF Queued
  <2>2. CASE i = 1
    BY <1>1, <1>3, <1>4, <2>1, <2>2
  <2>3. CASE i # 1
    BY <1>2, <1>3, <2>1, <2>3
  <2> QED BY <2>2, <2>3
<1>5. knows[c] \subseteq Reaches(c)'
  BY <1>1, <1>3
<1> QED BY <1>4, <1>5 DEF Reaches

(* The two ways a replay goes on leave nothing out. *)
LEMMA CaughtReplay ==
  ASSUME TypeOK, AnswerInv, NEW d \in Client, Caught(d), NEW c \in Client, NEW r \in Runner,
         ReplayStep(c, r)
  PROVE  Caught(d)'
<1> DEFINE p == replay[c][r]
           q == replay'[c][r]
<1>0. /\ UNCHANGED <<clients, tasks, known, out>>
      /\ \A e \in Client, s \in Runner : e # c \/ s # r => replay'[e][s] = replay[e][s]
      /\ p.id \in ConfigId \cup {NoId} /\ p.at \in Nat /\ p.at > 0
      /\ q.id = p.id /\ known \subseteq Node
      /\ \A e \in Client : e # c => knows'[e] = knows[e] /\ completes'[e] = completes[e]
  <2>1. UNCHANGED <<clients, tasks, known, out>> /\ p.at > 0
    BY DEF ReplayStep, Running, handlerVars, queueVars
  <2>2. p \in ReplayType /\ known \subseteq Node
    BY DEF TypeOK
  <2>3. p.id \in ConfigId \cup {NoId} /\ p.at \in Nat
    BY <2>2 DEF ReplayType
  <2> QED BY <2>1, <2>2, <2>3, ReplayStepShape, ReplayStepEffect
<1>1. CASE c # d
  <2>1. Reaches(d)' = Reaches(d)
    BY <1>0, <1>1 DEF Reaches, Queued
  <2> QED BY <1>0, <1>1, <2>1 DEF Caught
<1>2. CASE c = d
  <2> SUFFICES ASSUME d \in clients, "write" \in tasks[d]
               PROVE  /\ completes'[d] \ {ConfigOnly} # {} => known \subseteq Reaches(d)'
                      /\ \A s \in Runner :
                           replay'[d][s].at > 0 /\ replay'[d][s].id # ConfigOnly
                           /\ replay'[d][s].at = Len(Order(replay'[d][s].id)) - 1
                             => known \subseteq Reaches(d)' \cup replay'[d][s].pending
    BY <1>0 DEF Caught
  <2> DEFINE n == Len(Order(p.id))
  <2>1. Queued(d)' = Queued(d)
    BY <1>0 DEF Queued
  <2>2. /\ n \in Nat
        /\ \A i \in 1..n : Order(p.id)[i] = "configComplete" <=> i = n
        /\ p.id # ConfigOnly =>
             n > 2 /\ \A i \in 1..n : Order(p.id)[i] = "knownNodes" <=> i = n - 1
    BY <1>0, OrderOfNodes
  <2>3. /\ completes[d] \ {ConfigOnly} # {} => known \subseteq Reaches(d)
        /\ \A s \in Runner :
             replay[d][s].at > 0 /\ replay[d][s].id # ConfigOnly
             /\ replay[d][s].at = Len(Order(replay[d][s].id)) - 1
               => known \subseteq Reaches(d) \cup replay[d][s].pending
    BY DEF Caught
  <2>4. knows[d] \subseteq knows'[d] /\ Reaches(d) \subseteq Reaches(d)'
    <3>1. NodeSent(c, p, q) => knows[d] \subseteq knows'[d]
      BY <1>2 DEF NodeSent
    <3>2. SectionSent(c, p, q) => knows[d] \subseteq knows'[d]
      BY <1>2 DEF SectionSent
    <3> QED BY <2>1, <3>1, <3>2, ReplayStepEffect DEF Reaches
  <2>5. completes'[d] \ {ConfigOnly} # {} => known \subseteq Reaches(d)'
    <3>1. CASE completes'[d] = completes[d]
      BY <2>3, <2>4, <3>1
    <3>2. CASE completes'[d] # completes[d]
      <4>1. SectionSent(c, p, q) /\ q.at = n /\ completes'[d] = completes[d] \cup {p.id}
        <5>1. ~NodeSent(c, p, q)
          BY <1>2, <3>2 DEF NodeSent
        <5>2. SectionSent(c, p, q)
          BY <5>1, ReplayStepEffect
        <5>3. q.at \in 1..n /\ Order(p.id)[q.at] = "configComplete"
          BY <1>0, <1>2, <2>2, <3>2, <5>2 DEF SectionSent
        <5> QED BY <1>2, <2>2, <5>2, <5>3 DEF SectionSent
      <4>2. p.at = n - 1 /\ p.pending = {}
        BY <1>0, <2>2, <4>1 DEF SectionSent
      <4> QED BY <1>0, <1>2, <2>3, <2>4, <4>1, <4>2
    <3> QED BY <3>1, <3>2
  <2>6. p.id # ConfigOnly /\ q.at = n - 1 => known \subseteq Reaches(d)' \cup q.pending
    <3> SUFFICES ASSUME p.id # ConfigOnly, q.at = n - 1
                 PROVE  known \subseteq Reaches(d)' \cup q.pending
      OBVIOUS
    <3>1. CASE NodeSent(c, p, q)
      <4>1. PICK rest \in SUBSET Node : \E m \in rest :
              /\ q.pending = rest \ {m} /\ knows'[c] = knows[c] \cup {m}
              /\ \/ q.at = p.at /\ rest = p.pending
                 \/ rest = known
        BY <3>1 DEF NodeSent
      <4>2. known \subseteq Reaches(d) \cup rest
        BY <1>0, <1>2, <2>3, <4>1
      <4> QED BY <1>2, <2>1, <4>1, <4>2 DEF Reaches
    <3>2. CASE SectionSent(c, p, q)
      BY <2>2, <3>2 DEF SectionSent
    <3> QED BY <3>1, <3>2, ReplayStepEffect
  <2> QED BY <1>0, <1>2, <2>3, <2>4, <2>5, <2>6
<1> QED BY <1>1, <1>2

(* Every step keeps a client from missing a node. *)
LEMMA CaughtStep ==
  TypeOK /\ Registered /\ AnswerInv /\ (\A d \in Client : Caught(d)) /\ [Next]_vars
    => (\A d \in Client : Caught(d))'
<1> SUFFICES ASSUME TypeOK, Registered, AnswerInv, [Next]_vars, NEW d \in Client, Caught(d)
             PROVE  Caught(d)'
  OBVIOUS
<1> USE DEF handlerVars, flagVars, queueVars, refreshVars
<1>0. /\ "reader" \in Runner /\ Refresher \subseteq Runner
      /\ Idle.at = 0 /\ known \subseteq Node
      /\ \A id : Begun(id).id = id /\ Begun(id).at = 1
  BY DEF Idle, Begun, Runner, TypeOK
<1>q. ASSUME d \in clients' => d \in clients, tasks'[d] \subseteq tasks[d],
             UNCHANGED <<replay[d], completes[d], known, out[d], knows[d]>>
      PROVE  Caught(d)'
  BY <1>q, CaughtQuiet DEF Reaches, Queued
<1>1. ASSUME NEW c \in Client, Accept(c) \/ Unregister(c) PROVE Caught(d)'
  <2>1. ASSUME c = d, Accept(c) PROVE Caught(d)'
    <3>1. \A r \in Runner : ~Running(d, r)
      BY <1>0, <2>1 DEF Accept, Registered, Runner
    <3>2. completes'[d] = {} /\ replay' = replay
      BY <2>1 DEF Accept, NewHandler, TypeOK
    <3> QED BY <3>1, <3>2 DEF Caught, Running
  <2>2. ASSUME c = d, Unregister(c) PROVE Caught(d)'
    BY <2>2 DEF Unregister, Caught
  <2>3. CASE c # d
    BY <1>1, <1>q, <2>3 DEF Accept, Unregister, NewHandler, TypeOK
  <2> QED BY <1>1, <2>1, <2>2, <2>3
<1>2. ASSUME NEW c \in Client, PeerGone(c) \/ ReaderEnds(c) \/ WriterEnds(c)
      PROVE  Caught(d)'
  <2>1. tasks'[d] \subseteq tasks[d]
    <3>1. PeerGone(c) => tasks' = tasks
      BY DEF PeerGone
    <3>2. ReaderEnds(c) => tasks'[d] \subseteq tasks[d]
      BY DEF ReaderEnds, TypeOK
    <3>3. WriterEnds(c) => tasks'[d] \subseteq tasks[d]
      BY DEF WriterEnds, TypeOK
    <3> QED BY <1>2, <3>1, <3>2, <3>3
  <2> QED BY <1>2, <1>q, <2>1 DEF PeerGone, ReaderEnds, WriterEnds
<1>3. ASSUME NEW c \in Client, Teardown(c) PROVE Caught(d)'
  <2>1. CASE c = d
    BY <1>3, <2>1 DEF Teardown, TypeOK, Caught
  <2>2. CASE c # d
    BY <1>3, <1>q, <2>2 DEF Teardown, TypeOK
  <2> QED BY <2>1, <2>2
(* A replay of d begins, or is over. *)
<1>4. ASSUME NEW c \in Client, NEW r \in Runner, NEW q,
             q = Idle \/ \E id \in ConfigId \cup {NoId} : q = Begun(id),
             replay' = [replay EXCEPT ![c][r] = q],
             tasks'[d] \subseteq tasks[d],
             UNCHANGED <<clients, completes, known, out, knows>>
      PROVE  Caught(d)'
  <2>1. CASE c = d
    <3>1. replay'[d][r] = q /\ \A s \in Runner : s # r => replay'[d][s] = replay[d][s]
      BY <1>4, <2>1 DEF TypeOK
    <3>2. ~(q.at > 0 /\ q.id # ConfigOnly /\ q.at = Len(Order(q.id)) - 1)
      BY <1>0, <1>4, OrderOfNodes
    <3>3. Reaches(d)' = Reaches(d)
      BY <1>4 DEF Reaches, Queued
    <3> QED BY <1>4, <3>1, <3>2, <3>3 DEF Caught
  <2>2. CASE c # d
    BY <1>4, <1>q, <2>2 DEF TypeOK
  <2> QED BY <2>1, <2>2
<1>5. ASSUME NEW c \in Client, NEW id \in ConfigId, WantConfig(c, id) PROVE Caught(d)'
  BY <1>0, <1>4, <1>5 DEF WantConfig
<1>6. ASSUME NEW c \in Client, NEW r \in Refresher, RefreshNext(r, c) PROVE Caught(d)'
  BY <1>0, <1>4, <1>6 DEF RefreshNext
<1>7. ASSUME NEW c \in Client, NEW r \in Runner, ReplayFinish(c, r) PROVE Caught(d)'
  BY <1>4, <1>7 DEF ReplayFinish
<1>8. ASSUME NEW c \in Client, NEW r \in Runner, ReplayFail(c, r) PROVE Caught(d)'
  <2>1. tasks'[d] \subseteq tasks[d]
    BY <1>8, FailEffect
  <2> QED BY <1>4, <1>8, <2>1 DEF ReplayFail
<1>9. ASSUME NEW c \in Client, NEW r \in Runner, ReplayStep(c, r) PROVE Caught(d)'
  BY <1>9, CaughtReplay
<1>10. ASSUME NEW m \in Msg, Broadcast(m), known' \subseteq known \cup {m},
              UNCHANGED <<handlerVars, replay, completes, knows>>
       PROVE  Caught(d)'
  BY <1>10, BroadcastReaches, CaughtQuiet
<1>11. ASSUME NEW c \in Client, ClientPacket(c) PROVE Caught(d)'
  BY <1>10, <1>11, <1>q DEF ClientPacket, Echo, Msg
<1>12. ASSUME NEW n \in Node, PhysicalNodeInfo(n) PROVE Caught(d)'
  BY <1>10, <1>12 DEF PhysicalNodeInfo, Msg
<1>13. ASSUME NEW c \in Client, Deliver(c) PROVE Caught(d)'
  <2>1. UNCHANGED <<clients, tasks, replay, known, completes>>
    BY <1>13 DEF Deliver
  <2>2. CASE c = d
    <3>1. known' \ Reaches(d)' \subseteq known \ Reaches(d)
      BY <1>0, <1>13, <2>1, <2>2, DeliverReaches
    <3> QED BY <2>1, <3>1, CaughtQuiet
  <2>3. CASE c # d
    BY <1>13, <1>q, <2>1, <2>3 DEF Deliver, TypeOK
  <2> QED BY <2>2, <2>3
<1>14. ASSUME \/ \E r \in Refresher : Recapture(r) \/ RefreshDone(r)
              \/ UplinkTake \/ UNCHANGED vars
       PROVE Caught(d)'
  BY <1>14, <1>q DEF Recapture, RefreshDone, UplinkTake, vars
<1> QED BY <1>1, <1>2, <1>3, <1>5, <1>6, <1>7, <1>8, <1>9, <1>11, <1>12, <1>13, <1>14 DEF Next

(* No node falls between the snapshot of a replay and the broadcasts.      *)
THEOREM NoNodeIsMissed == Spec => []NoGap
<1>1. Init => \A d \in Client : Caught(d)
  BY DEF Init, Caught
<1>2. (\A d \in Client : Caught(d)) /\ TypeOK => NoGap
  BY DEF TypeOK, Caught, NoGap, Reaches
<1> QED BY <1>1, <1>2, CaughtStep, TypeCorrect, TasksAreRegistered, AnswersAreRecorded, PTL
        DEF Spec
==============================================================================
