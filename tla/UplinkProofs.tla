---------------------------- MODULE UplinkProofs -----------------------------
(***************************************************************************)
(* Proofs about Uplink: its types, that it reads frames as Framing says,   *)
(* the policy for what reaches the radio, and the echo of it.              *)
(***************************************************************************)
EXTENDS Uplink, FramingProofs

(* Every action is a step of the read loop or leaves it alone. *)
LEMMA NextIsFraming == [Next]_vars => [FramingNext]_framingVars
<1> SUFFICES ASSUME [Next]_vars PROVE FramingNext \/ UNCHANGED framingVars
  OBVIOUS
<1>1. CASE Bytes
  BY <1>1 DEF Bytes, FramingNext
<1>2. CASE WantConfig \/ Heartbeat \/ Ignored \/ PacketRefused \/ PacketAllowed
  <2>1. Extract
    BY <1>2 DEF WantConfig, Heartbeat, Ignored, PacketRefused, PacketAllowed, Handles
  <2> QED BY <2>1 DEF FramingNext
<1>3. CASE HandlerGoesOn \/ RefreshBegins \/ RefreshEnds \/ RadioTake \/ UNCHANGED vars
  BY <1>3 DEF HandlerGoesOn, RefreshBegins, RefreshEnds, RadioTake, vars
<1> QED BY <1>1, <1>2, <1>3 DEF Next

(* The uplink reads the bytes of the client just as Framing says: what is  *)
(* proved about Framing holds for it.                                      *)
THEOREM ReadsFrames == Spec => FramingSpec
<1>1. Init => FramingInit
  BY DEF Init
<1> QED BY <1>1, NextIsFraming, PTL DEF Spec, FramingSpec

(* So the messages that the loop hands to _handle_to_radio are those that  *)
(* the client sent in whole frames, in order and once, whatever the chunks *)
(* and the other tasks do, and for every harmless noise.                   *)
THEOREM HandlesWhatWasSent ==
  ASSUME \A s \in Noise : Harmless(s)
  PROVE  Spec => []DecodedAsSent
BY ReadsFrames, NoiseDoesNoHarm, PTL

-----------------------------------------------------------------------------
LEMMA MessageType == Message \in ToRadio
<1>1. Unparsed \in ToRadio
  BY DEF Unparsed, ToRadio, Kind, Admin, NodeNum
<1> QED BY <1>1, UplinkAssumption DEF Message

LEMMA EchoType ==
  ASSUME NEW m \in ToRadio
  PROVE  Echo(m) \in ToRadio /\ Stripped(m) \in ToRadio
BY UplinkAssumption DEF Echo, Stripped, ToRadio

LEMMA ItemAt ==
  ASSUME NEW s \in Seq(Item), NEW i \in DOMAIN s
  PROVE  s[i] \in Item /\ s[i].no \in Nat /\ s[i].msg \in ToRadio
<1>1. s[i] \in Item
  BY ElementOfSeq
<1> QED BY <1>1 DEF Item

(* What an allowed packet satisfies, whatever else it is. *)
Policy(m) ==
  /\ m.admin # "none" => AdminAllowed(m, clientIp)
  /\ m.admin # "add_contact"
  /\ Exists("MeshPacket.public_key") => (m.from = 0 => ~m.pki)

PolicyInv ==
  /\ TypeOK
  /\ \A i \in 1..Len(queue) : Policy(queue[i].msg)
  /\ \A i \in 1..Len(radio) : Policy(radio[i].msg)

LEMMA PolicyInit == Init => PolicyInv
<1> SUFFICES ASSUME Init PROVE PolicyInv
  OBVIOUS
<1>1. /\ <<>> \in Seq(Item) /\ Len(<<>>) = 0
  BY EmptySeq
<1>2. FramingTypeOK
  BY FramingTypeInit DEF Init
<1>3. TypeOK
  <2>1. 0 <= QueueMax
    BY UplinkAssumption
  <2> QED BY <1>1, <1>2, <2>1 DEF Init, TypeOK
<1> QED BY <1>1, <1>3 DEF Init, PolicyInv

(* Every step keeps the types and the policy.                              *)
LEMMA PolicyStep ==
  ASSUME PolicyInv, [Next]_vars
  PROVE  PolicyInv'
<1>1. FramingTypeOK' /\ TypeOK
  BY NextIsFraming, FramingTypeStep DEF PolicyInv, TypeOK
<1>2. ASSUME UNCHANGED <<clientIp, radioVars>>, configSent' \in BOOLEAN, refreshing' \in BOOLEAN,
             waiting' \in {"none", "replay", "answer"}
      PROVE  PolicyInv'
  BY <1>1, <1>2 DEF PolicyInv, TypeOK, radioVars, Policy
<1>3. CASE Bytes \/ WantConfig \/ Heartbeat \/ Ignored \/ HandlerGoesOn \/ RefreshBegins \/ RefreshEnds
  BY <1>1, <1>2, <1>3 DEF TypeOK, Bytes, WantConfig, Heartbeat, Ignored, HandlerGoesOn,
       RefreshBegins, RefreshEnds, Handles, sessionVars
<1>4. CASE PacketRefused
  BY <1>1, <1>2, <1>4 DEF TypeOK, PacketRefused, Handles
<1>5. CASE PacketAllowed
  <2>1. PICK m \in ToRadio, e \in ToRadio : m = Stripped(Message) /\ e = Echo(Message)
    BY MessageType, EchoType
  <2>2. /\ m.admin = Message.admin /\ m.from = Message.from /\ m.to = Message.to
        /\ Exists("MeshPacket.public_key") => (m.from = 0 => ~m.pki)
    BY <2>1, MessageType DEF Stripped, ToRadio
  <2>3. /\ Message.admin # "none" => AdminAllowed(Message, clientIp)
        /\ Message.admin # "add_contact"
    BY <1>5 DEF PacketAllowed, Route
  <2> DEFINE item == [no |-> admitted + 1, msg |-> m]
  <2>4. /\ admitted' = admitted + 1
        /\ UNCHANGED <<clientIp, configSent, refreshing, waiting, radio>>
        /\ \/ echoed' = Append(echoed, [no |-> admitted + 1, msg |-> e]) /\ UNCHANGED silent
           \/ silent' = silent \cup {admitted + 1} /\ UNCHANGED echoed
        /\ Enqueue(item)
    BY <1>5, <2>1 DEF PacketAllowed, Handles
  <2>5. Policy(m)' /\ \A p \in ToRadio : Policy(p) => Policy(p)'
    BY <2>2, <2>3, <2>4 DEF Policy, AdminAllowed, SelfAddressed
  <2>6. item \in Item /\ item.msg = m /\ item.no \in Nat
    BY <1>1 DEF TypeOK, Item
  <2> HIDE DEF item
  <2>7. admitted' \in Nat /\ echoed' \in Seq(Item) /\ silent' \subseteq Nat
    <3>1. admitted + 1 \in Nat /\ [no |-> admitted + 1, msg |-> e] \in Item
      BY <1>1 DEF TypeOK, Item
    <3>2. CASE echoed' = Append(echoed, [no |-> admitted + 1, msg |-> e]) /\ UNCHANGED silent
      BY <1>1, <2>4, <3>1, <3>2, AppendProperties DEF TypeOK
    <3>3. CASE silent' = silent \cup {admitted + 1} /\ UNCHANGED echoed
      BY <1>1, <2>4, <3>1, <3>3 DEF TypeOK
    <3> QED BY <2>4, <3>2, <3>3
  <2>8. \A i \in 1..Len(radio) : Policy(radio[i].msg)'
    <3>1. \A i \in 1..Len(radio) : radio[i].msg \in ToRadio
      BY <1>1, ItemAt DEF TypeOK
    <3> QED BY <2>4, <2>5, <3>1 DEF PolicyInv
  <2>10. CASE Len(queue) < QueueMax
    <3>1. queue' = Append(queue, item) /\ UNCHANGED lost
      BY <2>4, <2>10 DEF Enqueue
    <3>2. /\ queue' \in Seq(Item) /\ Len(queue') = Len(queue) + 1 /\ queue'[Len(queue) + 1] = item
          /\ \A i \in 1..Len(queue) : queue'[i] = queue[i]
      BY <1>1, <2>6, <3>1, AppendProperties DEF TypeOK
    <3>3. Len(queue) \in Nat /\ Len(queue') <= QueueMax
      BY <1>1, <2>10, <3>2, UplinkAssumption DEF TypeOK
    <3>4. TypeOK'
      BY <1>1, <2>4, <2>7, <3>1, <3>2, <3>3 DEF TypeOK
    <3>5. ASSUME NEW i \in 1..Len(queue') PROVE Policy(queue[i].msg)'
      <4>1. CASE i \in 1..Len(queue)
        <5>1. queue[i].msg \in ToRadio
          BY <1>1, <4>1, ItemAt DEF TypeOK
        <5>2. Policy(queue[i].msg) /\ queue'[i] = queue[i]
          BY <3>2, <4>1 DEF PolicyInv
        <5> QED BY <2>5, <5>1, <5>2
      <4>2. CASE i = Len(queue) + 1
        BY <2>5, <2>6, <3>2, <4>2
      <4> QED BY <3>2, <3>3, <4>1, <4>2
    <3> QED BY <2>8, <2>4, <3>4, <3>5 DEF PolicyInv
  <2>11. CASE ~(Len(queue) < QueueMax)
    <3>1. lost' = lost \cup {item.no} /\ UNCHANGED queue
      BY <2>4, <2>11 DEF Enqueue
    <3>2. TypeOK'
      BY <1>1, <2>4, <2>6, <2>7, <3>1 DEF TypeOK
    <3>3. \A i \in 1..Len(queue) : Policy(queue[i].msg)'
      <4>1. \A i \in 1..Len(queue) : queue[i].msg \in ToRadio
        BY <1>1, ItemAt DEF TypeOK
      <4> QED BY <2>5, <3>1, <4>1 DEF PolicyInv
    <3> QED BY <2>4, <2>8, <3>1, <3>2, <3>3 DEF PolicyInv
  <2> QED BY <2>10, <2>11
<1>6. CASE RadioTake
  <2>1. PICK h \in Item : h = Head(queue) /\ Policy(h.msg)
    BY <1>1, <1>6 DEF RadioTake, TypeOK, PolicyInv
  <2>2. /\ queue' = Tail(queue) /\ ((radio' = Append(radio, h) /\ UNCHANGED lost)
                                   \/ (lost' = lost \cup {h.no} /\ UNCHANGED radio))
        /\ UNCHANGED <<clientIp, configSent, refreshing, waiting, admitted, echoed, silent>>
    BY <1>6, <2>1 DEF RadioTake, sessionVars
  <2>3. /\ queue' \in Seq(Item) /\ Len(queue') = Len(queue) - 1 /\ Len(queue) \in Nat
        /\ \A i \in 1..Len(queue') : queue'[i] = queue[i + 1]
    BY <1>1, <1>6, <2>2, HeadTailProperties DEF RadioTake, TypeOK
  <2>4. /\ radio' \in Seq(Item)
        /\ \A i \in 1..Len(radio') : radio'[i] = h \/ (i \in 1..Len(radio) /\ radio'[i] = radio[i])
    <3>1. radio \in Seq(Item) /\ Len(radio) \in Nat
      BY <1>1, LenProperties DEF TypeOK
    <3>2. CASE radio' = Append(radio, h)
      <4>1. /\ radio' \in Seq(Item) /\ Len(radio') = Len(radio) + 1
            /\ \A i \in 1..Len(radio) : radio'[i] = radio[i]
            /\ radio'[Len(radio) + 1] = h
        BY <3>1, <3>2, AppendProperties
      <4>2. \A i \in 1..Len(radio) + 1 : i \in 1..Len(radio) \/ i = Len(radio) + 1
        BY <3>1
      <4> QED BY <4>1, <4>2
    <3>3. CASE UNCHANGED radio
      BY <3>1, <3>3
    <3> QED BY <2>2, <3>2, <3>3
  <2>5. \A p : Policy(p)' <=> Policy(p)
    BY <2>2 DEF Policy
  <2>6. Len(queue') <= QueueMax /\ h.no \in Nat
    BY <1>1, <2>3, UplinkAssumption DEF TypeOK, Item
  <2>7. TypeOK'
    BY <1>1, <2>2, <2>3, <2>4, <2>6 DEF TypeOK
  <2>8. ASSUME NEW i \in 1..Len(queue') PROVE Policy(queue[i].msg)'
    <3>1. i + 1 \in 1..Len(queue)
      BY <2>3
    <3> QED BY <2>3, <2>5, <3>1 DEF PolicyInv
  <2>9. ASSUME NEW i \in 1..Len(radio') PROVE Policy(radio[i].msg)'
    BY <2>1, <2>4, <2>5 DEF PolicyInv
  <2> QED BY <2>7, <2>8, <2>9 DEF PolicyInv
<1>7. CASE UNCHANGED vars
  BY <1>1, <1>2, <1>7 DEF TypeOK, vars, sessionVars
<1> QED BY <1>3, <1>4, <1>5, <1>6, <1>7 DEF Next

LEMMA UplinkedType ==
  ASSUME TypeOK
  PROVE  /\ Uplinked \in Seq(Item) /\ Len(Uplinked) = Len(radio) + Len(queue)
         /\ radio \in Seq(Item) /\ queue \in Seq(Item)
         /\ Len(radio) \in Nat /\ Len(queue) \in Nat
         /\ \A i \in 1..Len(radio) + Len(queue) :
              Uplinked[i] = IF i <= Len(radio) THEN radio[i] ELSE queue[i - Len(radio)]
<1>1. radio \in Seq(Item) /\ queue \in Seq(Item) /\ Len(radio) \in Nat /\ Len(queue) \in Nat
  BY DEF TypeOK
<1> QED BY <1>1, ConcatProperties DEF Uplinked

(* The policy for the radio is what the invariant says of both parts of    *)
(* what is on its way to it.                                               *)
LEMMA PolicyOfBoth ==
  ASSUME Exists("MeshPacket.public_key")
  PROVE  PolicyInv => RadioPolicy
<1> SUFFICES ASSUME PolicyInv, NEW i \in DOMAIN Uplinked PROVE Policy(Uplinked[i].msg)
  BY DEF RadioPolicy, Policy
<1>1. TypeOK
  BY DEF PolicyInv
<1>2. i \in 1..Len(radio) + Len(queue)
  BY <1>1, UplinkedType
<1>3. CASE i <= Len(radio)
  BY <1>1, <1>2, <1>3, UplinkedType DEF PolicyInv
<1>4. CASE ~(i <= Len(radio))
  <2>1. i - Len(radio) \in 1..Len(queue)
    BY <1>1, <1>2, <1>4, UplinkedType
  <2> QED BY <1>1, <1>2, <1>4, <2>1, UplinkedType DEF PolicyInv
<1> QED BY <1>3, <1>4

(* Every variable keeps its type, and the queue its bound. *)
THEOREM TypeCorrect == Spec => []TypeOK
<1>1. PolicyInv => TypeOK
  BY DEF PolicyInv
<1> QED BY <1>1, PolicyInit, PolicyStep, PTL DEF Spec

(* Nothing gets to the radio that the policy forbids: for any addresses,   *)
(* allowlist, packets, chunks and noise, and any size of the queue, with a *)
(* meshtastic whose packets have the field that the stripping clears.      *)
THEOREM PolicyHolds ==
  ASSUME Exists("MeshPacket.public_key")
  PROVE  Spec => []RadioPolicy
BY PolicyInit, PolicyStep, PolicyOfBoth, PTL DEF Spec

-----------------------------------------------------------------------------
(* The echo and what is queued for the radio are one packet. *)
LEMMA SameMessage ==
  ASSUME NEW m \in ToRadio
  PROVE  SamePacket(Echo(m), Stripped(m))
BY UplinkAssumption DEF SamePacket, Echo, Stripped, ToRadio

(* A packet of a higher number keeps the numbers ascending.                *)
LEMMA NumbersGrow ==
  ASSUME NEW items \in Seq(Item), NEW x \in Item, Ascending(items),
         \A n \in Numbers(items) : n < x.no
  PROVE  /\ Ascending(Append(items, x))
         /\ Numbers(Append(items, x)) = Numbers(items) \cup {x.no}
<1> DEFINE more == Append(items, x)
<1>1. /\ Len(items) \in Nat /\ DOMAIN items = 1..Len(items) /\ DOMAIN more = 1..Len(items) + 1
      /\ \A i \in 1..Len(items) : more[i] = items[i]
      /\ more[Len(items) + 1] = x
  BY AppendProperties
<1>2. \A i \in 1..Len(items) + 1 : i \in 1..Len(items) \/ i = Len(items) + 1
  BY <1>1
<1> HIDE DEF more
<1>3. ASSUME NEW i \in DOMAIN more, NEW j \in DOMAIN more, i < j PROVE more[i].no < more[j].no
  <2>1. i \in 1..Len(items)
    BY <1>1, <1>3
  <2>2. CASE j \in 1..Len(items)
    BY <1>1, <1>3, <2>1, <2>2 DEF Ascending
  <2>3. CASE j = Len(items) + 1
    BY <1>1, <2>1, <2>3 DEF Numbers
  <2> QED BY <1>1, <1>2, <2>2, <2>3
<1>4. Ascending(more)
  BY <1>3 DEF Ascending
<1>5. Numbers(more) = Numbers(items) \cup {x.no}
  <2>1. ASSUME NEW n \in Numbers(more) PROVE n \in Numbers(items) \cup {x.no}
    <3>1. PICK i \in DOMAIN more : n = more[i].no
      BY <2>1 DEF Numbers
    <3> QED BY <1>1, <1>2, <3>1 DEF Numbers
  <2>2. ASSUME NEW n \in Numbers(items) PROVE n \in Numbers(more)
    <3>1. PICK i \in DOMAIN items : n = items[i].no
      BY <2>2 DEF Numbers
    <3>2. i \in DOMAIN more /\ more[i].no = n
      BY <1>1, <3>1
    <3> QED BY <3>2 DEF Numbers
  <2>3. x.no \in Numbers(more)
    <3>1. Len(items) + 1 \in DOMAIN more
      BY <1>1
    <3> QED BY <1>1, <3>1 DEF Numbers
  <2> QED BY <2>1, <2>2, <2>3
<1> QED BY <1>4, <1>5 DEF more

(* Without its element k + 1, the numbers ascend and only that one is      *)
(* missing.                                                                *)
LEMMA NumbersShrink ==
  ASSUME NEW items \in Seq(Item), NEW rest \in Seq(Item), NEW k \in Nat,
         Ascending(items), k < Len(items), Len(rest) = Len(items) - 1,
         \A i \in 1..Len(rest) : rest[i] = IF i <= k THEN items[i] ELSE items[i + 1]
  PROVE  /\ Ascending(rest)
         /\ Numbers(items) = Numbers(rest) \cup {items[k + 1].no}
         /\ items[k + 1].no \notin Numbers(rest)
         /\ \A i \in DOMAIN rest : \E j \in DOMAIN items : rest[i] = items[j]
<1> DEFINE Old(i) == IF i <= k THEN i ELSE i + 1
<1>1. /\ Len(items) \in Nat /\ Len(rest) \in Nat
      /\ DOMAIN items = 1..Len(items) /\ DOMAIN rest = 1..Len(rest) /\ k + 1 \in DOMAIN items
  OBVIOUS
<1>2. ASSUME NEW i \in DOMAIN rest
      PROVE  Old(i) \in DOMAIN items /\ Old(i) # k + 1 /\ rest[i] = items[Old(i)]
  BY <1>1
<1>3. \A i, j \in DOMAIN rest : i < j => Old(i) < Old(j)
  BY <1>1
<1> HIDE DEF Old
<1>4. Ascending(rest)
  BY <1>2, <1>3 DEF Ascending
<1>5. \A i, j \in DOMAIN items : i # j => items[i].no # items[j].no
  <2> SUFFICES ASSUME NEW i \in DOMAIN items, NEW j \in DOMAIN items, i # j
               PROVE  items[i].no # items[j].no
    OBVIOUS
  <2>1. i < j \/ j < i
    BY <1>1
  <2>2. items[i].no \in Nat /\ items[j].no \in Nat
    BY ItemAt
  <2>3. items[i].no < items[j].no \/ items[j].no < items[i].no
    BY <2>1 DEF Ascending
  <2> QED BY <2>2, <2>3
<1>6. items[k + 1].no \notin Numbers(rest)
  BY <1>1, <1>2, <1>5 DEF Numbers
<1>7. ASSUME NEW j \in DOMAIN items, j # k + 1 PROVE \E i \in DOMAIN rest : rest[i] = items[j]
  <2>1. CASE j <= k
    <3>1. j \in DOMAIN rest /\ rest[j] = items[j]
      BY <1>1, <2>1
    <3> QED BY <3>1
  <2>2. CASE j > k + 1
    <3>1. j - 1 \in DOMAIN rest /\ ~(j - 1 <= k) /\ j - 1 + 1 = j
      BY <1>1, <2>2
    <3>2. rest[j - 1] = items[j]
      BY <1>1, <3>1
    <3> QED BY <3>1, <3>2
  <2> QED BY <1>1, <1>7, <2>1, <2>2
<1>8. Numbers(items) = Numbers(rest) \cup {items[k + 1].no}
  <2>1. ASSUME NEW j \in DOMAIN items, j # k + 1 PROVE items[j].no \in Numbers(rest)
    BY <1>7, <2>1 DEF Numbers
  <2>2. ASSUME NEW i \in DOMAIN rest PROVE rest[i].no \in Numbers(items)
    BY <1>2 DEF Numbers
  <2>3. items[k + 1].no \in Numbers(items)
    BY <1>1 DEF Numbers
  <2>4. \A n \in Numbers(items) : n \in Numbers(rest) \cup {items[k + 1].no}
    BY <2>1 DEF Numbers
  <2>5. \A n \in Numbers(rest) : n \in Numbers(items)
    BY <2>2 DEF Numbers
  <2> QED BY <2>3, <2>4, <2>5
<1> QED BY <1>2, <1>4, <1>6, <1>8

(* Every step keeps the account: what leaves echoed and Uplinked alone     *)
(* does, an allowed packet gets the next number in both, and the radio     *)
(* takes the first of the queue or loses it.                               *)
LEMMA EchoStep ==
  ASSUME TypeOK, TypeOK', EchoMatchesRadio, [Next]_vars
  PROVE  EchoMatchesRadio'
<1>1. /\ radio \in Seq(Item) /\ queue \in Seq(Item) /\ echoed \in Seq(Item)
      /\ radio' \in Seq(Item) /\ queue' \in Seq(Item) /\ echoed' \in Seq(Item)
      /\ admitted \in Nat
  BY DEF TypeOK
<1>2. /\ Uplinked \in Seq(Item) /\ Len(Uplinked) = Len(radio) + Len(queue)
      /\ Len(radio) \in Nat /\ Len(queue) \in Nat
      /\ \A i \in 1..Len(radio) + Len(queue) :
           Uplinked[i] = IF i <= Len(radio) THEN radio[i] ELSE queue[i - Len(radio)]
  BY UplinkedType
<1>3. /\ Uplinked' \in Seq(Item) /\ Len(Uplinked') = Len(radio') + Len(queue')
      /\ Len(radio') \in Nat /\ Len(queue') \in Nat
      /\ \A i \in 1..Len(radio') + Len(queue') :
           Uplinked'[i] = IF i <= Len(radio') THEN radio'[i] ELSE queue'[i - Len(radio')]
  BY <1>1, ConcatProperties DEF Uplinked
<1>4. ASSUME UNCHANGED <<Uplinked, echoed, admitted, silent, lost>> PROVE EchoMatchesRadio'
  BY <1>4 DEF EchoMatchesRadio
<1>5. ASSUME UNCHANGED radioVars PROVE EchoMatchesRadio'
  BY <1>4, <1>5 DEF radioVars, Uplinked
<1>6. CASE \/ Bytes \/ WantConfig \/ Heartbeat \/ Ignored \/ PacketRefused \/ HandlerGoesOn
           \/ RefreshBegins \/ RefreshEnds \/ UNCHANGED vars
  BY <1>5, <1>6 DEF Bytes, WantConfig, Heartbeat, Ignored, PacketRefused, HandlerGoesOn,
       RefreshBegins, RefreshEnds, vars
<1>7. CASE PacketAllowed
  <2>1. PICK m \in ToRadio, e \in ToRadio : m = Stripped(Message) /\ e = Echo(Message)
    BY MessageType, EchoType
  <2>2. SamePacket(e, m)
    BY <2>1, MessageType, SameMessage
  <2> DEFINE n == admitted + 1
  <2> DEFINE item == [no |-> n, msg |-> m]
  <2> DEFINE shown == [no |-> n, msg |-> e]
  <2>3. /\ admitted' = n /\ UNCHANGED radio /\ Enqueue(item)
        /\ \/ echoed' = Append(echoed, shown) /\ UNCHANGED silent
           \/ silent' = silent \cup {n} /\ UNCHANGED echoed
    BY <1>7, <2>1 DEF PacketAllowed
  <2>4. /\ item \in Item /\ item.no = n /\ item.msg = m
        /\ shown \in Item /\ shown.no = n /\ shown.msg = e
    BY <1>1 DEF Item
  <2>5. n \in Nat /\ n \notin 1..admitted /\ 1..n = (1..admitted) \cup {n} /\ \A k \in 1..admitted : k < n
    BY <1>1
  <2> HIDE DEF n, item, shown
  <2>6. /\ \/ Uplinked' = Append(Uplinked, item) /\ UNCHANGED lost
           \/ UNCHANGED Uplinked /\ lost' = lost \cup {n}
    <3>1. CASE Len(queue) < QueueMax
      <4>1. queue' = Append(queue, item) /\ UNCHANGED lost
        BY <2>3, <3>1 DEF Enqueue
      <4>2. radio \o Append(queue, item) = Append(radio \o queue, item)
        BY <1>1, <2>4
      <4> QED BY <2>3, <4>1, <4>2 DEF Uplinked
    <3>2. CASE ~(Len(queue) < QueueMax)
      <4>1. lost' = lost \cup {item.no} /\ UNCHANGED queue
        BY <2>3, <3>2 DEF Enqueue
      <4> QED BY <2>3, <2>4, <4>1 DEF Uplinked
    <3> QED BY <3>1, <3>2
  <2>7. /\ \A k \in Numbers(Uplinked) \cup lost : k \in 1..admitted
        /\ \A k \in Numbers(echoed) \cup silent : k \in 1..admitted
    BY DEF EchoMatchesRadio
  <2>8. /\ Ascending(Uplinked')
        /\ Numbers(Uplinked') \cup lost' = 1..n /\ Numbers(Uplinked') \cap lost' = {}
    <3>1. CASE Uplinked' = Append(Uplinked, item) /\ UNCHANGED lost
      <4>1. Ascending(Uplinked') /\ Numbers(Uplinked') = Numbers(Uplinked) \cup {n}
        BY <1>2, <2>4, <2>5, <2>7, <3>1, NumbersGrow DEF EchoMatchesRadio
      <4> QED BY <2>5, <2>7, <3>1, <4>1 DEF EchoMatchesRadio
    <3>2. CASE UNCHANGED Uplinked /\ lost' = lost \cup {n}
      BY <2>5, <2>7, <3>2 DEF EchoMatchesRadio
    <3> QED BY <2>6, <3>1, <3>2
  <2>9. /\ Ascending(echoed')
        /\ Numbers(echoed') \cup silent' = 1..n /\ Numbers(echoed') \cap silent' = {}
    <3>1. CASE echoed' = Append(echoed, shown) /\ UNCHANGED silent
      <4>1. Ascending(echoed') /\ Numbers(echoed') = Numbers(echoed) \cup {n}
        BY <1>1, <2>4, <2>5, <2>7, <3>1, NumbersGrow DEF EchoMatchesRadio
      <4> QED BY <2>5, <2>7, <3>1, <4>1 DEF EchoMatchesRadio
    <3>2. CASE silent' = silent \cup {n} /\ UNCHANGED echoed
      BY <2>5, <2>7, <3>2 DEF EchoMatchesRadio
    <3> QED BY <2>3, <3>1, <3>2
  <2>10. ASSUME NEW i \in DOMAIN Uplinked', NEW j \in DOMAIN echoed', Uplinked'[i].no = echoed'[j].no
         PROVE  SamePacket(echoed'[j].msg, Uplinked'[i].msg)
    <3>1. \/ Uplinked'[i] = item
          \/ i \in DOMAIN Uplinked /\ Uplinked'[i] = Uplinked[i] /\ Uplinked[i].no \in 1..admitted
      <4>1. \A k \in DOMAIN Uplinked : Uplinked[k].no \in 1..admitted
        BY <2>7 DEF Numbers
      <4>2. CASE Uplinked' = Append(Uplinked, item)
        <5>1. Uplinked \in Seq(Item) /\ Len(Uplinked) \in Nat /\ DOMAIN Uplinked = 1..Len(Uplinked)
          BY <1>2
        <5>2. /\ DOMAIN Uplinked' = 1..Len(Uplinked) + 1 /\ Uplinked'[Len(Uplinked) + 1] = item
              /\ \A k \in 1..Len(Uplinked) : Uplinked'[k] = Uplinked[k]
          BY <2>4, <4>2, <5>1, AppendProperties
        <5>3. i \in 1..Len(Uplinked) \/ i = Len(Uplinked) + 1
          BY <5>1, <5>2
        <5> QED BY <4>1, <5>1, <5>2, <5>3
      <4> QED BY <2>6, <4>1, <4>2
    <3>2. \/ echoed'[j] = shown
          \/ j \in DOMAIN echoed /\ echoed'[j] = echoed[j] /\ echoed[j].no \in 1..admitted
      <4>1. \A k \in DOMAIN echoed : echoed[k].no \in 1..admitted
        BY <2>7 DEF Numbers
      <4>2. CASE echoed' = Append(echoed, shown)
        <5>1. echoed \in Seq(Item) /\ Len(echoed) \in Nat /\ DOMAIN echoed = 1..Len(echoed)
          BY <1>1
        <5>2. /\ DOMAIN echoed' = 1..Len(echoed) + 1 /\ echoed'[Len(echoed) + 1] = shown
              /\ \A k \in 1..Len(echoed) : echoed'[k] = echoed[k]
          BY <2>4, <4>2, <5>1, AppendProperties
        <5>3. j \in 1..Len(echoed) \/ j = Len(echoed) + 1
          BY <5>1, <5>2
        <5> QED BY <4>1, <5>1, <5>2, <5>3
      <4> QED BY <2>3, <4>1, <4>2
    <3> QED BY <2>2, <2>4, <2>5, <2>10, <3>1, <3>2 DEF EchoMatchesRadio
  <2> QED BY <2>3, <2>8, <2>9, <2>10 DEF EchoMatchesRadio
<1>8. CASE RadioTake
  <2>1. /\ UNCHANGED <<admitted, echoed, silent>> /\ queue' = Tail(queue) /\ queue # <<>>
        /\ \/ radio' = Append(radio, Head(queue)) /\ UNCHANGED lost
           \/ lost' = lost \cup {Head(queue).no} /\ UNCHANGED radio
    BY <1>8 DEF RadioTake
  <2>2. /\ Len(queue') = Len(queue) - 1 /\ Len(queue) > 0 /\ Head(queue) = queue[1]
        /\ Head(queue) \in Item /\ \A i \in 1..Len(queue') : queue'[i] = queue[i + 1]
    BY <1>1, <2>1, HeadTailProperties
  <2>3. CASE radio' = Append(radio, Head(queue)) /\ UNCHANGED lost
    <3>1. /\ Len(radio') = Len(radio) + 1 /\ radio'[Len(radio) + 1] = queue[1]
          /\ \A i \in 1..Len(radio) : radio'[i] = radio[i]
      BY <1>1, <2>2, <2>3, AppendProperties
    <3>2. ASSUME NEW i \in 1..Len(radio) + Len(queue) PROVE Uplinked'[i] = Uplinked[i]
      <4>1. CASE i <= Len(radio)
        <5>1. i \in 1..Len(radio) /\ i <= Len(radio') /\ i \in 1..Len(radio') + Len(queue')
          BY <1>2, <2>2, <3>1, <4>1
        <5>2. Uplinked'[i] = radio'[i] /\ Uplinked[i] = radio[i]
          BY <1>2, <1>3, <4>1, <5>1
        <5> QED BY <3>1, <5>1, <5>2
      <4>2. CASE i = Len(radio) + 1
        <5>1. i \in 1..Len(radio') + Len(queue') /\ i <= Len(radio') /\ ~(i <= Len(radio)) /\ i - Len(radio) = 1
          BY <1>2, <2>2, <3>1, <4>2
        <5>2. Uplinked'[i] = radio'[i] /\ Uplinked[i] = queue[1]
          BY <1>2, <1>3, <5>1
        <5> QED BY <3>1, <4>2, <5>2
      <4>3. CASE i > Len(radio) + 1
        <5>1. /\ i \in 1..Len(radio') + Len(queue') /\ ~(i <= Len(radio')) /\ ~(i <= Len(radio))
              /\ i - Len(radio') \in 1..Len(queue') /\ i - Len(radio') + 1 = i - Len(radio)
          BY <1>2, <2>2, <3>1, <4>3
        <5>2. Uplinked'[i] = queue'[i - Len(radio')] /\ Uplinked[i] = queue[i - Len(radio)]
          BY <1>2, <1>3, <5>1
        <5>3. queue'[i - Len(radio')] = queue[i - Len(radio') + 1]
          BY <2>2, <5>1
        <5> QED BY <5>1, <5>2, <5>3
      <4> QED BY <1>2, <4>1, <4>2, <4>3
    <3>3. Uplinked' = Uplinked
      <4>1. Len(Uplinked') = Len(Uplinked)
        BY <1>2, <1>3, <2>2, <3>1
      <4> QED BY <1>2, <1>3, <3>2, <4>1, SeqEqual
    <3> QED BY <1>4, <2>1, <2>3, <3>3
  <2>4. CASE lost' = lost \cup {Head(queue).no} /\ UNCHANGED radio
    <3>1. Len(Uplinked') = Len(Uplinked) - 1
      BY <1>2, <1>3, <2>2, <2>4
    <3>2. ASSUME NEW i \in 1..Len(Uplinked')
          PROVE  Uplinked'[i] = IF i <= Len(radio) THEN Uplinked[i] ELSE Uplinked[i + 1]
      <4>1. CASE i <= Len(radio)
        <5>1. i \in 1..Len(radio) + Len(queue) /\ i \in 1..Len(radio') + Len(queue')
          BY <1>2, <1>3, <2>2, <3>1
        <5> QED BY <1>2, <1>3, <2>4, <4>1, <5>1
      <4>2. CASE ~(i <= Len(radio))
        <5>1. /\ i + 1 \in 1..Len(radio) + Len(queue) /\ i \in 1..Len(radio') + Len(queue')
              /\ i - Len(radio) \in 1..Len(queue') /\ i + 1 - Len(radio) = i - Len(radio) + 1
              /\ ~(i + 1 <= Len(radio))
          BY <1>2, <1>3, <2>2, <2>4, <3>1, <4>2
        <5>2. Uplinked'[i] = queue'[i - Len(radio)]
          BY <1>3, <2>4, <4>2, <5>1
        <5>3. Uplinked[i + 1] = queue[i + 1 - Len(radio)]
          BY <1>2, <5>1
        <5> QED BY <2>2, <4>2, <5>1, <5>2, <5>3
      <4> QED BY <4>1, <4>2
    <3>3. Len(radio) < Len(Uplinked) /\ Uplinked[Len(radio) + 1] = Head(queue)
      <4>1. /\ Len(radio) + 1 \in 1..Len(radio) + Len(queue) /\ ~(Len(radio) + 1 <= Len(radio))
            /\ Len(radio) + 1 - Len(radio) = 1
        BY <1>2, <2>2
      <4> QED BY <1>2, <2>2, <4>1
    <3>4. /\ Ascending(Uplinked')
          /\ Numbers(Uplinked) = Numbers(Uplinked') \cup {Head(queue).no}
          /\ Head(queue).no \notin Numbers(Uplinked')
          /\ \A i \in DOMAIN Uplinked' : \E j \in DOMAIN Uplinked : Uplinked'[i] = Uplinked[j]
      <4> DEFINE k == Len(radio)
      <4> DEFINE rest == Uplinked'
      <4>1. /\ rest \in Seq(Item) /\ k \in Nat /\ k < Len(Uplinked) /\ Len(rest) = Len(Uplinked) - 1
            /\ Uplinked \in Seq(Item) /\ Uplinked[k + 1] = Head(queue) /\ Ascending(Uplinked)
        BY <1>2, <1>3, <3>1, <3>3 DEF EchoMatchesRadio
      <4>2. \A i \in 1..Len(rest) : rest[i] = IF i <= k THEN Uplinked[i] ELSE Uplinked[i + 1]
        BY <3>2
      <4> HIDE DEF k, rest
      <4>3. /\ Ascending(rest)
            /\ Numbers(Uplinked) = Numbers(rest) \cup {Uplinked[k + 1].no}
            /\ Uplinked[k + 1].no \notin Numbers(rest)
            /\ \A i \in DOMAIN rest : \E j \in DOMAIN Uplinked : rest[i] = Uplinked[j]
        BY <4>1, <4>2, NumbersShrink
      <4> QED BY <4>1, <4>3 DEF rest
    <3>5. /\ Numbers(Uplinked') \cup lost' = 1..admitted
          /\ Numbers(Uplinked') \cap lost' = {}
      BY <2>4, <3>4 DEF EchoMatchesRadio
    <3>6. \A i \in DOMAIN Uplinked', j \in DOMAIN echoed :
            Uplinked'[i].no = echoed[j].no => SamePacket(echoed[j].msg, Uplinked'[i].msg)
      BY <3>4 DEF EchoMatchesRadio
    <3> QED BY <2>1, <3>4, <3>5, <3>6 DEF EchoMatchesRadio
  <2> QED BY <2>1, <2>3, <2>4
<1> QED BY <1>6, <1>7, <1>8 DEF Next

(* The radio gets and the clients are shown the packets let through, in    *)
(* order, once and unchanged; each loss and each missing echo is one that  *)
(* the code logs: for any packets, policy, chunks and noise, and any size  *)
(* of the queue.                                                           *)
THEOREM EchoesMatch == Spec => []EchoMatchesRadio
<1>1. Init => EchoMatchesRadio
  <2> SUFFICES ASSUME Init PROVE EchoMatchesRadio
    OBVIOUS
  <2>1. radio = <<>> /\ queue = <<>> /\ echoed = <<>> /\ admitted = 0 /\ silent = {} /\ lost = {}
    BY DEF Init
  <2>2. Uplinked = <<>> /\ DOMAIN <<>> = {} /\ 1..0 = {}
    BY <2>1, EmptySeq DEF Uplinked
  <2>3. Numbers(<<>>) = {} /\ Ascending(<<>>)
    BY <2>2 DEF Numbers, Ascending
  <2> QED BY <2>1, <2>2, <2>3 DEF EchoMatchesRadio
<1>2. TypeOK /\ TypeOK' /\ EchoMatchesRadio /\ [Next]_vars => EchoMatchesRadio'
  BY EchoStep
<1> QED BY <1>1, <1>2, TypeCorrect, PTL DEF Spec
==============================================================================
