------------------------- MODULE MessageQueueProofs -------------------------
(***************************************************************************)
(* Proofs about MessageQueue, for any set of tasks and any bound.          *)
(* SingleFlight is inductive together with TypeOK and EndInv: a task that  *)
(* finds another one processing may end because the flag means that the    *)
(* other one is alive, and the flag means this because no two tasks are    *)
(* ever past it.                                                           *)
(***************************************************************************)
EXTENDS MessageQueue, TLAPS

(* The types hold at first, and every step keeps them. *)
LEMMA InitType == Init => TypeOK
<1>1. <<>> \in Seq(1..OfferMax) /\ Len(<<>>) <= QueueMax /\ 0 \in 0..OfferMax
  BY QueueAssumption
<1> QED BY <1>1 DEF Init, TypeOK, PC

LEMMA StepType == TypeOK /\ [Next]_vars => TypeOK'
<1> SUFFICES ASSUME TypeOK, [Next]_vars PROVE TypeOK'
  OBVIOUS
<1> USE QueueAssumption DEF TypeOK, PC, endVars
<1>1. ASSUME NEW t \in Task, Loop(t), UNCHANGED <<linkUp, endVars, offered>> PROVE TypeOK'
  <2>1. CASE queue = <<>>
    BY <1>1, <2>1 DEF Loop
  <2>2. CASE queue # <<>>
    <3>1. Head(queue) \in 1..OfferMax /\ Tail(queue) \in Seq(1..OfferMax)
          /\ Len(Tail(queue)) <= QueueMax
      BY <2>2
    <3>2. handled' \in Seq(1..OfferMax)
      <4>1. handled' = Append(handled, Head(queue))
        BY <1>1, <2>2 DEF Loop
      <4>2. Append(handled, Head(queue)) \in Seq(1..OfferMax)
        BY <3>1
      <4> QED BY <4>1, <4>2
    <3>3. pc' \in [Task -> PC]
      BY <1>1, <2>2 DEF Loop
    <3> QED BY <1>1, <2>2, <3>1, <3>2, <3>3 DEF Loop
  <2> QED BY <2>1, <2>2
<1>2. CASE Enqueue
  <2>1. queue' \in Seq(1..OfferMax) /\ Len(queue') <= QueueMax
    BY <1>2 DEF Enqueue
  <2>2. pc' \in [Task -> PC]
    BY <1>2 DEF Enqueue, Spawn
  <2> QED BY <1>2, <2>1, <2>2 DEF Enqueue
<1>3. CASE EnqueueFull
  BY <1>3 DEF EnqueueFull
<1>4. CASE LinkUp \/ LinkDown \/ RunEnds
  BY <1>4 DEF LinkUp, LinkDown, RunEnds
<1>5. ASSUME NEW t \in Task, Start(t) PROVE TypeOK'
  BY <1>1, <1>5 DEF Start
<1>6. ASSUME NEW t \in Task, Drained(t) PROVE TypeOK'
  BY <1>6 DEF Drained
<1>7. ASSUME NEW t \in Task, Awake(t) PROVE TypeOK'
  BY <1>1, <1>7 DEF Awake
<1>8. ASSUME NEW t \in Task, Cancel(t) \/ CancelUnstarted(t) PROVE TypeOK'
  BY <1>8 DEF Cancel, CancelUnstarted, Spawn
<1>9. CASE UNCHANGED vars
  BY <1>9 DEF vars
<1> QED BY <1>2, <1>3, <1>4, <1>5, <1>6, <1>7, <1>8, <1>9 DEF Next

(* Every variable of the queue keeps its type, and the queue its bound. *)
THEOREM TypeCorrect == Spec => []TypeOK
BY InitType, StepType, PTL DEF Spec

-----------------------------------------------------------------------------
(* A task that will look at the queue: one past the flag, though it may    *)
(* have been cancelled, or one that will have its first step.              *)
Takes(t) == Working(t) \/ (pc[t] = "spawned" /\ t \notin cancelled)

(* NoStranded is not inductive: while tasks are being cancelled, one that  *)
(* is there need not be one that will take the message.                    *)
EndInv ==
  /\ \A t \in cancelled : pc[t] # "none"
  /\ ~ending => cancelled = {}
  /\ queue # <<>> => cutShort \/ \E t \in Task : Takes(t)

QueueInv == TypeOK /\ SingleFlight /\ EndInv

LEMMA KeptIsNotStranded == QueueInv => NoStranded
BY DEF QueueInv, EndInv, NoStranded, Takes, Working

(* What one turn of the loop does to the tasks, when t is the only task    *)
(* that may be working: t alone works afterwards, or nobody does.          *)
LEMMA LoopTasks ==
  ASSUME QueueInv, NEW t \in Task, Loop(t), UNCHANGED endVars, t \notin cancelled,
         \A u \in Task : Working(u) => u = t
  PROVE  SingleFlight' /\ EndInv'
<1>1. /\ \A u \in cancelled : u \in Task /\ pc[u] # "none"
      /\ UNCHANGED <<cancelled, ending, cutShort>>
  BY DEF QueueInv, EndInv, TypeOK, endVars
<1>2. pc \in [Task -> PC]
  BY DEF QueueInv, TypeOK
<1>3. \A u \in Task : u # t => pc'[u] = pc[u]
  BY <1>2 DEF Loop
<1>4. \A u \in cancelled' : pc'[u] # "none"
  BY <1>1, <1>3
<1>5. CASE queue = <<>>
  <2>1. \A u \in Task : ~Working(u)'
    BY <1>2, <1>5 DEF Loop, Working
  <2> QED BY <1>1, <1>4, <1>5, <2>1 DEF Loop, SingleFlight, EndInv, QueueInv
<1>6. CASE queue # <<>>
  <2>1. Working(t)' /\ \A u \in Task : Working(u)' => u = t
    BY <1>2, <1>6 DEF Loop, Working
  <2>2. Takes(t)'
    BY <2>1 DEF Takes
  <2> QED BY <1>1, <1>4, <1>6, <2>1, <2>2 DEF Loop, SingleFlight, EndInv, QueueInv
<1> QED BY <1>5, <1>6

(* A step that leaves the tasks past the flag as they are, and of the      *)
(* others at most takes or gives one that is told apart, keeps one flight. *)
LEMMA SameFlight ==
  ASSUME SingleFlight, UNCHANGED processing, \A u \in Task : Working(u)' <=> Working(u)
  PROVE  SingleFlight'
BY DEF SingleFlight

(* Every step keeps one task past the flag, and one that takes what waits. *)
LEMMA InvStep == QueueInv /\ [Next]_vars => SingleFlight' /\ EndInv'
<1> SUFFICES ASSUME QueueInv, [Next]_vars
             PROVE  SingleFlight' /\ EndInv'
  OBVIOUS
<1>0. /\ pc \in [Task -> PC] /\ cancelled \in SUBSET Task /\ SingleFlight
      /\ \A t \in cancelled : pc[t] # "none"
      /\ ~ending => cancelled = {}
      /\ queue # <<>> => cutShort \/ \E t \in Task : Takes(t)
  BY DEF QueueInv, EndInv, TypeOK
<1>1. CASE Enqueue
  <2>0. UNCHANGED <<processing, cancelled, ending, cutShort>>
    BY <1>1 DEF Enqueue, endVars
  <2>1. CASE processing
    <3>1. PICK t \in Task : Working(t)
      BY <1>0, <2>1 DEF SingleFlight
    <3>2. pc' = pc
      BY <1>1, <2>1 DEF Enqueue
    <3>3. Takes(t)'
      BY <3>1, <3>2 DEF Takes, Working
    <3> QED BY <1>0, <2>0, <3>2, <3>3 DEF SingleFlight, EndInv, Working
  <2>2. CASE ~processing
    <3>1. PICK t \in Task : Spawn(pc, t)
      BY <1>1, <2>2 DEF Enqueue
    <3>2. pc[t] = "none" /\ pc'[t] = "spawned" /\ \A u \in Task : u # t => pc'[u] = pc[u]
      BY <1>0, <3>1 DEF Spawn
    <3>3. \A u \in Task : Working(u)' <=> Working(u)
      BY <3>2 DEF Working
    <3>4. Takes(t)'
      BY <1>0, <2>0, <3>2 DEF Takes
    <3>5. \A u \in cancelled' : pc'[u] # "none"
      BY <1>0, <2>0, <3>2
    <3> QED BY <1>0, <2>0, <3>3, <3>4, <3>5, SameFlight DEF EndInv
  <2> QED BY <2>1, <2>2
<1>2. CASE EnqueueFull \/ LinkUp \/ LinkDown \/ UNCHANGED vars
  <2>1. UNCHANGED <<queue, processing, pc, ending, cancelled, cutShort>>
    BY <1>2 DEF EnqueueFull, LinkUp, LinkDown, vars, endVars
  <2> QED BY <1>0, <2>1 DEF SingleFlight, EndInv, Working, Takes
<1>3. CASE RunEnds
  <2>1. /\ UNCHANGED <<queue, processing, pc>> /\ ending'
        /\ cancelled' = {t \in Task : pc[t] # "none"} /\ cutShort' = ~processing
    BY <1>3 DEF RunEnds
  <2>2. ~cutShort' => \E t \in Task : Takes(t)'
    BY <1>0, <2>1 DEF SingleFlight, Takes, Working
  <2> QED BY <1>0, <2>1, <2>2 DEF SingleFlight, EndInv, Working
<1>4. ASSUME NEW t \in Task, Start(t) PROVE SingleFlight' /\ EndInv'
  <2>0. t \notin cancelled /\ pc[t] = "spawned" /\ UNCHANGED endVars
    BY <1>4 DEF Start
  <2>1. CASE ~processing
    <3>1. \A u \in Task : Working(u) => u = t
      BY <1>0, <2>1 DEF SingleFlight
    <3> QED BY <1>4, <2>0, <2>1, <3>1, LoopTasks DEF Start
  <2>2. CASE processing
    <3>1. PICK w \in Task : Working(w)
      BY <1>0, <2>2 DEF SingleFlight
    <3>2. /\ UNCHANGED <<queue, processing, ending, cancelled, cutShort>>
          /\ pc' = [pc EXCEPT ![t] = "none"]
      BY <1>4, <2>2 DEF Start, endVars
    <3>3. \A u \in Task : Working(u)' <=> Working(u)
      BY <1>0, <2>0, <3>2 DEF Working
    <3>4. Takes(w)'
      BY <3>1, <3>3 DEF Takes
    <3>5. \A u \in cancelled' : pc'[u] # "none"
      BY <1>0, <2>0, <3>2
    <3> QED BY <1>0, <3>2, <3>3, <3>4, <3>5, SameFlight DEF EndInv
  <2> QED BY <2>1, <2>2
<1>5. ASSUME NEW t \in Task, Drained(t) PROVE SingleFlight' /\ EndInv'
  <2>1. /\ pc[t] = "draining" /\ pc' = [pc EXCEPT ![t] = "sleeping"]
        /\ UNCHANGED <<queue, processing, ending, cancelled, cutShort>>
    BY <1>5 DEF Drained, endVars
  <2>2. \A u \in Task : (Working(u)' <=> Working(u)) /\ (pc[u] # "none" => pc'[u] # "none")
    BY <1>0, <2>1 DEF Working
  <2>3. \A u \in Task : Takes(u) => Takes(u)'
    BY <1>0, <2>1, <2>2 DEF Takes
  <2> QED BY <1>0, <2>1, <2>2, <2>3, SameFlight DEF EndInv
<1>6. ASSUME NEW t \in Task, Awake(t) PROVE SingleFlight' /\ EndInv'
  <2>1. /\ t \notin cancelled /\ UNCHANGED endVars /\ Loop(t)
        /\ \A u \in Task : Working(u) => u = t
    BY <1>0, <1>6 DEF Awake, Working, SingleFlight
  <2> QED BY <2>1, LoopTasks
<1>7. ASSUME NEW t \in Task, Cancel(t) PROVE SingleFlight' /\ EndInv'
  <2>0. /\ t \in cancelled /\ cancelled' = cancelled \ {t} /\ ~processing'
        /\ UNCHANGED <<queue, ending, cutShort>>
    BY <1>7 DEF Cancel
  <2>1. \A u \in Task : Working(u) => u = t
    BY <1>0, <1>7 DEF Cancel, SingleFlight
  <2>2. \A u \in Task : u # t /\ pc[u] # "none" => pc'[u] = pc[u]
    BY <1>0, <1>7 DEF Cancel, Spawn
  <2>3. \A u \in Task : ~Working(u)'
    BY <1>0, <1>7, <2>1 DEF Cancel, Spawn, Working
  <2>4. queue # <<>> => \E u \in Task : Takes(u)'
    <3>1. SUFFICES ASSUME queue # <<>> PROVE \E u \in Task : Takes(u)'
      OBVIOUS
    <3>2. PICK u \in Task : Spawn([pc EXCEPT ![t] = "none"], u)
      BY <1>7, <3>1 DEF Cancel
    <3>3. pc'[u] = "spawned" /\ (u # t => pc[u] = "none")
      BY <1>0, <3>2 DEF Spawn
    <3>4. u \notin cancelled'
      BY <1>0, <2>0, <3>3
    <3> QED BY <3>3, <3>4 DEF Takes
  <2>5. \A u \in cancelled' : pc'[u] # "none"
    BY <1>0, <2>0, <2>2
  <2> QED BY <1>0, <2>0, <2>3, <2>4, <2>5 DEF SingleFlight, EndInv
<1>8. ASSUME NEW t \in Task, CancelUnstarted(t) PROVE SingleFlight' /\ EndInv'
  <2>1. /\ t \in cancelled /\ pc[t] = "spawned" /\ cancelled' = cancelled \ {t}
        /\ pc' = [pc EXCEPT ![t] = "none"]
        /\ UNCHANGED <<queue, processing, ending, cutShort>>
    BY <1>8 DEF CancelUnstarted
  <2>2. \A u \in Task : (Working(u)' <=> Working(u)) /\ (u # t => pc'[u] = pc[u])
    BY <1>0, <2>1 DEF Working
  <2>3. \A u \in Task : Takes(u) => Takes(u)'
    BY <1>0, <2>1, <2>2 DEF Takes, Working
  <2>4. \A u \in cancelled' : pc'[u] # "none"
    BY <1>0, <2>1, <2>2
  <2> QED BY <1>0, <2>1, <2>2, <2>3, <2>4, SameFlight DEF EndInv
<1> QED BY <1>1, <1>2, <1>3, <1>4, <1>5, <1>6, <1>7, <1>8 DEF Next

(* TypeOK, SingleFlight and EndInv hold together.                          *)
LEMMA QueueInvariant == Spec => []QueueInv
<1>1. Init => QueueInv
  <2> SUFFICES ASSUME Init PROVE QueueInv
    OBVIOUS
  <2>1. TypeOK
    BY InitType
  <2> QED BY <2>1 DEF Init, QueueInv, SingleFlight, EndInv, Working
<1>2. QueueInv /\ [Next]_vars => QueueInv'
  BY InvStep, StepType DEF QueueInv
<1> QED BY <1>1, <1>2, PTL DEF Spec

(* However many tasks were started or cancelled, one at most is past the   *)
(* flag, and the flag is set exactly while there is one.                   *)
THEOREM OneFlight == Spec => []SingleFlight
<1>1. QueueInv => SingleFlight
  BY DEF QueueInv
<1> QED BY <1>1, QueueInvariant, PTL

(* No message is left in the queue without a task, but by tasks that were  *)
(* all cancelled before the first step of any of them.                     *)
THEOREM NoneIsStranded == Spec => []NoStranded
BY QueueInvariant, KeptIsNotStranded, PTL

(* A message is given to the radio only when no other send is under way.   *)
THEOREM SendsArePaced == Spec => Paced
<1>1. TypeOK /\ SingleFlight /\ [Next]_vars
        => [handled' # handled => \A t \in Task : Working(t) => Awake(t)]_vars
  <2> SUFFICES ASSUME SingleFlight, Next, handled' # handled, NEW w \in Task, Working(w)
               PROVE  Awake(w)
    OBVIOUS
  <2>1. PICK t \in Task : Start(t) \/ Awake(t)
    BY DEF Next, Enqueue, EnqueueFull, LinkUp, LinkDown, RunEnds, Drained, Cancel, CancelUnstarted
  <2>2. ~Start(t)
    BY DEF Start, SingleFlight
  <2> QED BY <2>1, <2>2 DEF Awake, Working, SingleFlight
<1> QED BY <1>1, TypeCorrect, OneFlight, PTL DEF Spec, Paced

-----------------------------------------------------------------------------
(* The tasks implement the bounded queue: what is refused, the order and   *)
(* the messages taken are those of BoundedFifo.                            *)
THEOREM ImplementsFifoSafety == Spec => Fifo!Spec
<1>1. Init => Fifo!Init
  BY DEF Init, Fifo!Init
<1>2. [Next]_vars => [Fifo!Next]_Fifo!vars
  <2> SUFFICES ASSUME [Next]_vars PROVE [Fifo!Next]_Fifo!vars
    OBVIOUS
  <2> USE DEF Fifo!Next, Fifo!vars, endVars
  <2>1. ASSUME NEW t \in Task, Loop(t), UNCHANGED <<endVars, offered>>
        PROVE  Fifo!Take \/ UNCHANGED Fifo!vars
    BY <2>1 DEF Loop, Fifo!Take
  <2>2. CASE Enqueue
    BY <2>2 DEF Enqueue, Fifo!Accept
  <2>3. CASE EnqueueFull
    BY <2>3 DEF EnqueueFull, Fifo!Refuse
  <2>4. ASSUME NEW t \in Task, Start(t) PROVE Fifo!Take \/ UNCHANGED Fifo!vars
    BY <2>1, <2>4 DEF Start
  <2>5. ASSUME NEW t \in Task, Awake(t) PROVE Fifo!Take \/ UNCHANGED Fifo!vars
    BY <2>1, <2>5 DEF Awake
  <2>6. CASE LinkUp \/ LinkDown \/ (\E t \in Task : Drained(t) \/ Cancel(t) \/ CancelUnstarted(t))
             \/ UNCHANGED vars
    <3>1. UNCHANGED <<queue, offered, handled, ending>>
      BY <2>6 DEF LinkUp, LinkDown, Drained, Cancel, CancelUnstarted, vars
    <3> QED BY <3>1
  <2>7. CASE RunEnds
    BY <2>7 DEF RunEnds, Fifo!Close
  <2> QED BY <2>2, <2>3, <2>4, <2>5, <2>6, <2>7 DEF Next
<1> QED BY <1>1, <1>2, PTL DEF Spec, Fifo!Spec
==============================================================================
