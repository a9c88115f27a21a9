------------------------- MODULE PhysicalLinkProofs -------------------------
(***************************************************************************)
(* Proofs about PhysicalLink, for any number of tasks and any delays.  The *)
(* safety properties are inductive with three facts that the code leaves   *)
(* implicit: a task that drives the link is the one that _read_loop_task   *)
(* or _reconnect_task names, there is none unless the link is running, and *)
(* _connected is clear until the link first runs.                          *)
(***************************************************************************)
EXTENDS PhysicalLink, TLAPS

(* The delay that follows a failed attempt stays within its bounds.        *)
LEMMA DelayBounds ==
  ASSUME NEW d \in InitialDelay..MaxDelay
  PROVE  (IF d * Multiplier < MaxDelay THEN d * Multiplier ELSE MaxDelay)
            \in InitialDelay..MaxDelay
<1>1. d * Multiplier \in Nat /\ d <= d * Multiplier
  BY LinkAssumption
<1> QED BY <1>1, LinkAssumption

(* A failed attempt keeps the types, whichever task made it.               *)
LEMMA AttemptFailsType ==
  ASSUME TypeOK, NEW t \in Driver, AttemptFails(t), UNCHANGED <<envVars, infoCurrent>>
  PROVE  TypeOK'
<1> USE LinkAssumption DEF TypeOK, PC, Driver, envVars
<1>1. CASE t = Main /\ ReconnectEnabled /\ StartReconnect(Main)
  BY <1>1 DEF AttemptFails, StartReconnect
<1>2. CASE t = Main /\ ~StartReconnect(Main)
  BY <1>2 DEF AttemptFails
<1>3. CASE t # Main
  <2>1. t \in Task /\ delay[t] \in InitialDelay..MaxDelay
    BY <1>3
  <2>2. delay' \in [Task -> InitialDelay..MaxDelay]
    BY <1>3, <2>1, DelayBounds DEF AttemptFails
  <2> QED BY <1>3, <2>2 DEF AttemptFails
<1> QED BY <1>1, <1>2, <1>3 DEF AttemptFails

(* Every variable of the link keeps its type, each delay its bounds.       *)
THEOREM TypeCorrect == Spec => []TypeOK
<1>1. Init => TypeOK
  <2>1. InitialDelay \in InitialDelay..MaxDelay
    BY LinkAssumption
  <2>2. "none" \in PC
    BY DEF PC
  <2> QED BY <2>1, <2>2 DEF Init, TypeOK, Driver
<1>2. TypeOK /\ [Next]_vars => TypeOK'
  <2> SUFFICES ASSUME TypeOK, [Next]_vars PROVE TypeOK'
    OBVIOUS
  <2> USE LinkAssumption DEF TypeOK, PC, Driver, envVars, taskVars
  <2>1. CASE Connect
    BY <2>1 DEF Connect
  <2>2. CASE Disconnect
    BY <2>2 DEF Disconnect
  <2>3. CASE DisconnectDone
    BY <2>3 DEF DisconnectDone
  <2>4. CASE ReachableChanges \/ ConnectionBreaks
    BY <2>4 DEF ReachableChanges, ConnectionBreaks
  <2>5. ASSUME NEW t \in Driver, Opened(t) PROVE TypeOK'
    BY <2>5 DEF Opened
  <2>6. ASSUME NEW t \in Driver, OpenFails(t) \/ HandshakeFails(t) PROVE TypeOK'
    BY <2>6, AttemptFailsType DEF OpenFails, HandshakeFails
  <2>7. ASSUME NEW t \in Driver, HandshakeDone(t) PROVE TypeOK'
    BY <2>7 DEF HandshakeDone
  <2>8. ASSUME NEW t \in Task, DelayOver(t) PROVE TypeOK'
    BY <2>8 DEF DelayOver
  <2>9. ASSUME NEW t \in Task, CaptureMyInfo(t) PROVE TypeOK'
    BY <2>9 DEF CaptureMyInfo
  <2>10. ASSUME NEW t \in Task, ReadLoopEnds(t) PROVE TypeOK'
    <3>1. CASE StartReconnect(t)
      <4>1. PICK u \in Task : /\ pc' = [pc EXCEPT ![t] = "none", ![u] = "delay"]
                              /\ reconnectTask' = u
                              /\ delay' = [delay EXCEPT ![u] = InitialDelay]
        BY <3>1 DEF StartReconnect
      <4>2. pc' \in [Driver -> PC]
        BY <4>1
      <4>3. delay' \in [Task -> InitialDelay..MaxDelay]
        BY <4>1
      <4> QED BY <2>10, <4>1, <4>2, <4>3 DEF ReadLoopEnds
    <3>2. CASE ~StartReconnect(t)
      BY <2>10, <3>2 DEF ReadLoopEnds
    <3> QED BY <3>1, <3>2
  <2>11. ASSUME NEW h \in Hook, HookEnds(h) PROVE TypeOK'
    BY <2>11 DEF HookEnds
  <2>12. CASE UNCHANGED vars
    BY <2>12 DEF vars
  <2> QED BY <2>1, <2>2, <2>3, <2>4, <2>5, <2>6, <2>7, <2>8, <2>9, <2>10, <2>11, <2>12
          DEF Next
<1> QED BY <1>1, <1>2, PTL DEF Spec

-----------------------------------------------------------------------------
(* The task that drives the link is one that disconnect() will cancel, and *)
(* only a running link is driven.                                          *)
Owned ==
  /\ pc[Main] \in {"none", "opening", "handshake"}
  /\ \A t \in Task : Driving(t) =>
       t = IF pc[t] = "reading" THEN readTask ELSE reconnectTask
  /\ \A t \in Driver : Driving(t) => running

Stages ==
  /\ running => stopped = "no"
  /\ ~running /\ stopped = "no" => ~connected
  /\ stopped = "done" => ~connected

LinkInv == OneDriver /\ Owned /\ Stages /\ NeverAbandoned /\ InfoIsCurrent

(* A step in which t, which drives the link, keeps driving it in state s,  *)
(* or hands it to u, and the connection is not up before or after it.      *)
LEMMA HandOver ==
  ASSUME TypeOK, LinkInv, NEW t \in Driver, Driving(t), NEW u \in Driver,
         NEW s \in {"delay", "opening", "handshake"},
         pc' = [[pc EXCEPT ![t] = "none"] EXCEPT ![u] = s],
         u = Main => s # "delay",
         u \in Task => reconnectTask' = u,
         u = t \/ ~Driving(u),
         running' = running, ~connected', stopped' = stopped
  PROVE  LinkInv'
<1> USE LinkAssumption DEF TypeOK, Driver, Driving
<1>1. pc'[u] = s /\ \A v \in Driver : v # u => pc'[v] = "none"
  BY DEF LinkInv, OneDriver
<1>2. running
  BY DEF LinkInv, Owned
<1>3. OneDriver'
  BY <1>1 DEF OneDriver
<1>4. Owned'
  BY <1>1, <1>2 DEF Owned, LinkInv
<1>5. Stages'
  BY DEF LinkInv, Stages
<1>6. NeverAbandoned'
  BY <1>1 DEF NeverAbandoned
<1>7. InfoIsCurrent'
  BY DEF InfoIsCurrent
<1> QED BY <1>3, <1>4, <1>5, <1>6, <1>7 DEF LinkInv

(* A failed attempt leaves one task on the link, or ends the last one.     *)
LEMMA AttemptFailsInv ==
  ASSUME TypeOK, LinkInv, NEW t \in Driver, pc[t] \in {"opening", "handshake"},
         AttemptFails(t), UNCHANGED <<envVars, infoCurrent>>
  PROVE  LinkInv'
<1> USE LinkAssumption DEF TypeOK, Driver
<1>1. running /\ ~connected /\ Driving(t)
  BY DEF LinkInv, Owned, OneDriver, NeverAbandoned, Driving
<1>2. CASE t = Main /\ StartReconnect(Main)
  <2>1. PICK u \in Task : /\ ~Driving(u)
                          /\ pc' = [pc EXCEPT ![t] = "none", ![u] = "delay"]
                          /\ reconnectTask' = u
    BY <1>2 DEF StartReconnect
  <2>2. u # Main
    OBVIOUS
  <2> QED BY <1>1, <1>2, <2>1, <2>2, HandOver DEF AttemptFails
<1>3. CASE t = Main /\ ~StartReconnect(Main)
  <2>1. ~ReconnectEnabled /\ pc' = [pc EXCEPT ![Main] = "none"]
    BY <1>3 DEF AttemptFails
  <2>2. \A v \in Driver : ~Driving(v)'
    BY <1>1, <1>3, <2>1 DEF LinkInv, OneDriver, Driving
  <2>3. /\ OneDriver' /\ Owned' /\ NeverAbandoned'
    BY <1>1, <1>3, <2>1, <2>2
       DEF AttemptFails, OneDriver, Owned, NeverAbandoned, Driving
  <2> QED BY <1>1, <1>3, <2>3 DEF AttemptFails, LinkInv, Stages, InfoIsCurrent
<1>4. CASE t # Main
  <2>1. t \in Task /\ t = reconnectTask /\ reconnectTask' = t
    BY <1>1, <1>4 DEF AttemptFails, LinkInv, Owned
  <2>2. pc' = [[pc EXCEPT ![t] = "none"] EXCEPT ![t] = "delay"]
    BY <1>4 DEF AttemptFails
  <2> QED BY <1>1, <1>4, <2>1, <2>2, HandOver DEF AttemptFails
<1> QED BY <1>2, <1>3, <1>4

(* Every step keeps the invariant of the link.                             *)
LEMMA LinkInvStep == TypeOK /\ TypeOK' /\ LinkInv /\ [Next]_vars => LinkInv'
<1> SUFFICES ASSUME TypeOK, TypeOK', LinkInv, [Next]_vars PROVE LinkInv'
  OBVIOUS
<1> USE LinkAssumption DEF Driver, envVars, taskVars
<1> USE DEF LinkInv
<1>1. CASE Connect
  <2>1. \A v \in Driver : pc'[v] = IF v = Main THEN "opening" ELSE "none"
    BY <1>1 DEF Connect, TypeOK, Owned, Driving
  <2> QED BY <1>1, <2>1 DEF Connect, TypeOK, OneDriver, Owned, Stages, NeverAbandoned,
             InfoIsCurrent, Driving
<1>2. CASE Disconnect
  <2>1. \A v \in Driver : ~Driving(v)'
    BY <1>2 DEF Disconnect, TypeOK, Owned, Driving
  <2> QED BY <1>2, <2>1 DEF Disconnect, OneDriver, Owned, Stages, NeverAbandoned,
             InfoIsCurrent, Driving
<1>3. CASE DisconnectDone
  BY <1>3 DEF DisconnectDone, OneDriver, Owned, Stages, NeverAbandoned, InfoIsCurrent,
     Driving
<1>4. CASE \/ ReachableChanges \/ ConnectionBreaks \/ UNCHANGED vars
           \/ \E h \in Hook : HookEnds(h)
  BY <1>4 DEF ReachableChanges, ConnectionBreaks, HookEnds, vars, OneDriver, Owned, Stages,
     NeverAbandoned, InfoIsCurrent, Driving
<1>5. ASSUME NEW t \in Driver, Opened(t) PROVE LinkInv'
  <2>1. running /\ ~connected /\ Driving(t) /\ (t \in Task => reconnectTask = t)
    BY <1>5 DEF Opened, Owned, OneDriver, NeverAbandoned, Driving
  <2>2. pc' = [[pc EXCEPT ![t] = "none"] EXCEPT ![t] = "handshake"]
    BY <1>5 DEF Opened
  <2> QED BY <1>5, <2>1, <2>2, HandOver DEF Opened
<1>6. ASSUME NEW t \in Driver, OpenFails(t) \/ HandshakeFails(t) PROVE LinkInv'
  BY <1>6, AttemptFailsInv DEF OpenFails, HandshakeFails
<1>7. ASSUME NEW t \in Driver, HandshakeDone(t) PROVE LinkInv'
  <2>1. PICK u \in Task : /\ pc' = [pc EXCEPT ![t] = "none", ![u] = "reading"]
                          /\ readTask' = u
    BY <1>7 DEF HandshakeDone
  <2>2. running
    BY <1>7 DEF HandshakeDone, Owned, Driving
  <2>3. pc'[u] = "reading" /\ \A v \in Driver : v # u => pc'[v] = "none"
    BY <1>7, <2>1 DEF HandshakeDone, TypeOK, OneDriver, Driving
  <2>4. OneDriver' /\ Owned' /\ NeverAbandoned'
    BY <1>7, <2>1, <2>2, <2>3
       DEF HandshakeDone, OneDriver, Owned, NeverAbandoned, Driving
  <2> QED BY <1>7, <2>2, <2>4 DEF HandshakeDone, Stages, InfoIsCurrent
<1>8. ASSUME NEW t \in Task, DelayOver(t) PROVE LinkInv'
  <2>1. running /\ ~connected /\ Driving(t) /\ reconnectTask = t
    BY <1>8 DEF DelayOver, Owned, OneDriver, NeverAbandoned, Driving
  <2>2. pc' = [[pc EXCEPT ![t] = "none"] EXCEPT ![t] = "opening"]
    BY <1>8 DEF DelayOver
  <2> QED BY <1>8, <2>1, <2>2, HandOver DEF DelayOver
<1>9. ASSUME NEW t \in Task, CaptureMyInfo(t) PROVE LinkInv'
  BY <1>9 DEF CaptureMyInfo, OneDriver, Owned, Stages, NeverAbandoned, InfoIsCurrent,
     Driving
<1>10. ASSUME NEW t \in Task, ReadLoopEnds(t) PROVE LinkInv'
  <2>1. running /\ Driving(t)
    BY <1>10 DEF ReadLoopEnds, Owned, Driving
  <2>2. CASE StartReconnect(t)
    <3>1. PICK u \in Task : /\ ~Driving(u)
                            /\ pc' = [pc EXCEPT ![t] = "none", ![u] = "delay"]
                            /\ reconnectTask' = u
      BY <2>2 DEF StartReconnect
    <3>2. u # Main
      OBVIOUS
    <3> QED BY <1>10, <2>1, <3>1, <3>2, HandOver DEF ReadLoopEnds
  <2>3. CASE ~StartReconnect(t)
    <3>1. ~ReconnectEnabled /\ pc' = [pc EXCEPT ![t] = "none"]
      BY <1>10, <2>1, <2>3 DEF ReadLoopEnds
    <3>2. \A v \in Driver : ~Driving(v)'
      BY <2>1, <3>1 DEF OneDriver, Driving, TypeOK
    <3>3. OneDriver' /\ Owned' /\ NeverAbandoned'
      BY <1>10, <3>1, <3>2
         DEF ReadLoopEnds, OneDriver, Owned, NeverAbandoned, Driving
    <3> QED BY <1>10, <3>3 DEF ReadLoopEnds, Stages, InfoIsCurrent
  <2> QED BY <2>2, <2>3
<1> QED BY <1>1, <1>2, <1>3, <1>4, <1>5, <1>6, <1>7, <1>8, <1>9, <1>10 DEF Next

(* The link is driven by the one task that _read_loop_task or              *)
(* _reconnect_task names.                                                  *)
THEOREM Inductive == Spec => []LinkInv
<1>1. Init => LinkInv
  BY LinkAssumption DEF Init, LinkInv, OneDriver, Owned, Stages, NeverAbandoned,
     InfoIsCurrent, Driving, Driver
<1> QED BY <1>1, LinkInvStep, TypeCorrect, PTL DEF Spec

(* No two tasks ever drive the link, none is lost while it should be       *)
(* driven, and a captured my_info is that of the present connection.       *)
THEOREM LinkSafety == Spec => [](OneDriver /\ NeverAbandoned /\ InfoIsCurrent)
<1>1. LinkInv => OneDriver /\ NeverAbandoned /\ InfoIsCurrent
  BY DEF LinkInv
<1> QED BY <1>1, Inductive, PTL

(* While the program runs, some task drives the link, and _connected says  *)
(* whether it reads from one.                                              *)
THEOREM LinkIsNeverAbandoned == Spec => []NeverAbandoned
BY LinkSafety, PTL

(* A captured my_info is that of the present connection.                   *)
THEOREM InfoComesFromHere == Spec => []InfoIsCurrent
BY LinkSafety, PTL

(* After disconnect() has returned nothing opens or reads a connection.    *)
THEOREM Stops == Spec => []StoppedForGood
<1>1. LinkInv => StoppedForGood
  BY DEF LinkInv, Owned, Stages, StoppedForGood
<1> QED BY <1>1, Inductive, PTL
==============================================================================
