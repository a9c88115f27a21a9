---------------------------- MODULE PhysicalLink ----------------------------
(***************************************************************************)
(* physical_node.py: the connection to the physical node.  connect() makes *)
(* the first attempt in the main task; after that a read loop runs while   *)
(* the connection lasts and starts a reconnect loop when it ends, and the  *)
(* reconnect loop ends when it has started a new read loop.  All of them   *)
(* share one reader, one writer and the _connected flag without a lock, so *)
(* the link works only because one of them runs at a time.                 *)
(***************************************************************************)
EXTENDS Naturals, FiniteSets

CONSTANTS
  Task,              \* read and reconnect loops; an ended one may be reused
  Main,              \* the main task, which calls connect() and disconnect()
  NoTask,            \* None in _read_loop_task and _reconnect_task
  Hook,              \* bound: on_reconnect callbacks that run at a time
  ReconnectEnabled,  \* reconnect.enabled
  InitialDelay, MaxDelay, Multiplier   \* reconnect.initial_delay, max_delay, multiplier

ASSUME LinkAssumption ==
  /\ Main \notin Task /\ NoTask \notin Task \cup {Main}
  /\ ReconnectEnabled \in BOOLEAN
  /\ InitialDelay \in Nat /\ MaxDelay \in Nat /\ Multiplier \in Nat
  /\ 0 < InitialDelay /\ InitialDelay <= MaxDelay /\ 0 < Multiplier

VARIABLES
  running,        \* _running
  connected,      \* _connected
  pc,             \* [Task \cup {Main} -> what the task is doing with the link]
  readTask,       \* _read_loop_task
  reconnectTask,  \* _reconnect_task
  delay,          \* [Task -> delay of the reconnect loop in that task]
  infoSet,        \* _my_info_captured
  hooks,          \* running on_reconnect callbacks
  stopped,        \* disconnect(): "no", "closing" (the writer), "done"
  reachable,      \* external: the node accepts connections and answers
  alive,          \* external: the transport in _reader and _writer still works
  infoCurrent     \* History: my_info was last captured on this transport

taskVars == <<pc, readTask, reconnectTask, delay>>
envVars  == <<reachable, alive>>
vars == <<running, connected, taskVars, infoSet, hooks, stopped, envVars, infoCurrent>>

PC == {"none", "delay", "opening", "handshake", "reading"}
Driver == Task \cup {Main}
Driving(t) == pc[t] # "none"

Init ==
  /\ running = FALSE /\ connected = FALSE
  /\ pc = [t \in Driver |-> "none"]
  /\ readTask = NoTask /\ reconnectTask = NoTask
  /\ delay = [t \in Task |-> InitialDelay]
  /\ infoSet = FALSE
  /\ hooks = {}
  /\ stopped = "no"
  /\ reachable \in BOOLEAN
  /\ alive = FALSE
  /\ infoCurrent = FALSE

(* connect(), up to open_connection. *)
Connect ==
  /\ ~running /\ stopped = "no"
  /\ running' = TRUE
  /\ pc' = [pc EXCEPT ![Main] = "opening"]
  /\ UNCHANGED <<connected, readTask, reconnectTask, delay, infoSet, hooks, stopped,
                 envVars, infoCurrent>>

(* t ends and a new task starts the reconnect loop, which goes to sleep. *)
StartReconnect(t) ==
  \E u \in Task :
    /\ ~Driving(u)
    /\ pc' = [pc EXCEPT ![t] = "none", ![u] = "delay"]
    /\ reconnectTask' = u
    /\ delay' = [delay EXCEPT ![u] = InitialDelay]

(* Mutant: each failed attempt starts another loop and goes on as well. *)
AttemptFailsTwice(t) ==
  /\ IF t = Main
     THEN \/ ReconnectEnabled /\ StartReconnect(Main)
          \/ /\ ~ReconnectEnabled
             /\ pc' = [pc EXCEPT ![Main] = "none"]
             /\ UNCHANGED <<reconnectTask, delay>>
     ELSE \E u \in Task :
            /\ ~Driving(u)
            /\ pc' = [pc EXCEPT ![t] = "delay", ![u] = "delay"]
            /\ reconnectTask' = u
            /\ UNCHANGED delay
  /\ UNCHANGED <<running, connected, readTask, infoSet, hooks, stopped>>

(* Mutant: the delay is multiplied without the cap. *)
AttemptFailsUncapped(t) ==
  /\ IF t = Main
     THEN \/ ReconnectEnabled /\ StartReconnect(Main)
          \/ /\ ~ReconnectEnabled
             /\ pc' = [pc EXCEPT ![Main] = "none"]
             /\ UNCHANGED <<reconnectTask, delay>>
     ELSE /\ pc' = [pc EXCEPT ![t] = "delay"]
          /\ delay' = [delay EXCEPT ![t] = @ * Multiplier]
          /\ UNCHANGED reconnectTask
  /\ UNCHANGED <<running, connected, readTask, infoSet, hooks, stopped>>

(* _do_connect raises: connect() starts a reconnect loop, if enabled, and a *)
(* reconnect loop sleeps for longer, up to max_delay.                       *)
AttemptFails(t) ==
  /\ IF t = Main
     THEN \/ ReconnectEnabled /\ StartReconnect(Main)
          \/ /\ ~ReconnectEnabled
             /\ pc' = [pc EXCEPT ![Main] = "none"]
             /\ UNCHANGED <<reconnectTask, delay>>
     ELSE /\ pc' = [pc EXCEPT ![t] = "delay"]
          /\ delay' = [delay EXCEPT ![t] = IF @ * Multiplier < MaxDelay
                                           THEN @ * Multiplier ELSE MaxDelay]
          /\ UNCHANGED reconnectTask
  /\ UNCHANGED <<running, connected, readTask, infoSet, hooks, stopped>>

(* The sleep of the reconnect loop ends: it calls _do_connect. *)
DelayOver(t) ==
  /\ pc[t] = "delay"
  /\ pc' = [pc EXCEPT ![t] = "opening"]
  /\ UNCHANGED <<running, connected, readTask, reconnectTask, delay, infoSet, hooks,
                 stopped, envVars, infoCurrent>>

(* open_connection returns: _reader and _writer are replaced (the old      *)
(* writer is not closed) and want_config_id is written.                    *)
Opened(t) ==
  /\ pc[t] = "opening" /\ reachable
  /\ pc' = [pc EXCEPT ![t] = "handshake"]
  /\ alive' = TRUE
  /\ infoCurrent' = FALSE
  /\ UNCHANGED <<running, connected, readTask, reconnectTask, delay, infoSet, hooks,
                 stopped, reachable>>

OpenFails(t) ==
  /\ pc[t] = "opening" /\ ~reachable
  /\ AttemptFails(t)
  /\ UNCHANGED <<envVars, infoCurrent>>

(* Mutant: the events keep what the previous connection captured. *)
HandshakeDoneStale(t) ==
  /\ pc[t] = "handshake"
  /\ connected' = TRUE
  /\ \E u \in Task :
       /\ ~Driving(u)
       /\ pc' = [pc EXCEPT ![t] = "none", ![u] = "reading"]
       /\ readTask' = u
  /\ \E h \in Hook \ hooks : hooks' = hooks \cup {h}
  /\ UNCHANGED <<running, infoSet, reconnectTask, delay, stopped, envVars, infoCurrent>>

(* The rest of _do_connect, once the handshake is drained: a read loop and *)
(* an on_reconnect callback are started, for the first connection as well. *)
HandshakeDone(t) ==
  /\ pc[t] = "handshake"
  /\ connected' = TRUE
  /\ infoSet' = FALSE
  /\ \E u \in Task :
       /\ ~Driving(u)
       /\ pc' = [pc EXCEPT ![t] = "none", ![u] = "reading"]
       /\ readTask' = u
  /\ \E h \in Hook \ hooks : hooks' = hooks \cup {h}
  /\ UNCHANGED <<running, reconnectTask, delay, stopped, envVars, infoCurrent>>

HandshakeFails(t) ==
  /\ pc[t] = "handshake" /\ ~alive
  /\ AttemptFails(t)
  /\ UNCHANGED <<envVars, infoCurrent>>

(* _maybe_capture_my_info on a my_info frame. *)
CaptureMyInfo(t) ==
  /\ pc[t] = "reading" /\ alive
  /\ infoSet' = TRUE
  /\ infoCurrent' = TRUE
  /\ UNCHANGED <<running, connected, taskVars, hooks, stopped, envVars>>
(* Mutant: the idle timeout returns without starting a reconnect loop. *)
ReadLoopEndsIdle(t) ==
  /\ pc[t] = "reading"
  /\ connected' = FALSE
  /\ \/ running /\ ReconnectEnabled /\ ~alive /\ StartReconnect(t)
     \/ /\ ~(running /\ ReconnectEnabled /\ ~alive)
        /\ pc' = [pc EXCEPT ![t] = "none"]
        /\ UNCHANGED <<reconnectTask, delay>>
  /\ UNCHANGED <<running, readTask, infoSet, hooks, stopped, envVars, infoCurrent>>

(* Mutant: _connected is not cleared. *)
ReadLoopEndsConnected(t) ==
  /\ pc[t] = "reading"
  /\ \/ running /\ ReconnectEnabled /\ StartReconnect(t)
     \/ /\ ~(running /\ ReconnectEnabled)
        /\ pc' = [pc EXCEPT ![t] = "none"]
        /\ UNCHANGED <<reconnectTask, delay>>
  /\ UNCHANGED <<running, connected, readTask, infoSet, hooks, stopped, envVars,
                 infoCurrent>>

(* _read_loop ends: b"" or an exception from read(), or no data for        *)
(* tcp_idle_timeout, which happens on a transport that works, too.         *)
ReadLoopEnds(t) ==
  /\ pc[t] = "reading"
  /\ connected' = FALSE
  /\ \/ running /\ ReconnectEnabled /\ StartReconnect(t)
     \/ /\ ~(running /\ ReconnectEnabled)
        /\ pc' = [pc EXCEPT ![t] = "none"]
        /\ UNCHANGED <<reconnectTask, delay>>
  /\ UNCHANGED <<running, readTask, infoSet, hooks, stopped, envVars, infoCurrent>>

(* An on_reconnect callback ends (what it does is in Sessions). *)
HookEnds(h) ==
  /\ h \in hooks
  /\ hooks' = hooks \ {h}
  /\ UNCHANGED <<running, connected, taskVars, infoSet, stopped, envVars, infoCurrent>>

(* Mutant: disconnect() cancels the read loop only. *)
DisconnectReader ==
  /\ running
  /\ running' = FALSE
  /\ pc' = [t \in Driver |-> IF t \in {readTask, Main} THEN "none" ELSE pc[t]]
  /\ readTask' = NoTask /\ reconnectTask' = NoTask
  /\ stopped' = "closing"
  /\ UNCHANGED <<connected, delay, infoSet, hooks, envVars, infoCurrent>>

(* disconnect() up to the closing of the writer: the tasks it has kept are *)
(* cancelled and awaited.  It waits for one of them only if that one still *)
(* runs, and then no other task touches the link meanwhile.  The main task *)
(* calls it last, or at once when it is cancelled inside connect().        *)
Disconnect ==
  /\ running
  /\ running' = FALSE
  /\ pc' = [t \in Driver |-> IF t \in {readTask, reconnectTask, Main} THEN "none" ELSE pc[t]]
  /\ readTask' = NoTask /\ reconnectTask' = NoTask
  /\ stopped' = "closing"
  /\ UNCHANGED <<connected, delay, infoSet, hooks, envVars, infoCurrent>>

(* wait_closed() returns. *)
DisconnectDone ==
  /\ stopped = "closing"
  /\ stopped' = "done"
  /\ connected' = FALSE
  /\ alive' = FALSE
  /\ UNCHANGED <<running, taskVars, infoSet, hooks, reachable, infoCurrent>>

(* External: the node comes and goes, and connections break. *)
ReachableChanges ==
  /\ reachable' = ~reachable
  /\ UNCHANGED <<running, connected, taskVars, infoSet, hooks, stopped, alive, infoCurrent>>

ConnectionBreaks ==
  /\ alive
  /\ alive' = FALSE
  /\ UNCHANGED <<running, connected, taskVars, infoSet, hooks, stopped, reachable,
                 infoCurrent>>

Next ==
  \/ Connect \/ Disconnect \/ DisconnectDone \/ ReachableChanges \/ ConnectionBreaks
  \/ \E t \in Driver :
       \/ Opened(t) \/ OpenFails(t) \/ HandshakeDone(t) \/ HandshakeFails(t)
  \/ \E t \in Task : DelayOver(t) \/ CaptureMyInfo(t) \/ ReadLoopEnds(t)
  \/ \E h \in Hook : HookEnds(h)

Spec == Init /\ [][Next]_vars

(* Timers expire; an attempt to open, and a handshake, ends one way or the *)
(* other; a read loop notices that its transport is broken; a callback     *)
(* ends.  Nothing is assumed of the node but that it answers an attempt.   *)
FairSpec ==
  /\ Spec
  /\ \A t \in Driver : /\ WF_vars(Opened(t) \/ OpenFails(t))
                       /\ WF_vars(HandshakeDone(t) \/ HandshakeFails(t))
  /\ \A t \in Task : WF_vars(DelayOver(t)) /\ WF_vars(~alive /\ ReadLoopEnds(t))
  /\ \A h \in Hook : WF_vars(HookEnds(h))

-----------------------------------------------------------------------------
(* Every variable keeps its type; a delay stays within its bounds. *)
TypeOK ==
  /\ running \in BOOLEAN /\ connected \in BOOLEAN
  /\ pc \in [Driver -> PC]
  /\ readTask \in Task \cup {NoTask} /\ reconnectTask \in Task \cup {NoTask}
  /\ delay \in [Task -> InitialDelay..MaxDelay]
  /\ infoSet \in BOOLEAN
  /\ hooks \in SUBSET Hook
  /\ stopped \in {"no", "closing", "done"}
  /\ reachable \in BOOLEAN /\ alive \in BOOLEAN /\ infoCurrent \in BOOLEAN

(* At most one task opens, sets up or reads the connection, or waits to    *)
(* try again: no two of them ever replace each other's reader and writer.  *)
OneDriver == \A t, u \in Driver : Driving(t) /\ Driving(u) => t = u

(* While the program runs with reconnection enabled, some task is at work  *)
(* on the link; and _connected is set exactly while a read loop runs, so   *)
(* messages go to the radio only while its answers are read.               *)
NeverAbandoned ==
  running => /\ (ReconnectEnabled => \E t \in Driver : Driving(t))
             /\ (connected <=> \E t \in Task : pc[t] = "reading")

(* While a connection is up, a captured my_info came over that connection: *)
(* wait_for_my_info never returns what an earlier node said.               *)
InfoIsCurrent == connected /\ infoSet => infoCurrent

(* Once disconnect() has returned, nothing opens or reads a connection.    *)
StoppedForGood ==
  stopped = "done" => ~connected /\ \A t \in Driver : ~Driving(t)

(* While the program runs with reconnection enabled, it is connected again *)
(* and again for as long as the node can be reached and does not break the *)
(* connection in the handshake of every attempt.                           *)
BrokenHandshake == ~alive /\ \E t \in Driver : pc[t] = "handshake"

Reconnects ==
  ReconnectEnabled =>
    []<>(connected \/ ~reachable \/ BrokenHandshake \/ ~running)
==============================================================================
