---------------------------- MODULE MessageQueue ----------------------------
(***************************************************************************)
(* message_queue.py: the bounded queue of client messages to the radio and *)
(* the task that drains it.  enqueue_raw starts a task whenever none is    *)
(* processing, so several tasks may be waiting for their first step, and a *)
(* flag lets one of them work.  A task suspends in the drain inside        *)
(* PhysicalNodeManager.send_raw_to_radio and in the sleep that paces it.   *)
(***************************************************************************)
EXTENDS Naturals, Sequences

CONSTANTS
  Task,       \* tasks that run _process; one that has ended may be reused
  QueueMax,   \* QUEUE_MAX_SIZE
  OfferMax    \* bound: messages offered in a behaviour

ASSUME QueueAssumption == QueueMax \in Nat \ {0} /\ OfferMax \in Nat

VARIABLES
  queue,       \* _queue; a message is the number of its enqueue_raw call
  processing,  \* _processing
  pc,          \* [Task -> what the task is doing]
  linkUp,      \* send_raw_to_radio finds a connected writer
  ending,      \* asyncio.run has come to its end
  cancelled,   \* tasks it has cancelled that have not run since
  \* History.
  offered,     \* calls of enqueue_raw
  handled,     \* messages taken from the queue
  cutShort     \* when asyncio.run ended, no task was past the flag

endVars == <<ending, cancelled, cutShort>>
vars == <<queue, processing, pc, linkUp, endVars, offered, handled>>

PC == {"none", "spawned", "draining", "sleeping"}
Working(t) == pc[t] \in {"draining", "sleeping"}

Init ==
  /\ queue = <<>>
  /\ processing = FALSE
  /\ pc = [t \in Task |-> "none"]
  /\ linkUp = FALSE
  /\ ending = FALSE /\ cancelled = {} /\ cutShort = FALSE
  /\ offered = 0
  /\ handled = <<>>

(* create_task(self._process()), in a function of tasks that is updated. *)
Spawn(f, t) == f[t] = "none" /\ pc' = [f EXCEPT ![t] = "spawned"]

(* Mutant: the queue has no bound. *)
EnqueueUnbounded ==
  /\ offered < OfferMax
  /\ offered' = offered + 1
  /\ queue' = Append(queue, offered + 1)
  /\ \/ ~processing /\ \E t \in Task : Spawn(pc, t)
     \/ processing /\ UNCHANGED pc
  /\ UNCHANGED <<processing, linkUp, endVars, handled>>

(* enqueue_raw, when there is room. *)
Enqueue ==
  /\ offered < OfferMax /\ Len(queue) < QueueMax
  /\ offered' = offered + 1
  /\ queue' = Append(queue, offered + 1)
  /\ \/ ~processing /\ \E t \in Task : Spawn(pc, t)
     \/ processing /\ UNCHANGED pc
  /\ UNCHANGED <<processing, linkUp, endVars, handled>>

(* enqueue_raw on QueueFull: the message is dropped, and False returned. *)
EnqueueFull ==
  /\ offered < OfferMax /\ Len(queue) >= QueueMax
  /\ offered' = offered + 1
  /\ UNCHANGED <<queue, processing, pc, linkUp, endVars, handled>>

(* Mutant: the newest message is taken. *)
LoopNewest(t) ==
  \/ /\ queue = <<>>
     /\ processing' = FALSE
     /\ pc' = [pc EXCEPT ![t] = "none"]
     /\ UNCHANGED <<queue, handled>>
  \/ /\ queue # <<>>
     /\ processing' = TRUE
     /\ queue' = SubSeq(queue, 1, Len(queue) - 1)
     /\ handled' = Append(handled, queue[Len(queue)])
     /\ pc' = [pc EXCEPT ![t] = IF linkUp THEN "draining" ELSE "sleeping"]

(* The loop of _process from get_nowait to the next await.  On an empty    *)
(* queue the task ends; otherwise send_raw_to_radio writes the message and *)
(* drains, or returns at once because there is no connection.              *)
Loop(t) ==
  \/ /\ queue = <<>>
     /\ processing' = FALSE
     /\ pc' = [pc EXCEPT ![t] = "none"]
     /\ UNCHANGED <<queue, handled>>
  \/ /\ queue # <<>>
     /\ processing' = TRUE
     /\ queue' = Tail(queue)
     /\ handled' = Append(handled, Head(queue))
     /\ pc' = [pc EXCEPT ![t] = IF linkUp THEN "draining" ELSE "sleeping"]

(* Mutant: the first step of _process does not look at the flag. *)
StartUnchecked(t) ==
  /\ pc[t] = "spawned" /\ t \notin cancelled
  /\ Loop(t)
  /\ UNCHANGED <<linkUp, endVars, offered>>

(* The first step of _process: it ends at once if another is processing. *)
Start(t) ==
  /\ pc[t] = "spawned" /\ t \notin cancelled
  /\ \/ ~processing /\ Loop(t)
     \/ /\ processing
        /\ pc' = [pc EXCEPT ![t] = "none"]
        /\ UNCHANGED <<queue, processing, handled>>
  /\ UNCHANGED <<linkUp, endVars, offered>>

(* drain() returns, or raises an exception that is logged. *)
Drained(t) ==
  /\ pc[t] = "draining" /\ t \notin cancelled
  /\ pc' = [pc EXCEPT ![t] = "sleeping"]
  /\ UNCHANGED <<queue, processing, linkUp, endVars, offered, handled>>

(* SEND_DELAY_SECONDS have passed. *)
Awake(t) ==
  /\ pc[t] = "sleeping" /\ t \notin cancelled
  /\ Loop(t)
  /\ UNCHANGED <<linkUp, endVars, offered>>

(* asyncio.run ends and cancels every task there is: nothing else cancels  *)
(* them.  A cancelled task gets the exception when it runs next.           *)
RunEnds ==
  /\ ~ending /\ ending' = TRUE
  /\ cancelled' = {t \in Task : pc[t] # "none"}
  /\ cutShort' = ~processing
  /\ UNCHANGED <<queue, processing, pc, linkUp, offered, handled>>

(* Mutant: the finally clause only clears the flag. *)
CancelForgets(t) ==
  /\ t \in cancelled /\ Working(t)
  /\ cancelled' = cancelled \ {t}
  /\ processing' = FALSE
  /\ pc' = [pc EXCEPT ![t] = "none"]
  /\ UNCHANGED <<queue, linkUp, ending, cutShort, offered, handled>>

(* The exception comes at an await: the finally clause clears the flag and *)
(* starts a successor if messages wait.                                    *)
Cancel(t) ==
  /\ t \in cancelled /\ Working(t)
  /\ cancelled' = cancelled \ {t}
  /\ processing' = FALSE
  /\ LET ended == [pc EXCEPT ![t] = "none"] IN
       \/ queue # <<>> /\ \E u \in Task : Spawn(ended, u)
       \/ queue = <<>> /\ pc' = ended
  /\ UNCHANGED <<queue, linkUp, ending, cutShort, offered, handled>>

(* The exception comes before the first step: the body never runs.         *)
CancelUnstarted(t) ==
  /\ t \in cancelled /\ pc[t] = "spawned"
  /\ cancelled' = cancelled \ {t}
  /\ pc' = [pc EXCEPT ![t] = "none"]
  /\ UNCHANGED <<queue, processing, linkUp, ending, cutShort, offered, handled>>

(* The physical node is connected, or its connection is over. *)
LinkUp ==
  /\ ~linkUp /\ linkUp' = TRUE
  /\ UNCHANGED <<queue, processing, pc, endVars, offered, handled>>

LinkDown ==
  /\ linkUp /\ linkUp' = FALSE
  /\ UNCHANGED <<queue, processing, pc, endVars, offered, handled>>

Next ==
  \/ Enqueue \/ EnqueueFull \/ LinkUp \/ LinkDown \/ RunEnds
  \/ \E t \in Task : Start(t) \/ Drained(t) \/ Awake(t) \/ Cancel(t) \/ CancelUnstarted(t)

Spec == Init /\ [][Next]_vars

(* The loop runs every ready task, timers expire, and a drain ends (the    *)
(* radio accepts what is written, or the connection is found broken), but  *)
(* only until asyncio.run ends: what is left of the loop then may stop     *)
(* anywhere.                                                               *)
FairSpec ==
  Spec /\ \A t \in Task : /\ WF_vars(~ending /\ Start(t))
                          /\ WF_vars(~ending /\ Drained(t))
                          /\ WF_vars(~ending /\ Awake(t))

-----------------------------------------------------------------------------
(* Every variable keeps its type, and the queue its bound. *)
TypeOK ==
  /\ queue \in Seq(1..OfferMax) /\ Len(queue) <= QueueMax
  /\ processing \in BOOLEAN
  /\ pc \in [Task -> PC]
  /\ linkUp \in BOOLEAN
  /\ ending \in BOOLEAN /\ cancelled \in SUBSET Task /\ cutShort \in BOOLEAN
  /\ offered \in 0..OfferMax
  /\ handled \in Seq(1..OfferMax)

(* However many tasks were started before the first of them ran, one at    *)
(* most is past the flag, and the flag is set exactly while there is one.  *)
SingleFlight ==
  /\ processing <=> \E t \in Task : Working(t)
  /\ \A t, u \in Task : Working(t) /\ Working(u) => t = u

(* A message never waits in the queue without a task to take it, whichever *)
(* tasks saw another one processing or the queue empty, and though the one *)
(* at work is cancelled: it leaves the rest to a successor.  Only tasks    *)
(* that were all cancelled before their first step leave it to nobody.     *)
NoStranded == queue # <<>> => cutShort \/ \E t \in Task : pc[t] # "none"

(* Sends are paced: a message is given to the radio only when no task is   *)
(* in its drain or delay, but for the one whose delay ends in this step.   *)
Paced ==
  [][handled' # handled => \A t \in Task : Working(t) => Awake(t)]_vars

Fifo == INSTANCE BoundedFifo WITH open <- ~ending

(* The tasks implement a bounded queue: order, loss only when full, and    *)
(* every accepted message taken in the end, if asyncio.run does not end.   *)
ImplementsFifo == Fifo!FairSpec
==============================================================================
