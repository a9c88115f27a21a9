----------------------------- MODULE BoundedFifo -----------------------------
(***************************************************************************)
(* What the queue to the radio promises: messages are taken in the order   *)
(* they were accepted, a message is refused only when QueueMax wait, and   *)
(* what was accepted is eventually taken, unless the queue is closed: then *)
(* messages may still be taken, or stay.                                   *)
(***************************************************************************)
EXTENDS Naturals, Sequences

CONSTANTS
  QueueMax,   \* capacity
  OfferMax    \* bound: messages offered in a behaviour

VARIABLES
  queue,      \* accepted and not yet taken
  offered,    \* messages offered, numbered from 1
  handled,    \* taken
  open        \* not closed yet

vars == <<queue, offered, handled, open>>

Init == queue = <<>> /\ offered = 0 /\ handled = <<>> /\ open = TRUE

Accept ==
  /\ offered < OfferMax /\ Len(queue) < QueueMax
  /\ offered' = offered + 1
  /\ queue' = Append(queue, offered + 1)
  /\ UNCHANGED <<handled, open>>

Refuse ==
  /\ offered < OfferMax /\ Len(queue) >= QueueMax
  /\ offered' = offered + 1
  /\ UNCHANGED <<queue, handled, open>>

Take ==
  /\ queue # <<>>
  /\ handled' = Append(handled, Head(queue))
  /\ queue' = Tail(queue)
  /\ UNCHANGED <<offered, open>>

Close ==
  /\ open /\ open' = FALSE
  /\ UNCHANGED <<queue, offered, handled>>

Next == Accept \/ Refuse \/ Take \/ Close

Spec == Init /\ [][Next]_vars
FairSpec == Spec /\ WF_vars(open /\ Take)
==============================================================================
