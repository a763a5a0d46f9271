------------------------------ MODULE EventFifo ------------------------------
(***************************************************************************)
(* What kernel/event.h promises the input tasks and task_ui: a queue of    *)
(* bounded length that keeps the order of the events and, when it is full, *)
(* gives up its oldest event for a new one and counts the loss.            *)
(***************************************************************************)
EXTENDS Integers, Sequences

CONSTANTS
  Capacity,   \* how many events the queue holds
  Events,     \* the events that are posted
  NoEvent

VARIABLES
  pending,    \* the events posted and neither polled nor lost
  out,        \* the event the last poll returned
  lost        \* overflow_count

vars == <<pending, out, lost>>

Init ==
  /\ pending = <<>>
  /\ out = NoEvent
  /\ lost = 0

Post(e) ==
  /\ IF Len(pending) = Capacity
     THEN pending' = Append(Tail(pending), e) /\ lost' = lost + 1
     ELSE pending' = Append(pending, e) /\ UNCHANGED lost
  /\ UNCHANGED out

Poll ==
  /\ pending # <<>>
  /\ out' = Head(pending)
  /\ pending' = Tail(pending)
  /\ UNCHANGED lost

Flush ==
  /\ pending' = <<>>
  /\ UNCHANGED <<out, lost>>

Next == (\E e \in Events : Post(e)) \/ Poll \/ Flush

Spec == Init /\ [][Next]_vars
=============================================================================
