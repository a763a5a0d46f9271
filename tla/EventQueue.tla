----------------------------- MODULE EventQueue -----------------------------
(***************************************************************************)
(* The ring buffer of kernel/event.c.  event_post runs to completion;      *)
(* event_poll is the sequence of memory accesses it compiles to, because a *)
(* post made by an interrupt handler may fall between any two of them.     *)
(* PostInIsr says whether posts come from interrupt handlers, which        *)
(* event.h allows, or from the tasks of main.c, as today: those never run  *)
(* in the middle of a poll.                                                *)
(***************************************************************************)
EXTENDS Integers, Sequences

CONSTANTS
  Size,       \* EVENT_QUEUE_SIZE
  Events,
  NoEvent,
  PostInIsr,
  MaxPosts    \* bound on the posts of a behaviour

ASSUME SizeAssumption == Size \in Nat /\ Size >= 2
ASSUME EventsAssumption == NoEvent \notin Events
ASSUME ContextAssumption == PostInIsr \in BOOLEAN
ASSUME BoundAssumption == MaxPosts \in Nat

VARIABLES
  queue, head, tail,
  overflow_count,
  pc,         \* where event_poll is
  out,        \* the event it returns
  old_tail,   \* the value of tail it has loaded to increment
  posted,     \* history: events posted
  polled,     \* history: events a poll has returned
  flushed     \* history: events event_flush discarded

ring == <<queue, head, tail, overflow_count>>
poll == <<pc, out, old_tail>>
counters == <<posted, polled, flushed>>
vars == <<ring, poll, counters>>

Index == 0 .. Size - 1

TypeOK ==
  /\ queue \in [Index -> Events \cup {NoEvent}]
  /\ head \in Index
  /\ tail \in Index
  /\ overflow_count \in Nat
  /\ pc \in {"idle", "copy", "load", "store"}
  /\ out \in Events \cup {NoEvent}
  /\ old_tail \in Index
  /\ posted \in 0 .. MaxPosts
  /\ polled \in Nat
  /\ flushed \in Nat

\* event_init.
Init ==
  /\ queue = [i \in Index |-> NoEvent]
  /\ head = 0
  /\ tail = 0
  /\ overflow_count = 0
  /\ pc = "idle"
  /\ out = NoEvent
  /\ old_tail = 0
  /\ posted = 0
  /\ polled = 0
  /\ flushed = 0

-----------------------------------------------------------------------------

\* Mutant of Succ: the mask is forgotten.
SuccUnmasked(i) == i + 1

\* (i + 1) & EVENT_QUEUE_MASK.
Succ(i) == IF i = Size - 1 THEN 0 ELSE i + 1

Distance(from, to) == IF from <= to THEN to - from ELSE to - from + Size

\* Mutants of Post: a full queue is overrun; it drops the new event.
PostOverrun(e) ==
  /\ PostInIsr \/ pc = "idle"
  /\ posted < MaxPosts
  /\ queue' = [queue EXCEPT ![head] = e]
  /\ head' = Succ(head)
  /\ posted' = posted + 1
  /\ UNCHANGED <<tail, overflow_count, poll, polled, flushed>>

PostDropsNew(e) ==
  /\ PostInIsr \/ pc = "idle"
  /\ posted < MaxPosts
  /\ IF Succ(head) = tail
     THEN overflow_count' = overflow_count + 1 /\ UNCHANGED <<queue, head>>
     ELSE /\ queue' = [queue EXCEPT ![head] = e]
          /\ head' = Succ(head)
          /\ UNCHANGED overflow_count
  /\ posted' = posted + 1
  /\ UNCHANGED <<tail, poll, polled, flushed>>

\* event_post: a full queue gives up its oldest event.
Post(e) ==
  /\ PostInIsr \/ pc = "idle"
  /\ posted < MaxPosts
  /\ IF Succ(head) = tail
     THEN tail' = Succ(tail) /\ overflow_count' = overflow_count + 1
     ELSE UNCHANGED <<tail, overflow_count>>
  /\ queue' = [queue EXCEPT ![head] = e]
  /\ head' = Succ(head)
  /\ posted' = posted + 1
  /\ UNCHANGED <<poll, polled, flushed>>

\* event_poll: return 0 when head == tail; otherwise copy the event, ...
PollTest ==
  /\ pc = "idle"
  /\ head # tail
  /\ pc' = "copy"
  /\ UNCHANGED <<ring, out, old_tail, counters>>

PollCopy ==
  /\ pc = "copy"
  /\ out' = queue[tail]
  /\ pc' = "load"
  /\ UNCHANGED <<ring, old_tail, counters>>

\* ... load tail to increment it, ...
PollLoad ==
  /\ pc = "load"
  /\ old_tail' = tail
  /\ pc' = "store"
  /\ UNCHANGED <<ring, out, counters>>

\* ... and store it back.
PollStore ==
  /\ pc = "store"
  /\ tail' = Succ(old_tail)
  /\ polled' = polled + 1
  /\ pc' = "idle"
  /\ UNCHANGED <<queue, head, overflow_count, out, old_tail, posted, flushed>>

\* event_flush, called by the consumer: never in the middle of its own poll.
Flush ==
  /\ pc = "idle"
  /\ tail' = head
  /\ flushed' = flushed + Distance(tail, head)
  /\ UNCHANGED <<queue, head, overflow_count, poll, posted, polled>>

Next ==
  \/ \E e \in Events : Post(e)
  \/ PollTest
  \/ PollCopy
  \/ PollLoad
  \/ PollStore
  \/ Flush

Spec == Init /\ [][Next]_vars

-----------------------------------------------------------------------------

(* Between polls every event posted is accounted for: polled, flushed,     *)
(* counted as overflowed, or still between tail and head.  An event that   *)
(* the index arithmetic skips, repeats or hides breaks the balance.        *)
EveryEventAccounted ==
  pc = "idle" =>
    posted = polled + flushed + overflow_count + Distance(tail, head)

(* No event disappears unnoticed, even if it is counted twice.             *)
NothingVanishes ==
  pc = "idle" =>
    posted <= polled + flushed + overflow_count + Distance(tail, head)

\* The event being polled leaves the queue when it is copied.
First == IF pc \in {"load", "store"} THEN Succ(tail) ELSE tail

\* The k-th entry of the ring from i on.
At(i, k) == IF i + k < Size THEN i + k ELSE i + k - Size

Pending == [k \in 1 .. Distance(First, head) |-> queue[At(First, k - 1)]]

Fifo == INSTANCE EventFifo
          WITH Capacity <- Size - 1, pending <- Pending, lost <- overflow_count

(* The ring implements the queue event.h describes: events come out in     *)
(* the order they went in, and only the oldest are dropped.                *)
ImplementsFifo == Fifo!Spec
=============================================================================
