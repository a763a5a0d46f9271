-------------------------- MODULE EventQueueProofs --------------------------
(***************************************************************************)
(* Proofs about kernel/event.c for every ring size, every set of events    *)
(* and any number of posts, in the context its callers use it today: all   *)
(* posts come from tasks.                                                  *)
(***************************************************************************)
EXTENDS EventQueue, SequenceTheorems, TLAPS

(* The inductive invariant behind the balance.  In a poll the queue is not *)
(* empty, and the value of tail it works with is the current one: that is  *)
(* what a post from an interrupt handler would break.                      *)
Balance ==
  posted = polled + flushed + overflow_count + Distance(tail, head)

PollIsCurrent ==
  /\ pc # "idle" => head # tail
  /\ pc = "store" => old_tail = tail

IInv == TypeOK /\ Balance /\ PollIsCurrent

-----------------------------------------------------------------------------

(* Succ and Distance go round the ring: what event_post and event_poll do  *)
(* to head and tail changes the number of queued events by one.            *)
LEMMA RingArithmetic ==
  ASSUME NEW i \in Index, NEW j \in Index
  PROVE  /\ Succ(i) \in Index
         /\ Distance(i, j) \in 0 .. Size - 1
         /\ Distance(i, i) = 0
         /\ Distance(i, j) = 0 => i = j
         /\ i # j => Distance(Succ(i), j) = Distance(i, j) - 1
         /\ Succ(j) # i => Distance(i, Succ(j)) = Distance(i, j) + 1
         /\ Succ(j) = i => Distance(i, j) = Size - 1
         /\ Succ(i) = Succ(j) => i = j
         /\ Succ(i) # i
BY SizeAssumption DEF Index, Succ, Distance

LEMMA InitIInv == Init => IInv
BY SizeAssumption, BoundAssumption
   DEF Init, IInv, TypeOK, Balance, PollIsCurrent, Index, Distance

LEMMA NextIInv ==
  ASSUME ~PostInIsr, IInv, [Next]_vars
  PROVE  IInv'
<1> USE DEF IInv
<1>1. /\ Succ(head) \in Index /\ Succ(tail) \in Index
      /\ Distance(tail, head) \in Nat /\ Distance(tail, head)' \in Int
  <2>1. head' \in Index /\ tail' \in Index
    BY RingArithmetic
       DEF TypeOK, PollIsCurrent, Next, vars, ring, Post, PollTest, PollCopy,
           PollLoad, PollStore, Flush
  <2>2. Distance(tail, head)' \in Int
    BY <2>1, SizeAssumption DEF Index, Distance
  <2>3. Distance(tail, head) \in 0 .. Size - 1
    BY RingArithmetic DEF TypeOK
  <2>4. Succ(head) \in Index /\ Succ(tail) \in Index
    BY RingArithmetic DEF TypeOK
  <2> QED
    BY <2>2, <2>3, <2>4, SizeAssumption
<1>2. CASE \E e \in Events : Post(e)
  <2>1. PICK e \in Events : Post(e)
    BY <1>2
  <2>2. pc = "idle"
    BY <2>1 DEF Post
  <2>3. TypeOK'
    BY <2>1, <1>1, BoundAssumption DEF TypeOK, Post, poll
  <2>4. Balance'
    <3>1. CASE Succ(head) = tail
      <4>1. Distance(tail, head) = Size - 1
        BY <3>1, RingArithmetic DEF TypeOK
      <4>2. Distance(Succ(tail), Succ(head)) = Size - 1
        BY <3>1, <1>1, RingArithmetic, SizeAssumption DEF TypeOK, Distance, Succ, Index
      <4> QED
        BY <2>1, <3>1, <4>1, <4>2, SizeAssumption DEF TypeOK, Post, Balance, poll
    <3>2. CASE Succ(head) # tail
      <4>1. Distance(tail, Succ(head)) = Distance(tail, head) + 1
        BY <3>2, RingArithmetic DEF TypeOK
      <4> QED
        BY <2>1, <3>2, <4>1, <1>1 DEF TypeOK, Post, Balance, poll
    <3> QED BY <3>1, <3>2
  <2> QED
    BY <2>1, <2>2, <2>3, <2>4 DEF PollIsCurrent, Post, poll
<1>3. CASE PollTest
  BY <1>3 DEF PollTest, TypeOK, Balance, PollIsCurrent, ring, counters
<1>4. CASE PollCopy
  BY <1>4 DEF PollCopy, TypeOK, Balance, PollIsCurrent, ring, counters
<1>5. CASE PollLoad
  BY <1>5 DEF PollLoad, TypeOK, Balance, PollIsCurrent, ring, counters
<1>6. CASE PollStore
  <2>1. Distance(Succ(tail), head) = Distance(tail, head) - 1
    BY <1>6, RingArithmetic DEF PollStore, TypeOK, PollIsCurrent
  <2> QED
    BY <1>6, <1>1, <2>1 DEF PollStore, TypeOK, Balance, PollIsCurrent
<1>7. CASE Flush
  <2>1. Distance(head, head) = 0
    BY RingArithmetic DEF TypeOK
  <2> QED
    BY <1>7, <1>1, <2>1 DEF Flush, TypeOK, Balance, PollIsCurrent, poll
<1>8. CASE UNCHANGED vars
  BY <1>8 DEF vars, ring, poll, counters, TypeOK, Balance, PollIsCurrent
<1> QED
  BY <1>2, <1>3, <1>4, <1>5, <1>6, <1>7, <1>8 DEF Next

LEMMA Invariance == ASSUME ~PostInIsr PROVE Spec => []IInv
BY InitIInv, NextIInv, PTL DEF Spec

-----------------------------------------------------------------------------

(* Every variable of the event queue keeps its type: the indexes stay in   *)
(* the ring whatever the order of posts, polls and flushes.                *)
THEOREM TypeCorrect == ASSUME ~PostInIsr PROVE Spec => []TypeOK
BY Invariance, PTL DEF IInv

(* Between polls every event posted by the tasks is polled, flushed,       *)
(* counted as overflowed or still in the queue.                            *)
THEOREM Accounted == ASSUME ~PostInIsr PROVE Spec => []EveryEventAccounted
<1>1. IInv => EveryEventAccounted
  BY DEF IInv, Balance, EveryEventAccounted
<1> QED
  BY <1>1, Invariance, PTL
-----------------------------------------------------------------------------

\* Functions on 1 .. n as sequences.
LEMMA SeqOfFunction ==
  ASSUME NEW S, NEW n \in Nat, NEW f \in [1 .. n -> S]
  PROVE  f \in Seq(S) /\ Len(f) = n
BY SeqDef, LenProperties

LEMMA FunctionOfSeq ==
  ASSUME NEW S, NEW s \in Seq(S)
  PROVE  s \in [1 .. Len(s) -> S] /\ s = [k \in 1 .. Len(s) |-> s[k]]
BY LenProperties

LEMMA AppendOfFunction ==
  ASSUME NEW S, NEW n \in Nat, NEW f \in [1 .. n -> S], NEW e \in S
  PROVE  Append(f, e) = [k \in 1 .. n + 1 |-> IF k = n + 1 THEN e ELSE f[k]]
<1>1. f \in Seq(S) /\ Len(f) = n
  BY SeqOfFunction
<1>2. /\ Append(f, e) \in Seq(S) /\ Len(Append(f, e)) = n + 1
      /\ \A k \in 1 .. n : Append(f, e)[k] = f[k]
      /\ Append(f, e)[n + 1] = e
  BY <1>1, AppendProperties
<1>3. Append(f, e) = [k \in 1 .. n + 1 |-> Append(f, e)[k]]
  BY <1>2, FunctionOfSeq
<1> QED
  BY <1>2, <1>3

LEMMA TailOfFunction ==
  ASSUME NEW S, NEW n \in Nat \ {0}, NEW f \in [1 .. n -> S]
  PROVE  /\ f # << >>
         /\ Head(f) = f[1]
         /\ Tail(f) = [k \in 1 .. n - 1 |-> f[k + 1]]
         /\ Tail(f) \in [1 .. n - 1 -> S]
<1>1. f \in Seq(S) /\ Len(f) = n
  BY SeqOfFunction
<1>2. f # << >>
  BY <1>1
<1>3. /\ Tail(f) \in Seq(S) /\ Len(Tail(f)) = n - 1
      /\ \A k \in 1 .. n - 1 : Tail(f)[k] = f[k + 1]
  BY <1>1, <1>2, HeadTailProperties
<1>4. /\ Tail(f) \in [1 .. n - 1 -> S]
      /\ Tail(f) = [k \in 1 .. n - 1 |-> Tail(f)[k]]
  BY <1>3, FunctionOfSeq
<1>5. Tail(f) = [k \in 1 .. n - 1 |-> f[k + 1]]
  BY <1>3, <1>4
<1>6. Head(f) = f[1]
  BY <1>1
<1> QED
  BY <1>2, <1>4, <1>5, <1>6

-----------------------------------------------------------------------------

LEMMA RingEntries ==
  ASSUME NEW i \in Index, NEW j \in Index
  PROVE  /\ \A k \in 0 .. Size - 1 : At(i, k) \in Index
         /\ At(i, 0) = i
         /\ At(i, Distance(i, j)) = j
         /\ \A k \in 0 .. Size - 1 : k < Distance(i, j) => At(i, k) # j
         /\ \A k \in 0 .. Size - 2 : At(Succ(i), k) = At(i, k + 1)
BY SizeAssumption DEF Index, At, Distance, Succ

Contents == Events \cup {NoEvent}

LEMMA PendingType ==
  ASSUME TypeOK
  PROVE  /\ First \in Index
         /\ Distance(First, head) \in 0 .. Size - 1
         /\ Pending \in [1 .. Distance(First, head) -> Contents]
         /\ Len(Pending) = Distance(First, head)
<1>1. First \in Index
  BY RingArithmetic DEF TypeOK, First
<1>2. Distance(First, head) \in 0 .. Size - 1
  BY <1>1, RingArithmetic DEF TypeOK
<1>3. \A k \in 1 .. Distance(First, head) : At(First, k - 1) \in Index
  BY <1>1, <1>2, RingEntries, SizeAssumption DEF TypeOK
<1>4. Pending \in [1 .. Distance(First, head) -> Contents]
  BY <1>3 DEF TypeOK, Pending, Contents
<1>5. Distance(First, head) \in Nat
  BY <1>2, SizeAssumption
<1> QED
  BY <1>1, <1>2, <1>4, <1>5, SeqOfFunction

\* A post while there is room appends its event.
LEMMA PostAppends ==
  ASSUME IInv, NEW e \in Events, pc = "idle", Post(e), Succ(head) # tail
  PROVE  Pending' = Append(Pending, e)
<1> DEFINE n == Distance(tail, head)
<1>1. /\ First = tail /\ First' = tail
      /\ head' = Succ(head) /\ queue' = [queue EXCEPT ![head] = e]
      /\ head \in Index /\ tail \in Index
      /\ queue \in [Index -> Contents]
  BY DEF IInv, TypeOK, Post, poll, First, Contents
<1>2. n \in Nat /\ n < Size - 1 /\ Distance(tail, Succ(head)) = n + 1
  BY <1>1, RingArithmetic, SizeAssumption DEF Distance, Succ, Index
<1>3. Pending \in [1 .. n -> Contents]
  BY <1>1, PendingType DEF IInv
<1>4. Pending' = [k \in 1 .. n + 1 |-> queue'[At(tail, k - 1)]]
  BY <1>1, <1>2 DEF Pending
<1> HIDE DEF n
<1>5. Append(Pending, e) = [k \in 1 .. n + 1 |-> IF k = n + 1 THEN e ELSE Pending[k]]
  <2>1. e \in Contents
    BY DEF Contents
  <2> QED
    BY <1>2, <1>3, <2>1, AppendOfFunction
<1>6. ASSUME NEW k \in 1 .. n + 1
      PROVE  queue'[At(tail, k - 1)] = IF k = n + 1 THEN e ELSE Pending[k]
  <2>1. CASE k = n + 1
    <3>1. At(tail, k - 1) = head
      BY <1>1, <1>2, <2>1, RingEntries DEF n
    <3> QED
      BY <1>1, <2>1, <3>1
  <2>2. CASE k # n + 1
    <3>1. k - 1 \in 0 .. Size - 1 /\ k - 1 < n /\ k \in 1 .. n
      BY <1>2, <2>2, SizeAssumption
    <3>2. At(tail, k - 1) # head /\ At(tail, k - 1) \in Index
      BY <1>1, <3>1, RingEntries DEF n
    <3>3. Pending[k] = queue[At(tail, k - 1)]
      BY <1>1, <3>1 DEF Pending, n
    <3> QED
      BY <1>1, <2>2, <3>2, <3>3
  <2> QED
    BY <2>1, <2>2
<1> QED
  BY <1>4, <1>5, <1>6

\* The queue without its first event, as a poll or an overflow leaves it.
LEMMA DropFirst ==
  ASSUME IInv, pc \in {"idle", "copy"}, head # tail
  PROVE  /\ Pending # << >>
         /\ Head(Pending) = queue[tail]
         /\ Tail(Pending) = [k \in 1 .. Distance(Succ(tail), head) |->
                                queue[At(Succ(tail), k - 1)]]
<1> DEFINE n == Distance(tail, head)
<1>1. First = tail /\ head \in Index /\ tail \in Index
  BY DEF IInv, TypeOK, First
<1>2. n \in Nat \ {0} /\ n <= Size - 1 /\ Distance(Succ(tail), head) = n - 1
  BY <1>1, RingArithmetic, SizeAssumption DEF Distance, Succ, Index
<1>3. Pending \in [1 .. n -> Contents]
  BY <1>1, PendingType DEF IInv
<1> HIDE DEF n
<1>4. /\ Pending # << >> /\ Head(Pending) = Pending[1]
      /\ Tail(Pending) = [k \in 1 .. n - 1 |-> Pending[k + 1]]
  BY <1>2, <1>3, TailOfFunction
<1>5. Pending[1] = queue[tail]
  BY <1>1, <1>2, RingEntries DEF Pending, n
<1>6. ASSUME NEW k \in 1 .. n - 1
      PROVE  Pending[k + 1] = queue[At(Succ(tail), k - 1)]
  <2>1. k + 1 \in 1 .. n /\ k - 1 \in 0 .. Size - 2 /\ (k + 1) - 1 = (k - 1) + 1
    BY <1>2, SizeAssumption
  <2>2. At(Succ(tail), k - 1) = At(tail, (k - 1) + 1)
    BY <1>1, <2>1, RingEntries
  <2> QED
    BY <1>1, <2>1, <2>2 DEF Pending, n
<1> QED
  BY <1>2, <1>4, <1>5, <1>6

\* A post into a full queue drops the first event and appends its own.
LEMMA PostRotates ==
  ASSUME IInv, NEW e \in Events, pc = "idle", Post(e), Succ(head) = tail
  PROVE  /\ Len(Pending) = Size - 1
         /\ Pending' = Append(Tail(Pending), e)
<1> DEFINE next == Succ(tail)
           n == Distance(next, head)
           rest == Tail(Pending)
<1>1. /\ First = tail /\ First' = next
      /\ head' = tail /\ queue' = [queue EXCEPT ![head] = e]
      /\ head \in Index /\ tail \in Index /\ next \in Index /\ head # tail
      /\ queue \in [Index -> Contents]
  BY RingArithmetic DEF IInv, TypeOK, Post, poll, First, Contents
<1>2. Distance(tail, head) = Size - 1 /\ n = Size - 2 /\ Distance(next, tail) = n + 1
  BY <1>1, RingArithmetic, SizeAssumption DEF Distance, Succ, Index
<1>3. rest = [k \in 1 .. n |-> queue[At(next, k - 1)]]
  BY <1>1, DropFirst
<1>4. Pending' = [k \in 1 .. n + 1 |-> queue'[At(next, k - 1)]]
  BY <1>1, <1>2 DEF Pending
<1>5. n \in Nat /\ n < Size
  BY <1>2, SizeAssumption
<1>6. ASSUME NEW k \in 1 .. n
      PROVE  At(next, k - 1) \in Index /\ At(next, k - 1) # head
  <2>1. k - 1 \in 0 .. Size - 1 /\ k - 1 < n
    BY <1>5, SizeAssumption
  <2> QED
    BY <1>1, <2>1, RingEntries
<1>7. At(next, n) = head
  BY <1>1, RingEntries
<1> HIDE DEF n, next, rest
<1>8. rest \in [1 .. n -> Contents]
  BY <1>1, <1>3, <1>6
<1>9. Append(rest, e) =
        [k \in 1 .. n + 1 |-> IF k = n + 1 THEN e ELSE rest[k]]
  <2>1. e \in Contents
    BY DEF Contents
  <2> QED
    BY <1>5, <1>8, <2>1, AppendOfFunction
<1>10. ASSUME NEW k \in 1 .. n + 1
       PROVE  queue'[At(next, k - 1)] = IF k = n + 1 THEN e ELSE rest[k]
  <2>1. CASE k = n + 1
    <3>1. At(next, k - 1) = head
      BY <1>5, <1>7, <2>1
    <3> QED
      BY <1>1, <2>1, <3>1
  <2>2. CASE k # n + 1
    <3>1. k \in 1 .. n
      BY <1>5, <2>2
    <3>2. rest[k] = queue[At(next, k - 1)]
      BY <1>3, <3>1
    <3> QED
      BY <1>1, <1>6, <2>2, <3>1, <3>2
  <2> QED
    BY <2>1, <2>2
<1>11. Pending' = Append(Tail(Pending), e)
  BY <1>4, <1>9, <1>10 DEF rest
<1>12. Len(Pending) = Size - 1
  BY <1>1, <1>2, PendingType DEF IInv
<1> QED
  BY <1>11, <1>12

LEMMA StepImplementsFifo ==
  ASSUME ~PostInIsr, IInv, IInv', [Next]_vars
  PROVE  [Fifo!Next]_(Fifo!vars)
<1> USE DEF Fifo!Next, Fifo!vars
<1>1. ASSUME NEW e \in Events, Post(e)
      PROVE  Fifo!Post(e)
  <2>1. pc = "idle" /\ UNCHANGED out
    BY <1>1 DEF Post, poll
  <2>2. CASE Succ(head) = tail
    BY <1>1, <2>1, <2>2, PostRotates DEF Post, Fifo!Post
  <2>3. CASE Succ(head) # tail
    <3>1. Pending' = Append(Pending, e) /\ UNCHANGED overflow_count
      BY <1>1, <2>1, <2>3, PostAppends DEF Post
    <3>2. Len(Pending) # Size - 1
      <4>1. First = tail /\ head \in Index /\ tail \in Index
        BY <2>1 DEF First, IInv, TypeOK
      <4>2. Distance(tail, head) # Size - 1
        BY <2>3, <4>1, SizeAssumption DEF Index, Distance, Succ
      <4> QED
        BY <4>1, <4>2, PendingType DEF IInv
    <3> QED
      BY <2>1, <3>1, <3>2 DEF Fifo!Post
  <2> QED
    BY <2>2, <2>3
<1>2. CASE PollTest
  BY <1>2 DEF PollTest, ring, Pending, First
<1>3. CASE PollCopy
  <2>1. pc = "copy" /\ head # tail /\ UNCHANGED <<queue, head, tail>>
    BY <1>3 DEF PollCopy, ring, IInv, PollIsCurrent
  <2>2. First' = Succ(tail)
    BY <1>3 DEF PollCopy, First, ring
  <2>3. Pending' = [k \in 1 .. Distance(Succ(tail), head) |-> queue[At(Succ(tail), k - 1)]]
    BY <2>1, <2>2 DEF Pending
  <2>4. out' = queue[tail] /\ UNCHANGED overflow_count
    BY <1>3 DEF PollCopy, ring
  <2> QED
    BY <2>1, <2>3, <2>4, DropFirst DEF Fifo!Poll
<1>4. CASE PollLoad
  BY <1>4 DEF PollLoad, ring, Pending, First
<1>5. CASE PollStore
  <2>1. First = Succ(tail) /\ First' = Succ(tail)
    BY <1>5 DEF PollStore, First, IInv, PollIsCurrent
  <2>2. UNCHANGED <<queue, head, overflow_count, out>>
    BY <1>5 DEF PollStore
  <2> QED
    BY <2>1, <2>2 DEF Pending
<1>6. CASE Flush
  <2>1. First' = head /\ UNCHANGED <<queue, head, overflow_count, out>>
    BY <1>6 DEF Flush, First, poll
  <2>2. Distance(head, head) = 0
    BY RingArithmetic DEF IInv, TypeOK
  <2>3. Pending' = << >>
    BY <2>1, <2>2 DEF Pending
  <2> QED
    BY <2>1, <2>3 DEF Fifo!Flush
<1>7. CASE UNCHANGED vars
  BY <1>7 DEF vars, ring, poll, Pending, First
<1> QED
  BY <1>1, <1>2, <1>3, <1>4, <1>5, <1>6, <1>7 DEF Next

(* event.c implements the bounded queue event.h describes, for every size: *)
(* events come out in the order they went in, only the oldest are dropped  *)
(* and every drop is counted.                                              *)
THEOREM Implements == ASSUME ~PostInIsr PROVE Spec => ImplementsFifo
<1>1. Init => Fifo!Init
  <2>1. ASSUME Init PROVE Pending = << >>
    BY <2>1, SizeAssumption DEF Init, Pending, First, Distance
  <2> QED
    BY <2>1 DEF Init, Fifo!Init
<1>2. Spec => []IInv
  BY Invariance
<1>3. IInv /\ IInv' /\ [Next]_vars => [Fifo!Next]_(Fifo!vars)
  BY StepImplementsFifo
<1> QED
  BY <1>1, <1>2, <1>3, PTL DEF Spec, ImplementsFifo, Fifo!Spec
=============================================================================
