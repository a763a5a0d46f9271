--------------------------- MODULE MainLoopProofs ---------------------------
(***************************************************************************)
(* The scheduler's and the main loop's invariants, for every task table,   *)
(* every width of the counter, every length of a pass and every queue that *)
(* has room for what the table lets the input tasks post.                  *)
(*                                                                         *)
(* A counter read now and then only shows time modulo TickMod.  The        *)
(* scheduler's invariant is therefore about the differences the code       *)
(* computes: how far the counter is from the tick the pass sampled, and    *)
(* how far that is from each task's last_tick.  Both stay below TickMod,   *)
(* so that the unsigned subtraction gives the true difference.             *)
(***************************************************************************)
EXTENDS MainLoop, SequenceTheorems, WellFoundedInduction, TLAPS

-----------------------------------------------------------------------------
(* The scheduler. *)

Lag == Elapsed(systick_ms, now)
Since(t) == Elapsed(now, last_tick[t])

PassBounded == Lag <= MaxPass

\* Once the pass has been at a task, it was not due or was called.
SinceBounded ==
  \A t \in Tasks : IF turn <= t THEN Since(t) <= Interval[t] + MaxPass
                                ELSE Since(t) < Interval[t] \/ Since(t) = 0

\* The task was called no earlier than the pass that called it began.
AgeBounded == age <= Since(Watched) + Lag

SchedIInv == SchedTypeOK /\ PassBounded /\ SinceBounded /\ AgeBounded

LEMMA ElapsedRange ==
  ASSUME NEW a \in 0 .. TickMod - 1, NEW b \in 0 .. TickMod - 1
  PROVE  /\ Elapsed(a, b) \in 0 .. TickMod - 1
         /\ Elapsed(a, a) = 0
  BY TimeAssumption DEF Elapsed

\* Unsigned differences add up as long as the sum fits the counter.
LEMMA ElapsedAdds ==
  ASSUME NEW a \in 0 .. TickMod - 1, NEW b \in 0 .. TickMod - 1,
         NEW c \in 0 .. TickMod - 1,
         Elapsed(a, b) + Elapsed(b, c) < TickMod
  PROVE  Elapsed(a, c) = Elapsed(a, b) + Elapsed(b, c)
  BY TimeAssumption DEF Elapsed

LEMMA ElapsedTick ==
  ASSUME NEW a \in 0 .. TickMod - 1, NEW b \in 0 .. TickMod - 1,
         NEW c \in 0 .. TickMod - 1,
         c = IF a = TickMod - 1 THEN 0 ELSE a + 1,
         Elapsed(a, b) < TickMod - 1
  PROVE  Elapsed(c, b) = Elapsed(a, b) + 1
  BY TimeAssumption DEF Elapsed

\* What the types and the constants say of one task.
LEMMA TaskFacts ==
  ASSUME SchedTypeOK, NEW t \in Tasks
  PROVE  /\ Interval[t] \in Nat /\ MaxPass \in Nat /\ TickMod \in Nat
         /\ TaskCount \in Nat /\ t \in 1 .. TaskCount
         /\ Interval[t] + 2 * MaxPass < TickMod
         /\ systick_ms \in 0 .. TickMod - 1 /\ now \in 0 .. TickMod - 1
         /\ last_tick[t] \in 0 .. TickMod - 1
         /\ turn \in 1 .. TaskCount + 1 /\ age \in Nat
         /\ Lag \in 0 .. TickMod - 1 /\ Since(t) \in 0 .. TickMod - 1
<1>1. /\ Interval[t] \in Nat /\ MaxPass \in Nat /\ TickMod \in Nat
      /\ TaskCount \in Nat /\ t \in 1 .. TaskCount
      /\ Interval[t] + 2 * MaxPass < TickMod
  BY TaskAssumption, TimeAssumption DEF Tasks
<1>2. /\ systick_ms \in 0 .. TickMod - 1 /\ now \in 0 .. TickMod - 1
      /\ last_tick[t] \in 0 .. TickMod - 1
      /\ turn \in 1 .. TaskCount + 1 /\ age \in Nat
  BY DEF SchedTypeOK
<1> QED
  BY <1>1, <1>2, ElapsedRange DEF Lag, Since

LEMMA SchedTypeStep ==
  ASSUME SchedTypeOK, [SchedNext]_schedVars
  PROVE  SchedTypeOK'
<1> USE TaskAssumption, TimeAssumption
<1>1. CASE Tick
  BY <1>1 DEF Tick, SchedTypeOK, loop
<1>2. CASE StartPass
  BY <1>2 DEF StartPass, SchedTypeOK
<1>3. CASE Skip
  BY <1>3 DEF Skip, SchedTypeOK, Tasks
<1>4. ASSUME NEW t \in Tasks, Call(t) PROVE SchedTypeOK'
  BY <1>4 DEF Call, SchedTypeOK, Tasks
<1>5. CASE UNCHANGED schedVars
  BY <1>5 DEF schedVars, loop, SchedTypeOK
<1> QED
  BY <1>1, <1>2, <1>3, <1>4, <1>5 DEF SchedNext

LEMMA InitSchedIInv == SchedInit => SchedIInv
<1> SUFFICES ASSUME SchedInit PROVE SchedIInv
  OBVIOUS
<1>1. SchedTypeOK
  BY TaskAssumption, TimeAssumption DEF SchedInit, SchedTypeOK, Tasks
<1>2. Watched \in Tasks
  BY TaskAssumption
<1>3. Lag = 0 /\ age = 0
  BY <1>1, <1>2, TaskFacts, ElapsedRange DEF SchedInit, Lag
<1>4. ASSUME NEW t \in Tasks PROVE Since(t) = 0 /\ ~(turn <= t)
  BY <1>1, <1>4, TaskFacts, ElapsedRange DEF SchedInit, Since
<1> QED
  BY <1>1, <1>2, <1>3, <1>4, TaskFacts
     DEF SchedIInv, PassBounded, SinceBounded, AgeBounded

\* A tick: the pass takes longer, what it has sampled stays.
LEMMA TickKeeps == ASSUME SchedIInv, Tick PROVE SchedIInv'
<1> USE DEF SchedIInv
<1>1. SchedTypeOK'
  BY SchedTypeStep DEF SchedNext
<1>2. Watched \in Tasks
  BY TaskAssumption
<1>3. turn' = turn /\ age' = age + 1 /\ \A t \in Tasks : Since(t)' = Since(t)
  BY DEF Tick, loop, Since
<1>4. Lag' = Lag + 1 /\ Lag < MaxPass
  <2>1. Lag < MaxPass
    BY DEF Tick, Lag
  <2>2. systick_ms' \in 0 .. TickMod - 1 /\ now' = now
    BY <1>1, <1>2 DEF Tick, SchedTypeOK, loop
  <2>3. systick_ms' = IF systick_ms = TickMod - 1 THEN 0 ELSE systick_ms + 1
    BY DEF Tick
  <2>4. Elapsed(systick_ms, now) < TickMod - 1
    BY <1>2, <2>1, TaskFacts DEF Lag
  <2>5. Elapsed(systick_ms', now) = Elapsed(systick_ms, now) + 1
    BY <1>2, <2>2, <2>3, <2>4, TaskFacts, ElapsedTick
  <2> QED
    BY <2>1, <2>2, <2>5 DEF Lag
<1> QED
  BY <1>1, <1>2, <1>3, <1>4, TaskFacts
     DEF PassBounded, SinceBounded, AgeBounded

\* A pass begins: all the tasks are as much later as it took to come round.
LEMMA StartAdds ==
  ASSUME SchedIInv, StartPass, NEW t \in Tasks
  PROVE  Since(t)' = Since(t) + Lag /\ Since(t) <= Interval[t]
<1> USE DEF SchedIInv
<1>1. Since(t) <= Interval[t]
  BY TaskFacts DEF StartPass, SinceBounded
<1>2. Elapsed(systick_ms, now) + Elapsed(now, last_tick[t]) < TickMod
  BY <1>1, TaskFacts DEF PassBounded, Lag, Since
<1>3. Elapsed(systick_ms, last_tick[t])
        = Elapsed(systick_ms, now) + Elapsed(now, last_tick[t])
  BY <1>2, TaskFacts, ElapsedAdds
<1>4. Since(t)' = Elapsed(systick_ms, last_tick[t])
  BY DEF StartPass, Since
<1> QED
  BY <1>1, <1>3, <1>4, TaskFacts DEF Lag, Since

LEMMA StartKeeps == ASSUME SchedIInv, StartPass PROVE SchedIInv'
<1> USE DEF SchedIInv
<1>1. SchedTypeOK'
  BY SchedTypeStep DEF SchedNext
<1>2. Watched \in Tasks
  BY TaskAssumption
<1>3. Lag' = 0
  BY <1>2, TaskFacts, ElapsedRange DEF StartPass, Lag
<1>4. age' = age /\ turn' = 1
  BY DEF StartPass
<1>5. \A t \in Tasks : Since(t)' <= Interval[t] + MaxPass /\ turn' <= t
  BY <1>4, StartAdds, TaskFacts DEF PassBounded
<1>6. age' <= Since(Watched)' + Lag'
  BY <1>2, <1>3, <1>4, StartAdds, TaskFacts DEF AgeBounded
<1> QED
  BY <1>1, <1>2, <1>3, <1>5, <1>6, TaskFacts
     DEF PassBounded, SinceBounded, AgeBounded

LEMMA SkipKeeps == ASSUME SchedIInv, Skip PROVE SchedIInv'
<1> USE DEF SchedIInv
<1>1. SchedTypeOK'
  BY SchedTypeStep DEF SchedNext
<1>2. Lag' = Lag /\ age' = age /\ turn' = turn + 1
  BY DEF Skip, Lag
<1>3. \A t \in Tasks : Since(t)' = Since(t)
  BY DEF Skip, Since
<1>4. \A t \in Tasks : turn = t => Since(t) < Interval[t]
  BY TaskFacts DEF Skip, Due, Since
<1>5. SinceBounded'
  BY <1>2, <1>3, <1>4, TaskFacts DEF SinceBounded
<1> QED
  BY <1>1, <1>2, <1>3, <1>5, TaskAssumption DEF PassBounded, AgeBounded

\* A call changes the task called and no other.
LEMMA CallSince ==
  ASSUME SchedIInv, NEW t \in Tasks, Call(t)
  PROVE  /\ Since(t)' = 0 /\ Since(t) >= Interval[t]
         /\ \A u \in Tasks \ {t} : Since(u)' = Since(u)
<1> USE DEF SchedIInv
<1>1. last_tick'[t] = now /\ now' = now
  BY DEF Call, SchedTypeOK
<1>2. \A u \in Tasks \ {t} : last_tick'[u] = last_tick[u]
  BY DEF Call, SchedTypeOK
<1>3. Since(t) >= Interval[t]
  BY DEF Call, Due, Since
<1> QED
  BY <1>1, <1>2, <1>3, TaskFacts, ElapsedRange DEF Since

LEMMA CallKeeps ==
  ASSUME SchedIInv, NEW t \in Tasks, Call(t)
  PROVE  SchedIInv'
<1> USE DEF SchedIInv
<1>1. SchedTypeOK'
  BY SchedTypeStep DEF SchedNext
<1>2. Lag' = Lag /\ turn = t /\ turn' = t + 1
  BY DEF Call, Lag
<1>3. age' = IF t = Watched THEN 0 ELSE age
  BY DEF Call
<1>4. ASSUME NEW u \in Tasks
      PROVE  IF turn' <= u THEN Since(u)' <= Interval[u] + MaxPass
                           ELSE Since(u)' < Interval[u] \/ Since(u)' = 0
  <2>1. CASE u = t
    BY <1>2, <2>1, CallSince, TaskFacts
  <2>2. CASE u # t
    <3>1. turn' <= u <=> turn <= u
      BY <1>2, <2>2, TaskFacts
    <3> QED
      BY <2>2, <3>1, CallSince DEF SinceBounded
  <2> QED
    BY <2>1, <2>2
<1>5. AgeBounded'
  <2>1. Watched \in Tasks
    BY TaskAssumption
  <2>2. CASE t = Watched
    BY <1>2, <1>3, <2>1, <2>2, CallSince, TaskFacts DEF AgeBounded
  <2>3. CASE t # Watched
    BY <1>2, <1>3, <2>1, <2>3, CallSince DEF AgeBounded
  <2> QED
    BY <2>2, <2>3
<1> QED
  BY <1>1, <1>2, <1>4, <1>5 DEF PassBounded, SinceBounded

LEMMA NextSchedIInv == SchedIInv /\ [SchedNext]_schedVars => SchedIInv'
<1> SUFFICES ASSUME SchedIInv, [SchedNext]_schedVars PROVE SchedIInv'
  OBVIOUS
<1>1. CASE UNCHANGED schedVars
  BY <1>1 DEF SchedIInv, schedVars, loop, SchedTypeOK, PassBounded,
              SinceBounded, AgeBounded, Lag, Since
<1> QED
  BY <1>1, TickKeeps, StartKeeps, SkipKeeps, CallKeeps DEF SchedNext

(* Every task of sched_run is called in time: after its interval, the rest *)
(* of one pass and a whole one at the latest, whatever the counter reads.  *)
THEOREM TasksCalledInTime == SchedSpec => []CalledInTime
<1>1. SchedIInv => CalledInTime
  <2> SUFFICES ASSUME SchedIInv PROVE CalledInTime
    OBVIOUS
  <2> Watched \in Tasks
    BY TaskAssumption
  <2> QED
    BY TaskFacts
       DEF SchedIInv, CalledInTime, PassBounded, SinceBounded, AgeBounded
<1> QED
  BY <1>1, InitSchedIInv, NextSchedIInv, PTL DEF SchedSpec

-----------------------------------------------------------------------------
(* The main loop as a run of the scheduler. *)

LEMMA StepIsSchedStep == [Next]_allVars => [SchedNext]_schedVars
<1> SUFFICES ASSUME [Next]_allVars PROVE [SchedNext]_schedVars
  OBVIOUS
<1>1. CASE Dispatch
  <2>1. \A t \in Tasks : Call(t) => SchedNext
    BY DEF SchedNext
  <2>2. {Encoder, Keypad, Buttons, Ui} \subseteq Tasks
    BY RoleAssumption
  <2>3. CASE StartPass \/ Skip
    BY <2>3 DEF SchedNext
  <2>4. CASE task_encoder \/ task_keypad \/ task_buttons \/ UiEnter \/ OtherTask
    BY <2>1, <2>2, <2>4
       DEF task_encoder, task_keypad, task_buttons, Producer, UiEnter, OtherTask
  <2> QED
    BY <1>1, <2>3, <2>4 DEF Dispatch
<1>2. CASE UiEvent \/ UiReturn
  BY <1>2 DEF UiEvent, UiReturn
<1>3. CASE SysTick
  BY <1>3 DEF SysTick, SchedNext
<1>4. CASE UNCHANGED allVars
  BY <1>4 DEF allVars
<1> QED
  BY <1>1, <1>2, <1>3, <1>4 DEF Next, Pass

(* The main loop is a run of sched_run: task_ui's inner loop over          *)
(* event_poll and the posts of the input tasks do not disturb it.          *)
THEOREM LoopImplementsScheduler == Spec => SchedSpec
  BY StepIsSchedStep, PTL DEF Spec, Init, SchedSpec

(* encoder, keypad, buttons and ui are called in time, whatever the others *)
(* do within the length of a pass.                                         *)
THEOREM LoopCalledInTime == Spec => []CalledInTime
  BY LoopImplementsScheduler, TasksCalledInTime, PTL

-----------------------------------------------------------------------------
(* The channel the knob finds. *)

LEMMA LeastNatural ==
  ASSUME NEW S, S \subseteq Nat, S # {}
  PROVE  \E k \in S : \A j \in S : k <= j
<1> DEFINE R == {ss \in Nat \X Nat : ss[1] < ss[2]}
<1>1. OpToRel(<, Nat) = R
  BY Zenon DEF OpToRel
<1>2. \E k \in S : \A j \in S : <<j, k>> \notin R
  <2> HIDE DEF R
  <2>1. IsWellFoundedOn(R, Nat)
    BY <1>1, NatLessThanWellFounded, Zenon
  <2> QED
    BY <2>1, WFMin, Zenon
<1>3. \A j, k \in Nat : <<j, k>> \notin R => k <= j
  OBVIOUS
<1> QED
  BY <1>2, <1>3

LEMMA ModOnce ==
  ASSUME NEW n \in Nat, n > 0, NEW x \in 0 .. n - 1
  PROVE  x % n = x /\ (x + n) % n = x /\ (x - n) % n = x
  OBVIOUS

\* Every channel is met within one round, in either direction.
LEMMA RoundMeets ==
  ASSUME NEW start \in Channels, NEW dir \in {1, -1}, NEW s \in Channels
  PROVE  \E k \in 1 .. ChannelCount : Nth(start, dir, k) = s
<1> USE ChannelAssumption DEF Channels
<1>1. CASE dir = 1
  <2> DEFINE k == IF s > start THEN s - start ELSE s - start + ChannelCount
  <2>1. k \in 1 .. ChannelCount
    OBVIOUS
  <2>2. start + dir * k = s \/ start + dir * k = s + ChannelCount
    BY <1>1
  <2>3. Nth(start, dir, k) = s
    BY <2>2, ModOnce DEF Nth
  <2> QED
    BY <2>1, <2>3
<1>2. CASE dir = -1
  <2> DEFINE k == IF s < start THEN start - s ELSE start - s + ChannelCount
  <2>1. k \in 1 .. ChannelCount
    OBVIOUS
  <2>2. start + dir * k = s \/ start + dir * k = s - ChannelCount
    BY <1>2
  <2>3. Nth(start, dir, k) = s
    BY <2>2, ModOnce DEF Nth
  <2> QED
    BY <2>1, <2>3
<1> QED
  BY <1>1, <1>2

(* The search finds a channel with a record, if there is one.              *)
LEMMA FoundIsStored ==
  ASSUME NEW start \in Channels, NEW dir \in {1, -1}, Stored # {}
  PROVE  channel_find_next(start, dir) \in Stored
<1> DEFINE Hit(k) == Nth(start, dir, k) \in Stored
<1> DEFINE Hits == {k \in 1 .. ChannelCount : Hit(k)}
<1>1. Stored \subseteq Channels /\ ChannelCount \in Nat
  BY ChannelAssumption DEF Channels
<1>2. Hits # {} /\ Hits \subseteq Nat
  BY <1>1, RoundMeets
<1>3. PICK k \in Hits : \A j \in Hits : k <= j
  <2> HIDE DEF Hits
  <2> QED
    BY <1>2, LeastNatural
<1>4. /\ k \in 1 .. ChannelCount /\ Hit(k)
      /\ \A j \in 1 .. k - 1 : ~Hit(j)
  BY <1>1, <1>3
<1> QED
  BY <1>4 DEF channel_find_next

LEMMA TurnedIsChannel ==
  ASSUME NEW ch \in Channels, NEW e
  PROVE  Turned(ch, e) \in Channels
<1>1. Stored \subseteq Channels
  BY ChannelAssumption DEF Channels
<1>2. Direction(e) \in {1, -1}
  BY DEF Direction
<1>3. CASE Stored = {}
  BY <1>3 DEF Turned, channel_find_next
<1>4. CASE Stored # {}
  BY <1>1, <1>2, <1>4, FoundIsStored DEF Turned
<1> QED
  BY <1>3, <1>4

-----------------------------------------------------------------------------
(* Type correctness. *)

LEMMA RoomForOne == QueueCapacity \in Nat /\ QueueCapacity > 0
  BY QueueAssumption

\* A queue of events within its length: what LoopTypeOK says of the fifo.
FifoOK ==
  /\ pending \in Seq(Events) /\ Len(pending) <= QueueCapacity
  /\ out \in Events \cup {"none"}
  /\ lost \in Nat

LEMMA PostKeepsFifo ==
  ASSUME FifoOK, NEW e \in Events, Queue!Post(e)
  PROVE  FifoOK'
<1>1. CASE Len(pending) = QueueCapacity
  <2>1. pending # <<>>
    BY <1>1, RoomForOne DEF FifoOK
  <2>2. Tail(pending) \in Seq(Events) /\ Len(Tail(pending)) = QueueCapacity - 1
    BY <1>1, <2>1 DEF FifoOK
  <2>3. pending' = Append(Tail(pending), e) /\ lost' = lost + 1 /\ out' = out
    BY <1>1 DEF Queue!Post
  <2> QED
    BY <2>2, <2>3, RoomForOne DEF FifoOK
<1>2. CASE Len(pending) # QueueCapacity
  <2>1. pending' = Append(pending, e) /\ lost' = lost /\ out' = out
    BY <1>2 DEF Queue!Post
  <2> QED
    BY <1>2, <2>1, RoomForOne DEF FifoOK
<1> QED
  BY <1>1, <1>2

LEMMA PollKeepsFifo == ASSUME FifoOK, Queue!Poll PROVE FifoOK' /\ out' = Head(pending)
  BY RoomForOne DEF FifoOK, Queue!Poll

LEMMA InitLoopType == Init => LoopTypeOK
<1> SUFFICES ASSUME Init PROVE LoopTypeOK
  OBVIOUS
<1>1. SchedTypeOK
  BY InitSchedIInv DEF Init, SchedIInv
<1>2. /\ pending = <<>> /\ out = "none" /\ lost = 0
      /\ prev_ptt = 1 /\ polling = FALSE /\ tuned = Boot
      /\ ui_current_ch = 1 /\ wanted = 1
  BY DEF Init, Queue!Init
<1>3. 1 \in Channels
  BY ChannelAssumption DEF Channels
<1>4. FifoOK
  BY <1>2, RoomForOne DEF FifoOK
<1>5. polling \in BOOLEAN /\ (polling => turn = Ui + 1)
  BY <1>2, Zenon
<1> QED
  BY <1>1, <1>2, <1>3, <1>4, <1>5 DEF LoopTypeOK, FifoOK

LEMMA ProducerKeepsType ==
  ASSUME LoopTypeOK, SchedTypeOK', ~polling, NEW t, NEW S \in SUBSET Events,
         Producer(t, S), prev_ptt' = prev_ptt
  PROVE  LoopTypeOK'
<1>1. FifoOK
  BY DEF LoopTypeOK, FifoOK
<1>2. FifoOK' /\ wanted' \in Channels
  <2>1. CASE UNCHANGED <<fifo, wanted>>
    BY <1>1, <2>1 DEF fifo, FifoOK, LoopTypeOK
  <2>2. ASSUME NEW e \in S, Queue!Post(e), wanted' = Turned(wanted, e)
        PROVE  FifoOK' /\ wanted' \in Channels
    BY <1>1, <2>2, PostKeepsFifo, TurnedIsChannel DEF LoopTypeOK
  <2> QED
    BY <2>1, <2>2 DEF Producer
<1> QED
  BY <1>2 DEF LoopTypeOK, FifoOK, Producer, ui

LEMMA NextLoopType == LoopTypeOK /\ [Next]_allVars => LoopTypeOK'
<1> SUFFICES ASSUME LoopTypeOK, [Next]_allVars PROVE LoopTypeOK'
  OBVIOUS
<1>1. SchedTypeOK'
  BY SchedTypeStep, StepIsSchedStep DEF LoopTypeOK
<1>2. FifoOK
  BY DEF LoopTypeOK, FifoOK
<1>3. Stored \subseteq Channels
  BY ChannelAssumption DEF Channels
<1>4. CASE Dispatch
  <2>1. ~polling
    BY <1>4 DEF Dispatch
  <2>2. CASE (StartPass \/ Skip) /\ UNCHANGED <<fifo, prev_ptt, polling, ui, wanted>>
    BY <1>1, <2>1, <2>2 DEF LoopTypeOK, fifo, ui
  <2>3. CASE task_encoder
    BY <1>1, <2>1, <2>3, ProducerKeepsType DEF task_encoder, Events
  <2>4. CASE task_keypad
    BY <1>1, <2>1, <2>4, ProducerKeepsType DEF task_keypad, Events
  <2>5. CASE task_buttons
    <3>1. prev_ptt' \in {0, 1}
      BY <2>5 DEF task_buttons
    <3>2. CASE UNCHANGED fifo
      BY <1>1, <2>1, <2>5, <3>1, <3>2 DEF task_buttons, LoopTypeOK, fifo, ui
    <3>3. ASSUME NEW e \in Events, Queue!Post(e)
          PROVE  LoopTypeOK'
      <4>1. FifoOK'
        BY <1>2, <3>3, PostKeepsFifo
      <4> QED
        BY <1>1, <2>1, <2>5, <3>1, <4>1 DEF task_buttons, LoopTypeOK, FifoOK, ui
    <3> QED
      BY <2>5, <3>2, <3>3 DEF task_buttons, Events
  <2>6. CASE UiEnter
    BY <1>1, <2>6 DEF UiEnter, Call, LoopTypeOK, fifo, ui
  <2>7. CASE OtherTask
    BY <1>1, <2>1, <2>7 DEF OtherTask, LoopTypeOK, fifo, ui
  <2> QED
    BY <1>4, <2>2, <2>3, <2>4, <2>5, <2>6, <2>7 DEF Dispatch
<1>5. CASE UiEvent
  <2>1. FifoOK' /\ out' = Head(pending)
    BY <1>2, <1>5, PollKeepsFifo DEF UiEvent
  <2>2. ui_current_ch' \in Channels /\ tuned' \in Channels \cup {Boot}
    <3> DEFINE next == channel_find_next(ui_current_ch, Direction(out'))
    <3>1. CASE next # None /\ ui_commit_channel(next)
      <4>1. Stored # {}
        BY <3>1 DEF channel_find_next
      <4>2. next \in Channels
        BY <1>3, <4>1, FoundIsStored DEF Direction, LoopTypeOK
      <4> HIDE DEF next
      <4> QED
        BY <1>3, <3>1, <4>2 DEF ui_commit_channel, LoopTypeOK
    <3>2. CASE UNCHANGED ui
      BY <3>2 DEF ui, LoopTypeOK
    <3> QED
      BY <1>5, <3>1, <3>2 DEF UiEvent
  <2> QED
    BY <1>1, <1>5, <2>1, <2>2 DEF UiEvent, LoopTypeOK, FifoOK, schedVars, loop
<1>6. CASE UiReturn
  BY <1>1, <1>6 DEF UiReturn, LoopTypeOK, fifo, ui
<1>7. CASE SysTick
  BY <1>1, <1>7 DEF SysTick, Tick, loop, LoopTypeOK, fifo, ui
<1>8. CASE UNCHANGED allVars
  BY <1>8 DEF allVars, schedVars, loop, SchedTypeOK, LoopTypeOK, fifo, ui
<1> QED
  BY <1>4, <1>5, <1>6, <1>7, <1>8 DEF Next, Pass

(* The queue holds events only and never more than it has room for, the    *)
(* knob only ever selects a channel there is, and VFO A is what radio_init *)
(* gave it or was loaded from one.                                         *)
THEOREM LoopTypeCorrect == Spec => []LoopTypeOK
  BY InitLoopType, NextLoopType, PTL DEF Spec

-----------------------------------------------------------------------------
(* No event is lost. *)

Inputs == {Encoder, Keypad, Buttons}

\* What each input task can post between two drains.
Most == CHOOSE most \in [Inputs -> 1 .. QueueCapacity] :
          /\ \A t \in Inputs : (most[t] - 1) * Interval[t] >= Interval[Ui] - 1
          /\ most[Encoder] + most[Keypad] + most[Buttons] <= QueueCapacity

\* n posts of t since the drain took n - 1 intervals of it, and the first of
\* them came later than the drain.
SpacedOut(t, n) ==
  n >= 1 => (n - 1) * Interval[t] + Since(t) + 1 <= Since(Ui)

\* The last post it has room for is for the pass that will drain the queue.
WithinMost(t, n) ==
  n <= IF t < turn /\ turn <= Ui THEN Most[t] ELSE Most[t] - 1

Accounts(posts) ==
  /\ Len(pending) <= posts[Encoder] + posts[Keypad] + posts[Buttons]
  /\ \A t \in Inputs : SpacedOut(t, posts[t]) /\ WithinMost(t, posts[t])

\* The drain came after the input task's turn.
InputsBeforeUi == \A t \in Inputs : Since(t) < Since(Ui) + Interval[t]

QueueIInv ==
  /\ NoEventLost
  /\ InputsBeforeUi
  /\ ~polling => \E posts \in [Inputs -> Nat] : Accounts(posts)

LoopIInv == SchedIInv /\ LoopTypeOK /\ QueueIInv

LEMMA RoleFacts ==
  /\ Ui \in Tasks /\ Interval[Ui] \in Nat /\ Interval[Ui] >= 1
  /\ Ui \in Nat
  /\ Inputs \subseteq Tasks
  /\ Encoder # Keypad /\ Encoder # Buttons /\ Keypad # Buttons
  /\ \A t \in Inputs : t \in Nat /\ t < Ui /\ Interval[t] \in Nat /\ Interval[t] >= 1
<1> USE RoleAssumption, TaskAssumption DEF Inputs, Tasks
<1>1. {Encoder, Keypad, Buttons, Ui} \subseteq Tasks
  OBVIOUS
<1>2. \A t \in {Encoder, Keypad, Buttons, Ui} : Interval[t] \in Nat /\ Interval[t] >= 1
  BY <1>1, QueueAssumption
<1> QED
  BY <1>1, <1>2

LEMMA MostFacts ==
  /\ \A t \in Inputs : /\ Most[t] \in Nat /\ Most[t] >= 1
                       /\ (Most[t] - 1) * Interval[t] >= Interval[Ui] - 1
  /\ Most[Encoder] + Most[Keypad] + Most[Buttons] <= QueueCapacity
<1> DEFINE Fits(most) ==
      /\ \A t \in Inputs : (most[t] - 1) * Interval[t] >= Interval[Ui] - 1
      /\ most[Encoder] + most[Keypad] + most[Buttons] <= QueueCapacity
<1>1. \E most \in [Inputs -> 1 .. QueueCapacity] : Fits(most)
  BY QueueAssumption DEF Inputs
<1>2. Most \in [Inputs -> 1 .. QueueCapacity] /\ Fits(Most)
  BY <1>1 DEF Most
<1>3. \A t \in Inputs : Most[t] \in 1 .. QueueCapacity
  BY <1>2
<1> QED
  BY <1>2, <1>3, RoomForOne

LEMMA FewerIntervals ==
  ASSUME NEW i \in Nat, i >= 1, NEW n \in Int, NEW m \in Int, n * i < m * i
  PROVE  n < m
<1>1. n >= m => n * i >= m * i
  OBVIOUS
<1>2. n * i \in Int /\ m * i \in Int
  OBVIOUS
<1> QED
  BY <1>1, <1>2

\* Until task_ui is due, no input task has posted its most.
LEMMA RoomForNextPass ==
  ASSUME SchedIInv, NEW t \in Inputs, NEW n \in Nat, SpacedOut(t, n),
         Since(Ui) < Interval[Ui]
  PROVE  n <= Most[t] - 1
<1>1. CASE n = 0
  BY <1>1, MostFacts
<1>2. CASE n >= 1
  <2>1. Since(t) \in Nat /\ Since(Ui) \in Nat
    BY RoleFacts, TaskFacts DEF SchedIInv
  <2>2. /\ Interval[t] \in Nat /\ Interval[t] >= 1 /\ Interval[Ui] \in Nat
        /\ Most[t] \in Nat
    BY RoleFacts, MostFacts
  <2> DEFINE taken == (n - 1) * Interval[t]
  <2> DEFINE room == (Most[t] - 1) * Interval[t]
  <2>3. taken \in Int /\ room \in Int
    BY <2>2
  <2>4. taken + Since(t) + 1 <= Since(Ui) /\ room >= Interval[Ui] - 1
    BY <1>2, MostFacts DEF SpacedOut
  <2> HIDE DEF taken, room
  <2>5. taken < room
    BY <2>1, <2>2, <2>3, <2>4
  <2>6. n - 1 < Most[t] - 1
    BY <2>2, <2>5, FewerIntervals DEF taken, room
  <2> QED
    BY <2>2, <2>6
<1> QED
  BY <1>1, <1>2

\* A post of t comes an interval after its last one.
LEMMA PostSpacesOut ==
  ASSUME SchedIInv, InputsBeforeUi, NEW t \in Inputs, Call(t),
         NEW n \in Nat, SpacedOut(t, n), NEW k \in {n, n + 1}
  PROVE  SpacedOut(t, k)'
<1>1. Since(t) \in Nat /\ Since(Ui) \in Nat
  BY RoleFacts, TaskFacts DEF SchedIInv
<1>2. Since(t)' = 0 /\ Since(t) >= Interval[t] /\ Since(Ui)' = Since(Ui)
  BY RoleFacts, CallSince
<1>3. Interval[t] \in Nat
  BY RoleFacts
<1>4. Since(Ui) >= 1
  BY <1>1, <1>2, <1>3 DEF InputsBeforeUi
<1> DEFINE taken == (n - 1) * Interval[t]
<1>5. taken \in Int
  BY <1>3
<1>6. /\ (n + 1 - 1) * Interval[t] = taken + Interval[t]
      /\ n = 0 => (n + 1 - 1) * Interval[t] = 0
  BY <1>3
<1>7. n >= 1 => taken + Since(t) + 1 <= Since(Ui)
  BY DEF SpacedOut
<1>8. k >= 1 => (k - 1) * Interval[t] + 0 + 1 <= Since(Ui)
  <2>1. CASE k = n
    <3> HIDE DEF taken
    <3>1. n >= 1 => taken + 0 + 1 <= Since(Ui)
      BY <1>1, <1>3, <1>5, <1>7
    <3> QED
      BY <2>1, <3>1 DEF taken
  <2>2. CASE k = n + 1
    <3> DEFINE next == (n + 1 - 1) * Interval[t]
    <3>1. next = taken + Interval[t] /\ (n = 0 => next = 0)
      BY <1>6
    <3> HIDE DEF taken, next
    <3>2. next + 0 + 1 <= Since(Ui)
      <4>1. CASE n = 0
        BY <1>4, <3>1, <4>1, <1>1
      <4>2. CASE n >= 1
        BY <1>1, <1>2, <1>3, <1>5, <1>7, <3>1, <4>2
      <4> QED
        BY <4>1, <4>2
    <3> QED
      BY <2>2, <3>2 DEF next
  <2> QED
    BY <2>1, <2>2
<1> QED
  BY <1>2, <1>8 DEF SpacedOut

\* A step of the scheduler that neither calls nor lets an input task be.
LEMMA AccountsKept ==
  ASSUME SchedIInv, NEW posts \in [Inputs -> Nat], Accounts(posts),
         pending' = pending,
         \/ Tick \/ StartPass \/ Skip
         \/ \E t \in Tasks \ {Encoder, Keypad, Buttons, Ui} : Call(t)
  PROVE  Accounts(posts)'
<1> SUFFICES ASSUME NEW t \in Inputs
             PROVE  SpacedOut(t, posts[t])' /\ WithinMost(t, posts[t])'
  BY DEF Accounts
<1> DEFINE n == posts[t]
<1>1. n \in Nat /\ SpacedOut(t, n) /\ WithinMost(t, n)
  BY DEF Accounts
<1>2. /\ t \in Tasks /\ Ui \in Tasks /\ t < Ui /\ Most[t] \in Nat
      /\ t \in Nat /\ Ui \in Nat /\ turn \in Nat /\ Ui <= TaskCount
      /\ TaskCount \in Nat
      /\ Since(t) \in Nat /\ Since(Ui) \in Nat /\ Lag \in Nat
      /\ Interval[t] \in Nat
  BY RoleFacts, MostFacts, TaskFacts DEF SchedIInv
<1> HIDE DEF n
<1>3. CASE Tick
  BY <1>1, <1>3 DEF Tick, loop, SpacedOut, WithinMost, Since, n
<1>4. CASE StartPass
  <2>1. Since(t)' = Since(t) + Lag /\ Since(Ui)' = Since(Ui) + Lag
    BY <1>2, <1>4, StartAdds
  <2>2. SpacedOut(t, n)'
    <3> DEFINE taken == (n - 1) * Interval[t]
    <3>1. taken \in Int
      BY <1>1, <1>2
    <3>2. n >= 1 => taken + Since(t) + 1 <= Since(Ui)
      BY <1>1 DEF SpacedOut
    <3> HIDE DEF taken
    <3>3. n >= 1 => taken + Since(t)' + 1 <= Since(Ui)'
      BY <1>2, <2>1, <3>1, <3>2
    <3> QED
      BY <3>3 DEF taken, SpacedOut, n
  <2>3. WithinMost(t, n)'
    BY <1>1, <1>2, <1>4 DEF StartPass, WithinMost, n
  <2> QED
    BY <2>2, <2>3 DEF n
<1>5. CASE Skip
  <2>1. Since(t)' = Since(t) /\ Since(Ui)' = Since(Ui) /\ turn' = turn + 1
    BY <1>5 DEF Skip, Since
  <2>2. turn = Ui => n <= Most[t] - 1
    BY <1>1, <1>2, <1>5, RoomForNextPass, RoleFacts DEF Skip, Due, Since
  <2>3. WithinMost(t, n)'
    BY <1>1, <1>2, <2>1, <2>2 DEF WithinMost, n
  <2> QED
    BY <1>1, <2>1, <2>3 DEF SpacedOut, n
<1>6. ASSUME NEW u \in Tasks \ {Encoder, Keypad, Buttons, Ui}, Call(u)
      PROVE  SpacedOut(t, n)' /\ WithinMost(t, n)'
  <2>1. Since(t)' = Since(t) /\ Since(Ui)' = Since(Ui)
    BY <1>2, <1>6, CallSince DEF Inputs
  <2>2. turn = u /\ turn' = u + 1 /\ u # t /\ u # Ui /\ u \in Nat
    BY <1>6, TaskFacts DEF Call, Inputs, SchedIInv
  <2> QED
    BY <1>1, <1>2, <2>1, <2>2 DEF SpacedOut, WithinMost, n
<1> QED
  BY <1>3, <1>4, <1>5, <1>6 DEF n

\* The turn of an input task, which posts at most one event.
LEMMA AccountsAfterInput ==
  ASSUME SchedIInv, FifoOK, InputsBeforeUi, NoEventLost,
         NEW t \in Inputs, Call(t),
         NEW posts \in [Inputs -> Nat], Accounts(posts),
         UNCHANGED fifo \/ \E e \in Events : Queue!Post(e)
  PROVE  NoEventLost' /\ \E later \in [Inputs -> Nat] : Accounts(later)'
<1>1. \A u \in Inputs : /\ posts[u] \in Nat /\ Most[u] \in Nat
                        /\ SpacedOut(u, posts[u]) /\ WithinMost(u, posts[u])
  BY MostFacts DEF Accounts
<1>2. Len(pending) <= posts[Encoder] + posts[Keypad] + posts[Buttons]
  BY DEF Accounts
<1>3. /\ turn = t /\ turn' = t + 1 /\ t \in Nat /\ t < Ui /\ Ui \in Nat
      /\ \A u \in Inputs : u \in Nat /\ u < Ui
  BY RoleFacts DEF Call
<1>4. /\ posts[t] <= Most[t] - 1
      /\ \A u \in Inputs : posts[u] <= Most[u]
  BY <1>1, <1>3 DEF WithinMost
<1> DEFINE After(k) == [posts EXCEPT ![t] = k]
<1>5. ASSUME NEW k \in {posts[t], posts[t] + 1},
             Len(pending)' <= After(k)[Encoder] + After(k)[Keypad] + After(k)[Buttons]
      PROVE  \E later \in [Inputs -> Nat] : Accounts(later)'
  <2>1. After(k) \in [Inputs -> Nat]
    BY <1>1, <1>5
  <2>2. ASSUME NEW u \in Inputs
        PROVE  SpacedOut(u, After(k)[u])' /\ WithinMost(u, After(k)[u])'
    <3>1. CASE u = t
      <4>1. After(k)[u] = k
        BY <3>1
      <4>2. SpacedOut(t, k)'
        BY <1>1, <1>5, PostSpacesOut
      <4>3. WithinMost(t, k)'
        BY <1>1, <1>3, <1>4, <1>5 DEF WithinMost
      <4> QED
        BY <3>1, <4>1, <4>2, <4>3
    <3>2. CASE u # t
      <4>1. After(k)[u] = posts[u]
        BY <3>2
      <4>2. Since(u)' = Since(u) /\ Since(Ui)' = Since(Ui)
        BY <1>3, <3>2, RoleFacts, CallSince
      <4>3. SpacedOut(u, posts[u])'
        BY <1>1, <4>2 DEF SpacedOut
      <4>4. WithinMost(u, posts[u])'
        BY <1>1, <1>3, <3>2 DEF WithinMost
      <4> QED
        BY <4>1, <4>3, <4>4
    <3> QED
      BY <3>1, <3>2
  <2> HIDE DEF After
  <2>3. Accounts(After(k))'
    BY <1>5, <2>2 DEF Accounts
  <2> QED
    BY <2>1, <2>3
<1>6. CASE UNCHANGED fifo
  <2> DEFINE k == posts[t]
  <2>1. After(k) = posts
    OBVIOUS
  <2>2. Len(pending)' = Len(pending) /\ lost' = lost
    BY <1>6 DEF fifo
  <2>3. k \in {posts[t], posts[t] + 1}
    OBVIOUS
  <2> HIDE DEF After
  <2>4. Len(pending)' <= After(k)[Encoder] + After(k)[Keypad] + After(k)[Buttons]
    BY <1>2, <2>1, <2>2
  <2> QED
    <3>1. NoEventLost'
      BY <2>2 DEF NoEventLost
    <3>2. \E later \in [Inputs -> Nat] : Accounts(later)'
      BY <1>5, <2>3, <2>4
    <3> QED
      BY <3>1, <3>2
<1>7. ASSUME NEW e \in Events, Queue!Post(e)
      PROVE  NoEventLost' /\ \E later \in [Inputs -> Nat] : Accounts(later)'
  <2> DEFINE all == posts[Encoder] + posts[Keypad] + posts[Buttons]
  <2> DEFINE k == posts[t] + 1
  <2>1. all < QueueCapacity /\ all \in Nat /\ Len(pending) \in Nat
    <3>1. Encoder \in Inputs /\ Keypad \in Inputs /\ Buttons \in Inputs
      BY DEF Inputs
    <3>2. t = Encoder \/ t = Keypad \/ t = Buttons
      BY DEF Inputs
    <3>3. /\ posts[Encoder] \in Nat /\ posts[Keypad] \in Nat
          /\ posts[Buttons] \in Nat
          /\ Most[Encoder] \in Nat /\ Most[Keypad] \in Nat /\ Most[Buttons] \in Nat
          /\ posts[Encoder] <= Most[Encoder] /\ posts[Keypad] <= Most[Keypad]
          /\ posts[Buttons] <= Most[Buttons] /\ posts[t] < Most[t]
      BY <1>1, <1>4, <3>1, MostFacts
    <3>4. all < Most[Encoder] + Most[Keypad] + Most[Buttons] /\ all \in Nat
      BY <3>2, <3>3
    <3> HIDE DEF all
    <3>5. all < QueueCapacity
      BY <3>3, <3>4, MostFacts, RoomForOne
    <3> QED
      BY <3>4, <3>5 DEF FifoOK
  <2>2. Len(pending) # QueueCapacity
    BY <1>2, <2>1, RoomForOne
  <2>3. pending' = Append(pending, e) /\ lost' = lost
    BY <1>7, <2>2 DEF Queue!Post
  <2>4. Len(pending)' = Len(pending) + 1
    BY <2>3 DEF FifoOK
  <2>5. After(k)[Encoder] + After(k)[Keypad] + After(k)[Buttons] = all + 1
    <3>1. Encoder \in Inputs /\ Keypad \in Inputs /\ Buttons \in Inputs
      BY DEF Inputs
    <3>2. \A u \in Inputs : After(k)[u] = IF u = t THEN posts[u] + 1 ELSE posts[u]
      OBVIOUS
    <3>3. t = Encoder \/ t = Keypad \/ t = Buttons
      BY DEF Inputs
    <3> HIDE DEF After, k
    <3> QED
      BY <1>1, <3>1, <3>2, <3>3, RoleFacts
  <2>6. Len(pending)' <= After(k)[Encoder] + After(k)[Keypad] + After(k)[Buttons]
    BY <1>2, <2>1, <2>4, <2>5
  <2> HIDE DEF After
  <2> QED
    BY <1>5, <2>3, <2>6 DEF NoEventLost
<1> QED
  BY <1>6, <1>7

LEMMA InitLoopIInv == Init => LoopIInv
<1> SUFFICES ASSUME Init PROVE LoopIInv
  OBVIOUS
<1>1. SchedIInv /\ LoopTypeOK
  BY InitSchedIInv, InitLoopType DEF Init
<1>2. NoEventLost /\ pending = <<>>
  BY DEF Init, Queue!Init, NoEventLost
<1>3. turn = TaskCount + 1 /\ \A t \in Tasks : Since(t) = 0
  BY <1>1, TaskFacts, ElapsedRange DEF Init, SchedInit, Since, SchedIInv
<1>4. InputsBeforeUi
  BY <1>3, RoleFacts DEF InputsBeforeUi
<1>5. Accounts([t \in Inputs |-> 0])
  <2>1. ASSUME NEW t \in Inputs PROVE SpacedOut(t, 0) /\ WithinMost(t, 0)
    <3>1. ~(turn <= Ui)
      BY <1>3, RoleFacts, TaskAssumption DEF Tasks
    <3> QED
      BY <3>1, MostFacts DEF SpacedOut, WithinMost
  <2>2. Len(pending) = 0
    BY <1>2
  <2> QED
    BY <2>1, <2>2 DEF Accounts, Inputs
<1> QED
  BY <1>1, <1>2, <1>4, <1>5 DEF LoopIInv, QueueIInv

\* The steps of the loop as they look to the queue.
LEMMA NextQueueIInv ==
  ASSUME LoopIInv, [Next]_allVars
  PROVE  QueueIInv'
<1>1. SchedIInv /\ FifoOK /\ NoEventLost /\ InputsBeforeUi
  BY DEF LoopIInv, LoopTypeOK, FifoOK, QueueIInv
<1>2. ~polling => \E posts \in [Inputs -> Nat] : Accounts(posts)
  BY DEF LoopIInv, QueueIInv
<1>3. /\ \A t \in Inputs : /\ t \in Tasks /\ t < Ui /\ t \in Nat
                           /\ Interval[t] \in Nat /\ Interval[t] >= 1
                           /\ Since(t) \in Nat
      /\ Ui \in Tasks /\ Ui \in Nat /\ Since(Ui) \in Nat
      /\ Lag \in Nat /\ turn \in Nat
  BY <1>1, RoleFacts, TaskFacts DEF SchedIInv
<1>4. \A u \in Tasks : Call(u) => turn = u /\ turn' = u + 1
  BY DEF Call
<1>5. ASSUME pending' = pending, lost' = lost, polling' = polling,
             \/ Tick \/ StartPass \/ Skip
             \/ \E t \in Tasks \ {Encoder, Keypad, Buttons, Ui} : Call(t)
      PROVE  QueueIInv'
  <2>1. ASSUME NEW t \in Inputs
        PROVE  \/ Since(t)' = Since(t) /\ Since(Ui)' = Since(Ui)
               \/ Since(t)' = Since(t) + Lag /\ Since(Ui)' = Since(Ui) + Lag
    <3>1. CASE Tick
      BY <3>1 DEF Tick, loop, Since
    <3>2. CASE StartPass
      BY <1>1, <1>3, <3>2, StartAdds
    <3>3. CASE Skip
      BY <3>3 DEF Skip, Since
    <3>4. ASSUME NEW u \in Tasks \ {Encoder, Keypad, Buttons, Ui}, Call(u)
          PROVE  Since(t)' = Since(t) /\ Since(Ui)' = Since(Ui)
      BY <1>1, <1>3, <3>4, CallSince DEF Inputs
    <3> QED
      BY <1>5, <3>1, <3>2, <3>3, <3>4
  <2>2. InputsBeforeUi'
    BY <1>1, <1>3, <2>1 DEF InputsBeforeUi
  <2>3. ~polling => \E posts \in [Inputs -> Nat] : Accounts(posts)'
    BY <1>1, <1>2, <1>5, AccountsKept
  <2> QED
    BY <1>1, <1>5, <2>2, <2>3 DEF QueueIInv, NoEventLost
<1>6. ASSUME NEW t \in Inputs, Call(t), ~polling, polling' = polling,
             UNCHANGED fifo \/ \E e \in Events : Queue!Post(e)
      PROVE  QueueIInv'
  <2>1. NoEventLost' /\ \E posts \in [Inputs -> Nat] : Accounts(posts)'
    BY <1>1, <1>2, <1>6, AccountsAfterInput
  <2>2. ASSUME NEW u \in Inputs
        PROVE  Since(u)' < Since(Ui)' + Interval[u]
    <3>1. Since(u)' = Since(u) \/ Since(u)' = 0
      BY <1>1, <1>3, <1>6, CallSince
    <3>2. Since(Ui)' = Since(Ui)
      BY <1>1, <1>3, <1>6, CallSince
    <3> QED
      BY <1>1, <1>3, <3>1, <3>2 DEF InputsBeforeUi
  <2> QED
    BY <1>6, <2>1, <2>2 DEF QueueIInv, InputsBeforeUi
<1>7. CASE Dispatch
  <2>1. ~polling
    BY <1>7 DEF Dispatch
  <2>2. CASE (StartPass \/ Skip) /\ UNCHANGED <<fifo, prev_ptt, polling, ui, wanted>>
    BY <1>5, <2>2 DEF fifo
  <2>3. CASE OtherTask
    BY <1>5, <2>3 DEF OtherTask, fifo
  <2>4. CASE task_encoder
    BY <1>6, <2>1, <2>4 DEF task_encoder, Producer, Inputs, Events
  <2>5. CASE task_keypad
    BY <1>6, <2>1, <2>5 DEF task_keypad, Producer, Inputs, Events
  <2>6. CASE task_buttons
    BY <1>6, <2>1, <2>6 DEF task_buttons, Inputs, Events
  <2>7. CASE UiEnter
    <3>1. Call(Ui) /\ polling' = TRUE /\ lost' = lost
      BY <2>7 DEF UiEnter, fifo
    <3>2. ASSUME NEW t \in Inputs
          PROVE  Since(t)' < Since(Ui)' + Interval[t]
      <4>1. Since(t) < Interval[t]
        <5>1. ~(turn <= t)
          BY <1>3, <1>4, <3>1
        <5> QED
          BY <1>1, <1>3, <5>1 DEF SchedIInv, SinceBounded
      <4>2. Since(Ui)' = 0 /\ Since(t)' = Since(t)
        BY <1>1, <1>3, <3>1, CallSince
      <4> QED
        BY <1>3, <4>1, <4>2
    <3> QED
      BY <1>1, <3>1, <3>2 DEF QueueIInv, InputsBeforeUi, NoEventLost
  <2> QED
    BY <1>7, <2>2, <2>3, <2>4, <2>5, <2>6, <2>7 DEF Dispatch
<1>8. CASE UiEvent
  <2>1. \A t \in Tasks : Since(t)' = Since(t)
    BY <1>8 DEF UiEvent, schedVars, loop, Since
  <2>2. polling' /\ lost' = lost
    BY <1>8 DEF UiEvent, Queue!Poll
  <2>3. InputsBeforeUi'
    BY <1>1, <1>3, <2>1 DEF InputsBeforeUi
  <2> QED
    BY <1>1, <2>2, <2>3 DEF QueueIInv, NoEventLost
<1>9. CASE UiReturn
  <2>1. \A t \in Tasks : Since(t)' = Since(t)
    BY <1>9 DEF UiReturn, schedVars, loop, Since
  <2>2. pending' = <<>> /\ lost' = lost /\ turn' = turn /\ turn = Ui + 1
    BY <1>9 DEF UiReturn, schedVars, loop, fifo, LoopIInv, LoopTypeOK
  <2>3. Accounts([t \in Inputs |-> 0])'
    <3>1. ASSUME NEW t \in Inputs PROVE SpacedOut(t, 0)' /\ WithinMost(t, 0)'
      <4>1. ~(turn' <= Ui)
        BY <1>3, <2>2
      <4> QED
        BY <4>1, MostFacts DEF SpacedOut, WithinMost
    <3>2. Len(pending') = 0
      BY <2>2
    <3> QED
      BY <3>1, <3>2 DEF Accounts, Inputs
  <2>4. InputsBeforeUi'
    BY <1>1, <1>3, <2>1 DEF InputsBeforeUi
  <2> QED
    BY <1>1, <2>2, <2>3, <2>4 DEF QueueIInv, NoEventLost
<1>10. CASE SysTick
  BY <1>5, <1>10 DEF SysTick, fifo
<1>11. CASE UNCHANGED allVars
  <2>1. /\ \A t \in Tasks : Since(t)' = Since(t)
        /\ turn' = turn /\ pending' = pending /\ lost' = lost
        /\ polling' = polling
    BY <1>11 DEF allVars, schedVars, loop, Since, fifo
  <2>2. InputsBeforeUi'
    BY <1>1, <1>3, <2>1 DEF InputsBeforeUi
  <2>3. \A posts \in [Inputs -> Nat] : Accounts(posts) => Accounts(posts)'
    BY <1>3, <2>1 DEF Accounts, SpacedOut, WithinMost
  <2> QED
    BY <1>1, <1>2, <2>1, <2>2, <2>3 DEF QueueIInv, NoEventLost
<1> QED
  BY <1>7, <1>8, <1>9, <1>10, <1>11 DEF Next, Pass

LEMMA NextLoopIInv == LoopIInv /\ [Next]_allVars => LoopIInv'
  BY NextSchedIInv, StepIsSchedStep, NextLoopType, NextQueueIInv DEF LoopIInv

(* The queue never overflows: task_ui drains it before the input tasks can *)
(* fill it, for every table whose intervals and queue length fit together  *)
(* as QueueAssumption says, and however long a pass of the loop takes.     *)
THEOREM NoEventIsLost == Spec => []NoEventLost
<1>1. LoopIInv => NoEventLost
  BY DEF LoopIInv, QueueIInv
<1> QED
  BY <1>1, InitLoopIInv, NextLoopIInv, PTL DEF Spec

-----------------------------------------------------------------------------
(* The knob is followed. *)

\* The channels the detents in the queue lead through, from the selected one
\* to the one wanted.
Leads(path) ==
  /\ path[0] = ui_current_ch
  /\ path[Len(pending)] = wanted
  /\ \A k \in 1 .. Len(pending) : path[k] = Turned(path[k - 1], pending[k])

KnobIInv == \E path \in [0 .. Len(pending) -> Channels] : Leads(path)

LEMMA InitKnob == Init => KnobIInv
<1> SUFFICES ASSUME Init PROVE KnobIInv
  OBVIOUS
<1>1. Len(pending) = 0 /\ ui_current_ch = 1 /\ wanted = 1
  BY DEF Init, Queue!Init
<1>2. [k \in 0 .. 0 |-> 1] \in [0 .. 0 -> Channels]
  BY ChannelAssumption DEF Channels
<1>3. Leads([k \in 0 .. 0 |-> 1])
  BY <1>1 DEF Leads
<1> QED
  BY <1>1, <1>2, <1>3 DEF KnobIInv

\* A post adds a step at the far end.
LEMMA PostLengthens ==
  ASSUME FifoOK, KnobIInv, wanted \in Channels, NEW e \in Events,
         pending' = Append(pending, e), wanted' = Turned(wanted, e),
         ui_current_ch' = ui_current_ch
  PROVE  KnobIInv'
<1> PICK path \in [0 .. Len(pending) -> Channels] : Leads(path)
  BY DEF KnobIInv
<1> DEFINE n == Len(pending)
<1>1. n \in Nat /\ Len(pending)' = n + 1
  BY DEF FifoOK
<1>2. \A k \in 1 .. n : pending'[k] = pending[k]
  BY DEF FifoOK
<1>3. pending'[n + 1] = e
  BY DEF FifoOK
<1> DEFINE longer == [k \in 0 .. n + 1 |-> IF k = n + 1 THEN wanted' ELSE path[k]]
<1>4. wanted' \in Channels
  BY TurnedIsChannel
<1>5. /\ path[0] = ui_current_ch /\ path[n] = wanted
      /\ \A k \in 1 .. n : path[k] = Turned(path[k - 1], pending[k])
  BY DEF Leads
<1> HIDE DEF n
<1>6. longer \in [0 .. n + 1 -> Channels]
  BY <1>1, <1>4 DEF n
<1>7. longer[0] = ui_current_ch' /\ longer[n + 1] = wanted'
  BY <1>1, <1>5
<1>8. ASSUME NEW k \in 1 .. n + 1
      PROVE  longer[k] = Turned(longer[k - 1], pending'[k])
  <2>1. CASE k = n + 1
    <3>1. longer[k] = wanted' /\ longer[k - 1] = path[n]
      BY <1>1, <2>1
    <3> QED
      BY <1>3, <1>5, <2>1, <3>1
  <2>2. CASE k # n + 1
    <3>1. k \in 1 .. n
      BY <1>1, <2>2
    <3>2. longer[k] = path[k] /\ longer[k - 1] = path[k - 1]
      BY <1>1, <3>1
    <3> QED
      BY <1>2, <1>5, <3>1, <3>2
  <2> QED
    BY <2>1, <2>2
<1> HIDE DEF longer
<1> QED
  BY <1>1, <1>6, <1>7, <1>8 DEF KnobIInv, Leads

\* task_ui takes the first step.
LEMMA PollShortens ==
  ASSUME LoopTypeOK, KnobIInv, UiEvent
  PROVE  KnobIInv'
<1> PICK path \in [0 .. Len(pending) -> Channels] : Leads(path)
  BY DEF KnobIInv
<1> DEFINE n == Len(pending)
<1>1. pending # <<>> /\ pending \in Seq(Events) /\ pending' = Tail(pending)
      /\ out' = Head(pending) /\ wanted' = wanted
  BY DEF LoopTypeOK, UiEvent, Queue!Poll
<1>2. n \in Nat /\ n >= 1 /\ Len(pending') = n - 1 /\ out' = pending[1]
      /\ \A k \in 1 .. n - 1 : pending'[k] = pending[k + 1]
  BY <1>1
<1>3. /\ path[0] = ui_current_ch /\ path[n] = wanted
      /\ \A k \in 1 .. n : path[k] = Turned(path[k - 1], pending[k])
  BY DEF Leads
<1>4. ui_current_ch' = Turned(ui_current_ch, out')
  BY DEF UiEvent, ui_commit_channel, Turned, ui
<1> HIDE DEF n
<1> DEFINE rest == [k \in 0 .. n - 1 |-> path[k + 1]]
<1>5. rest \in [0 .. n - 1 -> Channels]
  BY <1>2 DEF n
<1>6. rest[0] = ui_current_ch' /\ rest[n - 1] = wanted'
  <2>1. path[1] = Turned(path[0], pending[1])
    BY <1>2, <1>3
  <2> QED
    BY <1>1, <1>2, <1>3, <1>4, <2>1
<1>7. ASSUME NEW k \in 1 .. n - 1
      PROVE  rest[k] = Turned(rest[k - 1], pending'[k])
  <2>1. k + 1 \in 1 .. n /\ (k + 1) - 1 = k /\ (k - 1) + 1 = k
    BY <1>2
  <2>2. rest[k] = path[k + 1] /\ rest[k - 1] = path[k]
    BY <1>2, <2>1
  <2>3. path[k + 1] = Turned(path[(k + 1) - 1], pending[k + 1])
    BY <1>3, <2>1
  <2> QED
    BY <1>2, <2>1, <2>2, <2>3
<1> HIDE DEF rest
<1> QED
  BY <1>2, <1>5, <1>6, <1>7 DEF KnobIInv, Leads

\* With room in the queue a post is an Append.
LEMMA PostIsAppend ==
  ASSUME NoEventLost, NoEventLost', NEW e, Queue!Post(e)
  PROVE  pending' = Append(pending, e)
  BY DEF NoEventLost, Queue!Post

LEMMA NextKnob ==
  ASSUME LoopIInv, LoopIInv', KnobIInv, [Next]_allVars
  PROVE  KnobIInv'
<1>1. FifoOK /\ LoopTypeOK /\ wanted \in Channels /\ NoEventLost /\ NoEventLost'
  BY DEF LoopIInv, LoopTypeOK, FifoOK, QueueIInv
<1>2. ASSUME pending' = pending, wanted' = wanted, ui_current_ch' = ui_current_ch
      PROVE  KnobIInv'
  BY <1>2 DEF KnobIInv, Leads
<1>3. ASSUME NEW e \in Events, Queue!Post(e), wanted' = Turned(wanted, e),
             ui_current_ch' = ui_current_ch
      PROVE  KnobIInv'
  BY <1>1, <1>3, PostIsAppend, PostLengthens
<1>4. CASE Dispatch
  <2>1. CASE task_encoder
    BY <1>2, <1>3, <2>1 DEF task_encoder, Producer, Events, fifo, ui
  <2>2. CASE task_keypad
    BY <1>2, <1>3, <2>2 DEF task_keypad, Producer, Events, fifo, ui
  <2>3. CASE task_buttons
    <3>1. \A e \in {Press, Release} : e \in Events /\ Turned(wanted, e) = wanted
      BY DEF Turned, Press, Release, CW, CCW, Events
    <3> QED
      BY <1>2, <1>3, <2>3, <3>1 DEF task_buttons, fifo, ui
  <2>4. CASE (StartPass \/ Skip) /\ UNCHANGED <<fifo, prev_ptt, polling, ui, wanted>>
    BY <1>2, <2>4 DEF fifo, ui
  <2>5. CASE UiEnter \/ OtherTask
    BY <1>2, <2>5 DEF UiEnter, OtherTask, fifo, ui
  <2> QED
    BY <1>4, <2>1, <2>2, <2>3, <2>4, <2>5 DEF Dispatch
<1>5. CASE UiEvent
  BY <1>1, <1>5, PollShortens
<1>6. CASE UiReturn \/ SysTick \/ UNCHANGED allVars
  BY <1>2, <1>6 DEF UiReturn, SysTick, allVars, fifo, ui
<1> QED
  BY <1>4, <1>5, <1>6 DEF Next, Pass

(* Whatever the operator does with the knob, and whatever else comes in    *)
(* between, no detent is lost and none counts twice.                       *)
THEOREM KnobIsFollowed == Spec => []KnobFollowed
<1>1. LoopIInv /\ KnobIInv => KnobFollowed
  <2> SUFFICES ASSUME KnobIInv, pending = <<>> PROVE ui_current_ch = wanted
    BY DEF KnobFollowed
  <2>1. Len(pending) = 0
    OBVIOUS
  <2> QED
    BY <2>1 DEF KnobIInv, Leads
<1>2. LoopIInv /\ LoopIInv' /\ KnobIInv /\ [Next]_allVars => KnobIInv'
  BY NextKnob
<1> QED
  BY <1>1, <1>2, InitLoopIInv, NextLoopIInv, InitKnob, PTL DEF Spec
=============================================================================
