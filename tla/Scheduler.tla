----------------------------- MODULE Scheduler -----------------------------
(***************************************************************************)
(* The cooperative loop of kernel/scheduler.c over a table of tasks that   *)
(* are all registered before it starts and stay enabled (nothing calls     *)
(* sched_enable).  SysTick counts milliseconds while a pass runs; the pass *)
(* reads the counter once, before its first task.                          *)
(***************************************************************************)
EXTENDS Integers

CONSTANTS
  TaskCount,  \* task_count
  Interval,   \* interval_ms of each task, in registration order
  TickMod,    \* the width of systick_ms (2^32)
  MaxPass,    \* bound on the ticks one pass of the loop takes
  Watched     \* the task, any of them, whose calls are timed

Tasks == 1 .. TaskCount

ASSUME TaskAssumption ==
  /\ TaskCount \in Nat \ {0}
  /\ Interval \in [Tasks -> Nat]
  /\ Watched \in Tasks
ASSUME TimeAssumption ==
  /\ TickMod \in Nat /\ MaxPass \in Nat
  /\ \A t \in Tasks : Interval[t] + 2 * MaxPass < TickMod

VARIABLES
  systick_ms,
  now,        \* the tick the pass has sampled
  last_tick,  \* of each task
  turn,       \* the task the pass looks at next; TaskCount + 1 at its end
  age         \* history: ticks since Watched was last called

loop == <<now, last_tick, turn>>
schedVars == <<systick_ms, loop, age>>

SchedTypeOK ==
  /\ systick_ms \in 0 .. TickMod - 1
  /\ now \in 0 .. TickMod - 1
  /\ last_tick \in [Tasks -> 0 .. TickMod - 1]
  /\ turn \in 1 .. TaskCount + 1
  /\ age \in Nat

\* sched_run up to the loop: every task starts its first interval now.
SchedInit ==
  /\ systick_ms \in 0 .. TickMod - 1
  /\ now = systick_ms
  /\ last_tick = [t \in Tasks |-> systick_ms]
  /\ turn = TaskCount + 1
  /\ age = 0

-----------------------------------------------------------------------------

\* The unsigned subtraction a - b.
Elapsed(a, b) == IF a >= b THEN a - b ELSE a - b + TickMod

\* SysTick_Handler.
Tick ==
  /\ Elapsed(systick_ms, now) < MaxPass
  /\ systick_ms' = IF systick_ms = TickMod - 1 THEN 0 ELSE systick_ms + 1
  /\ age' = age + 1
  /\ UNCHANGED loop

\* The top of the loop: now = get_tick().
StartPass ==
  /\ turn = TaskCount + 1
  /\ now' = systick_ms
  /\ turn' = 1
  /\ UNCHANGED <<systick_ms, last_tick, age>>

Due(t) == Elapsed(now, last_tick[t]) >= Interval[t]

\* Mutant of Skip: the loop goes on without advancing to the next task.
SkipStuck ==
  /\ turn \in Tasks
  /\ ~Due(turn)
  /\ UNCHANGED loop
  /\ UNCHANGED <<systick_ms, age>>

Skip ==
  /\ turn \in Tasks
  /\ ~Due(turn)
  /\ turn' = turn + 1
  /\ UNCHANGED <<systick_ms, now, last_tick, age>>

\* Mutant of Call: the pass ends with the first task that is due.
CallOnePerPass(t) ==
  /\ turn = t
  /\ Due(t)
  /\ last_tick' = [last_tick EXCEPT ![t] = now]
  /\ age' = IF t = Watched THEN 0 ELSE age
  /\ turn' = TaskCount + 1
  /\ UNCHANGED <<systick_ms, now>>

\* The call of task t: the interval is measured from the start of the pass.
Call(t) ==
  /\ turn = t
  /\ Due(t)
  /\ last_tick' = [last_tick EXCEPT ![t] = now]
  /\ age' = IF t = Watched THEN 0 ELSE age
  /\ turn' = t + 1
  /\ UNCHANGED <<systick_ms, now>>

SchedNext ==
  \/ Tick
  \/ StartPass
  \/ Skip
  \/ \E t \in Tasks : Call(t)

SchedSpec == SchedInit /\ [][SchedNext]_schedVars

-----------------------------------------------------------------------------

(* No task is starved, at the wrap of the millisecond counter either: a    *)
(* task waits for its interval, at most for the rest of the pass in which  *)
(* it just missed it, and for its turn in the next one.                    *)
CalledInTime == age <= Interval[Watched] + 2 * MaxPass
=============================================================================
