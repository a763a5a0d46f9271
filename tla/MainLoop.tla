------------------------------ MODULE MainLoop ------------------------------
(***************************************************************************)
(* The tasks of main.c that produce and consume events, run by the loop of *)
(* kernel/scheduler.c: task_encoder, task_keypad and task_buttons post,    *)
(* task_ui drains the queue and tunes VFO A to the channel the knob picks. *)
(* The queue is the one EventFifo specifies.                               *)
(***************************************************************************)
EXTENDS Scheduler, Sequences

CONSTANTS
  Encoder, Keypad, Buttons, Ui,  \* the places of the tasks in the table
  QueueCapacity,
  ChannelCount,   \* CHANNEL_COUNT
  Stored,         \* the channel numbers with a record in flash
  Boot            \* VFO A holds what radio_init gave it

ASSUME RoleAssumption ==
  /\ {Encoder, Keypad, Buttons, Ui} \subseteq Tasks
  /\ Encoder < Keypad /\ Keypad < Buttons /\ Buttons < Ui
ASSUME ChannelAssumption ==
  /\ ChannelCount \in Nat /\ ChannelCount > 1
  /\ Stored \subseteq 0 .. ChannelCount - 1
  /\ Boot \notin 0 .. ChannelCount - 1
\* Between two calls of task_ui an input task is called at most once at the
\* start and once an interval; the queue has room for that.
ASSUME QueueAssumption ==
  /\ QueueCapacity \in Nat
  /\ \A t \in {Encoder, Keypad, Buttons, Ui} : Interval[t] >= 1
  /\ \E most \in [{Encoder, Keypad, Buttons} -> 1 .. QueueCapacity] :
       /\ \A t \in {Encoder, Keypad, Buttons} :
            (most[t] - 1) * Interval[t] >= Interval[Ui] - 1
       /\ most[Encoder] + most[Keypad] + most[Buttons] <= QueueCapacity

VARIABLES
  pending, out, lost,  \* the event queue
  prev_ptt,            \* task_buttons: the last level seen; idle is high
  polling,             \* task_ui is in its loop over event_poll
  ui_current_ch,
  tuned,               \* the channel VFO A was loaded from
  wanted               \* history: where the detents posted so far lead

fifo == <<pending, out, lost>>
ui == <<ui_current_ch, tuned>>
allVars == <<schedVars, fifo, prev_ptt, polling, ui, wanted>>

Channels == 0 .. ChannelCount - 1
None == 65535

Press == "EVT_KEY_PRESS"
Release == "EVT_KEY_RELEASE"
CW == "EVT_ENCODER_CW"
CCW == "EVT_ENCODER_CCW"
Events == {Press, Release, CW, CCW}

Queue == INSTANCE EventFifo
           WITH Capacity <- QueueCapacity, Events <- Events, NoEvent <- "none"

LoopTypeOK ==
  /\ SchedTypeOK
  /\ pending \in Seq(Events) /\ Len(pending) <= QueueCapacity
  /\ out \in Events \cup {"none"}
  /\ lost \in Nat
  /\ prev_ptt \in {0, 1}
  /\ polling \in BOOLEAN
  /\ polling => turn = Ui + 1
  /\ ui_current_ch \in Channels
  /\ tuned \in Channels \cup {Boot}
  /\ wanted \in Channels

Init ==
  /\ SchedInit
  /\ Queue!Init
  /\ prev_ptt = 1
  /\ polling = FALSE
  /\ ui_current_ch = 1
  /\ tuned = Boot
  /\ wanted = 1

-----------------------------------------------------------------------------

\* channel_find_next: the first stored channel after (before) start, start
\* itself last; 0xFFFF when no channel is stored.
Nth(start, dir, k) == (start + dir * k) % ChannelCount

channel_find_next(start, dir) ==
  IF Stored = {} THEN None
  ELSE Nth(start, dir,
           CHOOSE k \in 1 .. ChannelCount :
             /\ Nth(start, dir, k) \in Stored
             /\ \A j \in 1 .. k - 1 : Nth(start, dir, j) \notin Stored)

Direction(e) == IF e = CW THEN 1 ELSE -1

Turned(ch, e) ==
  IF e \notin {CW, CCW} THEN ch
  ELSE LET next == channel_find_next(ch, Direction(e))
       IN IF next = None THEN ch ELSE next

-----------------------------------------------------------------------------

\* A task that polls its input and posts at most one event.
Producer(t, events) ==
  /\ Call(t)
  /\ \/ \E e \in events : Queue!Post(e) /\ wanted' = Turned(wanted, e)
     \/ UNCHANGED <<fifo, wanted>>
  /\ UNCHANGED <<polling, ui>>

task_encoder == Producer(Encoder, {CW, CCW}) /\ UNCHANGED prev_ptt

\* A repeat is posted as another press.
task_keypad == Producer(Keypad, {Press, Release}) /\ UNCHANGED prev_ptt

\* PTT (0xE3) is posted when its level has changed; active low.
task_buttons ==
  /\ Call(Buttons)
  /\ \E ptt \in {0, 1} :
       /\ prev_ptt' = ptt
       /\ IF ptt = prev_ptt THEN UNCHANGED fifo
          ELSE Queue!Post(IF ptt = 1 THEN Release ELSE Press)
  /\ UNCHANGED <<polling, ui, wanted>>

\* task_ui: called, it polls the queue until it is empty.
UiEnter ==
  /\ Call(Ui)
  /\ polling' = TRUE
  /\ UNCHANGED <<fifo, prev_ptt, ui, wanted>>

\* Mutants of ui_commit_channel: the number is not checked; the selection
\* only moves when the channel could be loaded.
CommitUnchecked(ch_num) ==
  /\ ui_current_ch' = ch_num
  /\ tuned' = ch_num - 1

CommitIfLoaded(ch_num) ==
  IF ch_num - 1 \in Stored
  THEN ui_current_ch' = ch_num /\ tuned' = ch_num - 1
  ELSE UNCHANGED ui

\* ui_commit_channel with channel_load and channel_to_vfo: an empty record,
\* or number 0 less one, leaves VFO A as it was.
ui_commit_channel(ch_num) ==
  /\ ui_current_ch' = ch_num
  /\ tuned' = IF ch_num - 1 \in Stored THEN ch_num - 1 ELSE tuned

UiEvent ==
  /\ polling
  /\ Queue!Poll
  /\ LET next == channel_find_next(ui_current_ch, Direction(out'))
     IN IF out' \in {CW, CCW} /\ next # None
        THEN ui_commit_channel(next)
        ELSE UNCHANGED ui
  /\ UNCHANGED <<schedVars, prev_ptt, polling, wanted>>

\* Mutant of UiReturn: one event a call, `if' for `while'.
UiReturnEarly ==
  /\ polling
  /\ polling' = FALSE
  /\ UNCHANGED <<schedVars, fifo, prev_ptt, ui, wanted>>

UiReturn ==
  /\ polling
  /\ pending = <<>>
  /\ polling' = FALSE
  /\ UNCHANGED <<schedVars, fifo, prev_ptt, ui, wanted>>

\* The tasks that have no part in the queue: they only take time.
OtherTask ==
  /\ \E t \in Tasks \ {Encoder, Keypad, Buttons, Ui} : Call(t)
  /\ UNCHANGED <<fifo, prev_ptt, polling, ui, wanted>>

\* sched_run at work: nothing else runs before task_ui has returned.
Dispatch ==
  /\ ~polling
  /\ \/ /\ StartPass \/ Skip
        /\ UNCHANGED <<fifo, prev_ptt, polling, ui, wanted>>
     \/ task_encoder
     \/ task_keypad
     \/ task_buttons
     \/ UiEnter
     \/ OtherTask

Pass == Dispatch \/ UiEvent \/ UiReturn

SysTick == Tick /\ UNCHANGED <<fifo, prev_ptt, polling, ui, wanted>>

Next == Pass \/ SysTick

\* The loop never sleeps and no task waits for another; the hardware counts
\* time whatever the loop does.
Spec ==
  Init /\ [][Next]_allVars /\ WF_allVars(Pass) /\ WF_allVars(SysTick)

-----------------------------------------------------------------------------

(* The queue never overflows: task_ui runs often enough for what the three *)
(* input tasks can post between two of its calls, however long a pass is.  *)
NoEventLost == lost = 0

(* Every detent of the knob counts, in order: what is selected once the    *)
(* queue is empty is where the detents posted lead from the boot channel.  *)
KnobFollowed == pending = <<>> => ui_current_ch = wanted

(* Every event posted is handled.                                          *)
EventuallyDrained == pending # <<>> ~> pending = <<>>

(* ui_current_ch is this layer's idea of the tuned channel (main.c:1022):  *)
(* once the knob has moved, VFO A holds the channel selected.              *)
SelectedIsTuned == pending = <<>> /\ ui_current_ch # 1 => tuned = ui_current_ch
=============================================================================
