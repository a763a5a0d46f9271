------------------------------ MODULE Scanner ------------------------------
(***************************************************************************)
(* app/scanner.c: the scan of the VFO's band or of the memory channels,    *)
(* polled every 10 ms.  Whether the squelch is open at a poll is the       *)
(* environment's choice.  Frequencies count steps of the active VFO; a     *)
(* channel is a number.                                                    *)
(***************************************************************************)
EXTENDS Integers

CONSTANTS
  SettleTicks, HoldoffTicks, ResumeTicks, \* SETTLE_TICKS, CARRIER_HOLDOFF_TICKS,
                                          \* DEFAULT_RESUME_TICKS
  DebounceReads,   \* SQUELCH_DEBOUNCE_COUNT
  Speeds,          \* the values of step_ticks
  Band,            \* the frequencies of the VFO's band: 0 .. Band - 1
  RangeLo, RangeHi,\* the custom range, when one is set
  MemChannels,     \* the memory channels are 0 .. MemChannels - 1
  ScanLists,       \* the sets of channels marked for scanning
  Unloadable       \* the channels channel_load refuses

ASSUME ScannerAssumption ==
  /\ {SettleTicks, HoldoffTicks, ResumeTicks, DebounceReads} \subseteq Nat \ {0}
  /\ Speeds \subseteq Nat \ {0} /\ Speeds # {} /\ MemChannels \in Nat \ {0}
  /\ RangeLo \in Nat /\ RangeHi \in Nat /\ Band \in Nat
  /\ RangeLo <= RangeHi /\ RangeHi < Band
  /\ \A l \in ScanLists : l \subseteq 0 .. MemChannels - 1

NoMem == 65535   \* channel_find_next_scannable found none
ScanModes == {"OFF", "VFO", "MEMORY"}
Resumes == {"CARRIER", "TIME", "STOP"}

VARIABLES
  scan_mode, resume_mode, paused,
  tick_counter, step_ticks, settle_counter, resume_countdown,
  squelch_debounce, current_channel,
  range_on,         \* vfo_range_start and vfo_range_stop are set
  tuned,            \* what the active VFO is tuned to
  scan_list,        \* environment: the channels with the scan flag
  fresh,            \* history: nothing was tuned since scanner_start
  listened,         \* history: the squelch was read since the last tuning
  open_run          \* history: reads of an open squelch in a row, capped

scanVars == <<scan_mode, resume_mode, paused, tick_counter, step_ticks,
              settle_counter, resume_countdown, squelch_debounce, current_channel,
              range_on, tuned, scan_list, fresh, listened, open_run>>

Tuning(kind, n) == <<kind, n>>

ScanTypeOK ==
  /\ scan_mode \in ScanModes /\ resume_mode \in Resumes
  /\ settle_counter \in 0 .. SettleTicks
  /\ squelch_debounce \in 0 .. DebounceReads
  /\ tick_counter >= 0 /\ resume_countdown >= 0
  /\ current_channel \in (0 .. MemChannels - 1) \cup {NoMem}
  /\ {paused, range_on, fresh, listened} \subseteq BOOLEAN

\* scanner_init.
ScanInit ==
  /\ scan_mode = "OFF" /\ resume_mode = "CARRIER"
  /\ paused = FALSE
  /\ tick_counter = 0 /\ settle_counter = 0 /\ resume_countdown = 0
  /\ step_ticks = CHOOSE s \in Speeds : TRUE
  /\ squelch_debounce = 0
  /\ current_channel = 0
  /\ range_on = FALSE
  /\ tuned = Tuning("FREQ", 0)
  /\ scan_list = CHOOSE l \in ScanLists : TRUE
  /\ fresh = TRUE /\ listened = FALSE /\ open_run = 0

-----------------------------------------------------------------------------

\* channel_find_next_scannable upwards; 0xFFFF is not a step before channel 0
\* but at 65536 % CHANNEL_COUNT.
NextMem(start) ==
  LET w == [i \in 1 .. MemChannels |-> (start + i) % MemChannels]
      hits == {i \in 1 .. MemChannels : w[i] \in scan_list}
  IN IF hits = {} THEN NoMem ELSE w[CHOOSE i \in hits : \A j \in hits : i <= j]

\* scanner_start: the debounce of the last scan stays, and the first channel
\* of a memory scan is not tuned.
scanner_start == \E m \in {"VFO", "MEMORY"} :
  /\ scan_mode' = m
  /\ paused' = FALSE /\ tick_counter' = 0 /\ settle_counter' = 0
  /\ current_channel' = IF m = "MEMORY" THEN NextMem(current_channel) ELSE current_channel
  /\ fresh' = TRUE
  /\ UNCHANGED <<resume_mode, step_ticks, resume_countdown, squelch_debounce,
                 range_on, tuned, scan_list, listened, open_run>>

Stopped ==
  /\ scan_mode' = "OFF" /\ paused' = FALSE
  /\ tick_counter' = 0 /\ settle_counter' = 0

scanner_stop ==
  /\ Stopped
  /\ UNCHANGED <<resume_mode, step_ticks, resume_countdown, squelch_debounce,
                 current_channel, range_on, tuned, scan_list, fresh, listened, open_run>>

\* scanner_set_resume, scanner_set_speed, scanner_set_vfo_range while no scan
\* runs; and the channels, which the menu and the CPS change.
Configure ==
  /\ scan_mode = "OFF"
  /\ \/ /\ resume_mode' \in Resumes
        /\ UNCHANGED <<step_ticks, range_on, scan_list>>
     \/ /\ step_ticks' \in Speeds
        /\ UNCHANGED <<resume_mode, range_on, scan_list>>
     \/ /\ range_on' = ~range_on
        /\ UNCHANGED <<resume_mode, step_ticks, scan_list>>
     \/ /\ scan_list' \in ScanLists
        /\ UNCHANGED <<resume_mode, step_ticks, range_on>>
  /\ UNCHANGED <<scan_mode, paused, tick_counter, settle_counter, resume_countdown,
                 squelch_debounce, current_channel, tuned, fresh, listened, open_run>>

-----------------------------------------------------------------------------
\* scanner_poll.

\* On a signal: the hold-off starts when the carrier drops, a time-out counts
\* all the while, STOP waits for the user.
Hold(open) ==
  LET down == IF resume_countdown > 0 THEN resume_countdown - 1 ELSE 0
  IN /\ \/ /\ resume_mode = "CARRIER" /\ open
           /\ resume_countdown' = HoldoffTicks
           /\ UNCHANGED paused
        \/ /\ resume_mode = "TIME" \/ (resume_mode = "CARRIER" /\ ~open)
           /\ resume_countdown' = down
           /\ paused' = (down # 0)
        \/ /\ resume_mode = "STOP"
           /\ UNCHANGED <<resume_countdown, paused>>
     /\ UNCHANGED <<scan_mode, tick_counter, settle_counter, squelch_debounce,
                    current_channel, tuned, fresh, listened, open_run>>

Settle ==
  /\ settle_counter' = settle_counter - 1
  /\ squelch_debounce' = IF settle_counter' = 0 THEN 0 ELSE squelch_debounce
  /\ UNCHANGED <<scan_mode, paused, tick_counter, resume_countdown, current_channel,
                 tuned, fresh, listened, open_run>>

\* One closed read ends the listening, DebounceReads open ones stop the scan.
Listen(open) ==
  /\ squelch_debounce' = IF open THEN squelch_debounce + 1 ELSE DebounceReads
  /\ paused' = (open /\ squelch_debounce' >= DebounceReads)
  /\ resume_countdown' = IF ~paused' THEN resume_countdown
                         ELSE IF resume_mode = "CARRIER" THEN HoldoffTicks ELSE ResumeTicks
  /\ listened' = TRUE
  /\ open_run' = IF ~open THEN 0 ELSE IF open_run < DebounceReads THEN open_run + 1
                 ELSE open_run
  /\ UNCHANGED <<scan_mode, tick_counter, settle_counter, current_channel, tuned, fresh>>

Wait ==
  /\ tick_counter' = tick_counter + 1
  /\ UNCHANGED <<scan_mode, paused, settle_counter, resume_countdown, squelch_debounce,
                 current_channel, tuned, fresh, listened, open_run>>

\* Mutant of Tuned: no settling time, so the debounce is not reset either.
TunedUnsettled(t) ==
  /\ tuned' = t
  /\ tick_counter' = 0
  /\ fresh' = FALSE /\ listened' = FALSE /\ open_run' = 0
  /\ UNCHANGED <<scan_mode, paused, resume_countdown, squelch_debounce, settle_counter>>

Tuned(t) ==
  /\ tuned' = t
  /\ settle_counter' = SettleTicks
  /\ tick_counter' = 0
  /\ fresh' = FALSE /\ listened' = FALSE /\ open_run' = 0
  /\ UNCHANGED <<scan_mode, paused, resume_countdown, squelch_debounce>>

\* vfo_step_in_range, or vfo_step, from where the VFO is; a channel stands for
\* a frequency outside the range.
StepVfo ==
  LET f == IF tuned[1] = "FREQ" THEN tuned[2] + 1 ELSE Band
  IN /\ scan_mode = "VFO"
     /\ Tuned(Tuning("FREQ", IF range_on
          THEN IF f > RangeHi THEN RangeLo ELSE IF f < RangeLo THEN RangeHi ELSE f
          ELSE IF f >= Band THEN 0 ELSE f))
     /\ UNCHANGED current_channel

\* A channel that is listed but does not load leaves ch uninitialised, and
\* the VFO anywhere.
StepMemory ==
  LET next == IF NextMem(current_channel) # NoMem THEN NextMem(current_channel)
              ELSE NextMem(0)
  IN /\ scan_mode = "MEMORY"
     /\ IF next = NoMem
        THEN /\ Stopped
             /\ UNCHANGED <<resume_countdown, squelch_debounce, current_channel, tuned,
                            fresh, listened, open_run>>
        ELSE /\ current_channel' = next
             /\ \E f \in {0, Band - 1} :
                  Tuned(IF next \in Unloadable THEN Tuning("FREQ", f)
                        ELSE Tuning("CH", next))

scanner_poll == \E open \in BOOLEAN :
  /\ scan_mode # "OFF"
  /\ CASE paused -> Hold(open)
       [] ~paused /\ settle_counter > 0 -> Settle
       [] ~paused /\ settle_counter = 0 /\ squelch_debounce < DebounceReads -> Listen(open)
       [] OTHER -> IF tick_counter + 1 < step_ticks THEN Wait ELSE StepVfo \/ StepMemory
  /\ UNCHANGED <<resume_mode, step_ticks, range_on, scan_list>>

ScanNext == scanner_start \/ scanner_stop \/ Configure \/ scanner_poll

-----------------------------------------------------------------------------

(* But for the frequency it starts on: the scan stops only where the       *)
(* squelch was read open DebounceReads times in a row after settling, and  *)
(* never leaves a frequency it has not listened to; in the memory scan the *)
(* channel it shows is the one it hears, but for one that channel_load     *)
(* refuses, whose result nobody looks at; with a range set it stays inside.*)
ScanHearsWhatItShows ==
  scan_mode # "OFF" /\ ~fresh =>
    /\ paused => open_run >= DebounceReads
    /\ settle_counter = 0 /\ squelch_debounce = DebounceReads => listened
    /\ scan_mode = "MEMORY" /\ current_channel \notin Unloadable =>
         tuned = Tuning("CH", current_channel)
    /\ scan_mode = "VFO" /\ range_on => tuned \in {"FREQ"} \X (RangeLo .. RangeHi)
=============================================================================
