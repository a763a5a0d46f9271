------------------------------- MODULE Power -------------------------------
(***************************************************************************)
(* app/power.c: the power switch on PE0 and the latch on PB9, the idle     *)
(* timers of auto power-off and auto key lock, the low battery warning,    *)
(* and the sleep that follows power_off when the supply does not collapse. *)
(* Interrupts are masked from power_off on: no task runs until the reset.  *)
(***************************************************************************)
EXTENDS Integers

CONSTANTS
  LongPress,       \* PWR_BTN_LONG_PRESS_COUNT
  Minute,          \* bound: polls of power_poll in a minute (60)
  AutoOffMinutes,  \* auto_off_minutes_table
  KeylockSeconds,  \* AUTO_KEYLOCK_SECONDS
  LowBattBeep,     \* LOW_BATT_BEEP_INTERVAL
  MaxQuiet         \* bound: where the history of quiet seconds stops counting

ASSUME PowerAssumption ==
  /\ {LongPress, Minute, KeylockSeconds, LowBattBeep, MaxQuiet} \subseteq Nat \ {0}
  /\ AutoOffMinutes \subseteq Nat
  /\ \A m \in AutoOffMinutes : m * Minute <= MaxQuiet
  /\ KeylockSeconds <= MaxQuiet

VARIABLES
  power,            \* ON, RELEASED (latch open, waiting), STOP, CUT
  switch_on,        \* environment: PE0 low
  held_count,       \* pwr_btn_held_count
  auto_off_minutes, idle_seconds, keylock_idle,
  auto_lock, keypad_lock,  \* the settings
  low_batt_counter, \* zero when the battery is not low
  backlight,        \* PC6 and PB3
  wake_pending,     \* EXTI0 pending in the NVIC
  off_reads, calm, \* history: reads of OFF in a row, seconds without activity
  turned_on         \* history: the switch went to ON after the wake-up was armed

timerVars == <<held_count, auto_off_minutes, idle_seconds, keylock_idle,
               auto_lock, keypad_lock, low_batt_counter, off_reads, calm>>
powerVars == <<power, switch_on, backlight, wake_pending, turned_on, timerVars>>

PowerTypeOK ==
  /\ power \in {"ON", "RELEASED", "STOP", "CUT"}
  /\ held_count \in 0 .. LongPress
  /\ idle_seconds \in 0 .. MaxQuiet /\ keylock_idle \in 0 .. MaxQuiet
  /\ auto_off_minutes \in AutoOffMinutes \cup {0}
  /\ low_batt_counter \in 0 .. LowBattBeep - 1
  /\ {switch_on, auto_lock, keypad_lock, backlight, wake_pending, turned_on}
       \subseteq BOOLEAN

PowerInit ==
  /\ power = "ON" /\ switch_on = TRUE
  /\ held_count = 0 /\ auto_off_minutes = 0
  /\ idle_seconds = 0 /\ keylock_idle = 0
  /\ auto_lock = FALSE /\ keypad_lock = FALSE
  /\ low_batt_counter = 0
  /\ backlight = TRUE
  /\ wake_pending = FALSE
  /\ off_reads = 0 /\ calm = 0 /\ turned_on = FALSE

-----------------------------------------------------------------------------

\* power_off up to the release of the latch: RF and amplifier off, speaker
\* muted, backlight and LEDs dark.
power_off ==
  /\ power' = "RELEASED"
  /\ backlight' = FALSE

StaysOn == UNCHANGED <<power, backlight>>

\* Mutant of SwitchOnRead: the count survives a switch that came back.
SwitchOnReadKeeps ==
  /\ off_reads' = 0
  /\ UNCHANGED held_count
  /\ StaysOn

SwitchOnRead ==
  /\ off_reads' = 0
  /\ held_count' = 0
  /\ StaysOn

SwitchOffRead ==
  /\ off_reads' = off_reads + 1
  /\ held_count' = held_count + 1
  /\ IF held_count' >= LongPress THEN power_off ELSE StaysOn

\* power_button_poll: once triggered it is never called again, power_off does
\* not return.
power_button_poll ==
  /\ power = "ON"
  /\ IF switch_on THEN SwitchOnRead ELSE SwitchOffRead
  /\ UNCHANGED <<switch_on, wake_pending, turned_on, auto_off_minutes, idle_seconds,
                 keylock_idle, auto_lock, keypad_lock, low_batt_counter, calm>>

\* power_poll, once a second: auto power-off, then auto key lock, then the
\* warning of a low battery.  power_shutdown does not return.
power_poll ==
  /\ power = "ON"
  /\ calm' = IF calm < MaxQuiet THEN calm + 1 ELSE calm
  /\ idle_seconds' = IF auto_off_minutes = 0 THEN idle_seconds ELSE idle_seconds + 1
  /\ IF auto_off_minutes # 0 /\ idle_seconds' >= auto_off_minutes * Minute
     THEN /\ power_off
          /\ UNCHANGED <<keylock_idle, keypad_lock, low_batt_counter>>
     ELSE /\ StaysOn
          /\ LET counts == auto_lock /\ ~keypad_lock
             IN /\ keylock_idle' = IF counts THEN keylock_idle + 1 ELSE keylock_idle
                /\ keypad_lock' = (keypad_lock \/ (counts /\ keylock_idle' >= KeylockSeconds))
          /\ \E low \in BOOLEAN :
               low_batt_counter' = IF low THEN (low_batt_counter + 1) % LowBattBeep ELSE 0
  /\ UNCHANGED <<switch_on, held_count, auto_off_minutes, auto_lock, wake_pending,
                 off_reads, turned_on>>

\* power_reset_idle_timer: a key, a detent, the PTT.  What the key then does,
\* the menu among it: the lock, auto lock, auto power-off, the backlight.
Activity ==
  /\ power = "ON"
  /\ calm' = 0
  /\ idle_seconds' = 0 /\ keylock_idle' = 0
  /\ \/ UNCHANGED <<auto_off_minutes, auto_lock, keypad_lock, backlight>>
     \/ /\ keypad_lock' = ~keypad_lock
        /\ UNCHANGED <<auto_off_minutes, auto_lock, backlight>>
     \/ /\ auto_lock' = ~auto_lock
        /\ UNCHANGED <<auto_off_minutes, keypad_lock, backlight>>
     \/ /\ auto_off_minutes' \in AutoOffMinutes
        /\ UNCHANGED <<auto_lock, keypad_lock, backlight>>
     \/ /\ backlight' = ~backlight
        /\ UNCHANGED <<auto_off_minutes, auto_lock, keypad_lock>>
  /\ UNCHANGED <<power, switch_on, held_count, low_batt_counter, wake_pending,
                 off_reads, turned_on>>

\* The regulator drops the rail, or the code that follows runs: the wake-up
\* on the falling edge of PE0 is armed, what was pending is cleared.
RailDrops ==
  /\ power = "RELEASED"
  /\ power' = "CUT"
  /\ UNCHANGED <<switch_on, backlight, wake_pending, turned_on, timerVars>>

ArmWakeUp ==
  /\ power = "RELEASED"
  /\ power' = "STOP"
  /\ wake_pending' = FALSE
  /\ turned_on' = FALSE
  /\ UNCHANGED <<switch_on, backlight, timerVars>>

\* A boot: RAM and pins as app_init leaves them, the settings from the flash.
Boot ==
  /\ power' = "ON"
  /\ held_count' = 0 /\ auto_off_minutes' = 0
  /\ idle_seconds' = 0 /\ keylock_idle' = 0 /\ low_batt_counter' = 0
  /\ backlight' = TRUE
  /\ wake_pending' = FALSE
  /\ off_reads' = 0 /\ calm' = 0 /\ turned_on' = FALSE
  /\ UNCHANGED <<auto_lock, keypad_lock>>

\* WFI returns while EXTI0 is pending in the NVIC, which nothing clears, or
\* for no reason; PE0 decides.
Wfi ==
  /\ power = "STOP"
  /\ switch_on
  /\ Boot
  /\ UNCHANGED switch_on

\* External: the supply comes back with the switch; or the watchdog the boot
\* loader started, which nothing feeds in STOP, resets the chip.
PowerUp ==
  /\ power = "CUT" /\ switch_on
  /\ Boot
  /\ UNCHANGED switch_on

Watchdog ==
  /\ power = "STOP"
  /\ Boot
  /\ UNCHANGED switch_on

Switch ==
  /\ switch_on' = ~switch_on
  /\ wake_pending' = (wake_pending \/ (power = "STOP" /\ switch_on'))
  /\ turned_on' = (power = "STOP" /\ switch_on')
  /\ UNCHANGED <<power, backlight, timerVars>>

PowerNext ==
  \/ power_button_poll \/ power_poll \/ Activity
  \/ RailDrops \/ ArmWakeUp \/ Wfi \/ PowerUp \/ Watchdog \/ Switch

-----------------------------------------------------------------------------

(* The radio goes off only when the switch has been read OFF LongPress     *)
(* times in a row, or when auto power-off is set and nobody has touched    *)
(* the radio for as long; the key lock counts no second of activity; once  *)
(* off it is dark, and a switch turned ON while it sleeps has armed the    *)
(* event that wakes it.                                                    *)
OffOnlyWhenAsked ==
  /\ power # "ON" =>
       /\ \/ off_reads >= LongPress
          \/ auto_off_minutes # 0 /\ calm >= auto_off_minutes * Minute
       /\ ~backlight
  /\ idle_seconds <= calm /\ keylock_idle <= calm
  /\ power = "STOP" /\ turned_on => wake_pending
=============================================================================
