------------------------------- MODULE Keypad -------------------------------
(***************************************************************************)
(* app/keypad.c: the scan of the key matrix and of the two side buttons,   *)
(* and the debouncer task_keypad polls every 20 ms.  Which keys are down   *)
(* at a poll is the environment's choice: fingers, bounce and noise.       *)
(***************************************************************************)
EXTENDS Integers, FiniteSets

CONSTANTS
  Matrix,        \* scan_keymap: the keys, each with its column and row
  Undriven,      \* the column of 1, 4, 7 and star, which no pin drives
  DebounceCount, \* KEY_DEBOUNCE_COUNT
  RepeatDelay, RepeatRate,
  HoldMod        \* 2^16, hold_count

Columns == {Undriven} \cup {Matrix[k].col : k \in DOMAIN Matrix}
Keys == {"SIDE1", "SIDE4"} \cup DOMAIN Matrix
NoKey == "NONE"

ASSUME KeypadAssumption ==
  /\ DebounceCount \in Nat \ {0} /\ HoldMod \in Nat
  /\ RepeatDelay \in Nat \ {0} /\ RepeatRate \in Nat \ {0}
  /\ RepeatDelay + RepeatRate < HoldMod

VARIABLES
  prev_key,      \* the last key accepted
  db_count, hold_count,
  key_event,     \* what the last poll returned
  pressed,       \* history: the keys whose press was reported, their release not yet
  quiet          \* history: polls since a key was last down, capped

keypadVars == <<prev_key, db_count, hold_count, key_event, pressed, quiet>>

Event(type, key) == [type |-> type, key |-> key]
NoKeyEvent == Event("NONE", NoKey)

KeypadTypeOK ==
  /\ prev_key \in Keys \cup {NoKey}
  /\ db_count \in 0 .. DebounceCount - 1
  /\ hold_count \in 0 .. HoldMod - 1
  /\ pressed \subseteq Keys

KeypadInit ==
  /\ prev_key = NoKey
  /\ db_count = 0
  /\ hold_count = 0
  /\ key_event = NoKeyEvent
  /\ pressed = {}
  /\ quiet = 0

-----------------------------------------------------------------------------

\* The rows that read low while column col is driven: the keys of the
\* undriven column pull theirs in every state.
LowRows(col, down) ==
  {Matrix[k].row : k \in {k \in down \cap DOMAIN Matrix :
                            Matrix[k].col \in {col, Undriven}}}

\* keypad_scan.  The side buttons come first, then the undriven column, then
\* the driven ones in order; a column with two rows low is passed over.
keypad_scan(down) ==
  LET single == {c \in Columns : Cardinality(LowRows(c, down)) = 1}
      first == IF Undriven \in single THEN Undriven
               ELSE CHOOSE c \in single : \A d \in single : c <= d
      found == {k \in DOMAIN Matrix :
                  /\ Matrix[k].col = first
                  /\ Matrix[k].row \in LowRows(first, down)}
  IN CASE "SIDE1" \in down -> "SIDE1"
       [] "SIDE1" \notin down /\ "SIDE4" \in down -> "SIDE4"
       [] OTHER -> IF single = {} \/ found = {} THEN NoKey
                   ELSE CHOOSE k \in found : TRUE

\* The key that is held stays so: it repeats, and the counter of reads that
\* disagree with it is left as it is.
Held ==
  LET h == (hold_count + 1) % HoldMod
  IN /\ hold_count' = h
     /\ key_event' = IF h >= RepeatDelay /\ (h - RepeatDelay) % RepeatRate = 0
                     THEN Event("REPEAT", prev_key) ELSE NoKeyEvent
     /\ UNCHANGED <<prev_key, db_count>>

\* Mutant of Accept: the press of the second key takes the place of the
\* release of the first.
AcceptRollover(raw) ==
  /\ prev_key' = raw
  /\ key_event' = IF raw # NoKey THEN Event("PRESS", raw)
                  ELSE Event("RELEASE", prev_key)
  /\ db_count' = 0 /\ hold_count' = 0

\* The read is believed.  When it replaces another key only the release of
\* that one is reported, never the press of the new one.
Accept(raw) ==
  /\ prev_key' = raw
  /\ key_event' = IF prev_key # NoKey THEN Event("RELEASE", prev_key)
                  ELSE Event("PRESS", raw)
  /\ db_count' = 0 /\ hold_count' = 0

\* A read that disagrees with prev_key counts, whatever key it shows.
Differs(raw) ==
  IF db_count + 1 >= DebounceCount THEN Accept(raw)
  ELSE /\ db_count' = db_count + 1
       /\ key_event' = NoKeyEvent
       /\ UNCHANGED <<prev_key, hold_count>>

Idle ==
  /\ db_count' = 0
  /\ key_event' = NoKeyEvent
  /\ UNCHANGED <<prev_key, hold_count>>

keypad_get_event(raw) ==
  \/ raw # NoKey /\ raw = prev_key /\ Held
  \/ raw # prev_key /\ Differs(raw)
  \/ raw = NoKey /\ prev_key = NoKey /\ Idle

KeypadPoll == \E down \in SUBSET Keys :
  /\ keypad_get_event(keypad_scan(down))
  /\ pressed' = CASE key_event'.type = "PRESS" -> pressed \cup {key_event'.key}
                  [] key_event'.type = "RELEASE" -> pressed \ {key_event'.key}
                  [] OTHER -> pressed
  /\ quiet' = IF down # {} THEN 0
              ELSE IF quiet < DebounceCount THEN quiet + 1 ELSE quiet

KeypadNext == KeypadPoll

-----------------------------------------------------------------------------

(* Every press that is reported is followed by the release of that key     *)
(* before anything else is pressed, also when a second key goes down       *)
(* first, and no key is left pressed once all have been up for as many     *)
(* polls as the debouncer asks: nothing downstream can stick.              *)
PressesAreReleased ==
  /\ pressed \subseteq {prev_key}
  /\ quiet >= DebounceCount => prev_key = NoKey
=============================================================================
