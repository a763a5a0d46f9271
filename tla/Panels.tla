------------------------------- MODULE Panels -------------------------------
(***************************************************************************)
(* The panels that take the keys and the knob while they are open: the     *)
(* multi-tap editor of names (app/text_input.c), the entry of a frequency  *)
(* (app/freq_entry.c), the zone browser (app/zone_browser.c) and the list  *)
(* of DTMF contacts (app/dtmf_contacts.c).  radio.c and menu.c open one    *)
(* when none is open; each starts from what its open call sets.            *)
(*                                                                         *)
(* Characters are model values standing for a place in a key's row: what   *)
(* matters is how many there are and where the cursor is.                  *)
(***************************************************************************)
EXTENDS Integers, Sequences

CONSTANTS
  TextMax,       \* TEXT_INPUT_MAX
  Rows,          \* key_map: the letter keys, each with its row of characters
  LowerOf,       \* the letters, each with the one of the other case
  TapTimeout,    \* MULTITAP_TIMEOUT_MS, in ticks
  PanelDigits,   \* the digits typed
  EntryBands,    \* VHF_LOW .. UHF_HIGH, in kHz
  Zones,         \* FLASH_ZONE_MAX
  Contacts,      \* FLASH_DTMF_TOTAL_CONTACTS
  VisibleRows,   \* VISIBLE_ROWS
  Stored         \* read_contact: the contacts that are not blank

Blank == " "
NoRow == "none"

Chars == UNION {{Rows[k][n] : n \in DOMAIN Rows[k]} : k \in DOMAIN Rows}

ASSUME PanelsAssumption ==
  /\ TextMax \in Nat \ {0} /\ TapTimeout \in Nat \ {0}
  /\ NoRow \notin DOMAIN Rows
  /\ \A k \in DOMAIN Rows : Rows[k] \in Seq(Chars) /\ Rows[k] # << >>
  /\ DOMAIN LowerOf \subseteq Chars
  /\ \A ch \in DOMAIN LowerOf : LowerOf[ch] \in Chars
  /\ PanelDigits \subseteq 0 .. 9
  /\ \A b \in EntryBands : b[1] \in Nat /\ b[2] \in Nat
  /\ {Zones, Contacts, VisibleRows} \subseteq Nat \ {0}
  /\ Stored \subseteq 0 .. Contacts - 1

VARIABLES
  kind,          \* the panel a behaviour is about; they share no state
  panel,         \* the panel that is open
  text,          \* edit_buf, up to its terminator
  cursor,        \* of the text, the zones or the contacts
  last_map_idx,  \* the row of the pending letter, or NoRow
  tap_pos,
  since_tap,     \* ticks since last_tap_ms, capped
  digits,        \* digits[0 .. digit_count - 1]
  scroll_top,
  entered,         \* the frequency last given to vfo_set_frequency, in kHz
  name,          \* dest_buf: the name confirmed last
  selected       \* of the browser closed last

panelsVars == <<kind, panel, text, cursor, last_map_idx, tap_pos, since_tap, digits,
                scroll_top, entered, name, selected>>

PanelsTypeOK ==
  /\ kind \in {"text", "freq", "zones", "contacts"}
  /\ panel \in {"none", kind}
  /\ text \in Seq(Chars)
  /\ cursor \in Nat
  /\ last_map_idx \in DOMAIN Rows \cup {NoRow}
  /\ tap_pos \in Nat /\ since_tap \in 0 .. TapTimeout + 1
  /\ digits \in Seq(PanelDigits)
  /\ name \in Seq(Chars \cup {Blank})

PanelsInit ==
  /\ kind \in {"text", "freq", "zones", "contacts"}
  /\ panel = "none"
  /\ text = << >> /\ cursor = 0
  /\ last_map_idx = NoRow /\ tap_pos = 0 /\ since_tap = 0
  /\ digits = << >> /\ scroll_top = 0
  /\ entered = 0
  /\ name = << >>
  /\ selected = "none"

-----------------------------------------------------------------------------
(* The editor of names. *)

TapState == <<last_map_idx, tap_pos, since_tap>>
OtherPanels == UNCHANGED <<digits, scroll_top, entered, selected>>

\* commit_tap: the cursor after it.
Committed == IF last_map_idx # NoRow /\ cursor < TextMax THEN cursor + 1
             ELSE cursor
TimedOut == last_map_idx # NoRow /\ since_tap > TapTimeout

\* text_input_start: the stored name without its trailing blanks, the cursor
\* behind it.
TextStart ==
  /\ kind = "text" /\ panel = "none" /\ panel' = kind
  /\ \E n \in 0 .. Len(name) :
       /\ \A i \in n + 1 .. Len(name) : name[i] = Blank
       /\ n > 0 => name[n] # Blank
       /\ text' = SubSeq(name, 1, n) /\ cursor' = n
  /\ last_map_idx' = NoRow /\ tap_pos' = 0 /\ since_tap' = 0
  /\ UNCHANGED name /\ OtherPanels

\* The rest of text_input_handle_key, with the cursor at c and the row last
\* pressed, after the time-out was looked at.
TextConfirm(c, last) ==
  /\ name' = [i \in 1 .. TextMax |-> IF i <= Len(text) THEN text[i] ELSE Blank]
  /\ panel' = "none" /\ last_map_idx' = NoRow
  /\ cursor' = IF last # NoRow /\ c < TextMax THEN c + 1 ELSE c
  /\ UNCHANGED <<text, tap_pos, since_tap>>

TextCancel(c, last) ==
  /\ panel' = "none"
  /\ cursor' = c /\ last_map_idx' = last
  /\ UNCHANGED <<text, name, tap_pos, since_tap>>

\* STAR: the character before the cursor goes, and a pending letter, which is
\* under the cursor, stays.
TextBackspace(c) ==
  /\ last_map_idx' = NoRow
  /\ IF c > 0
     THEN cursor' = c - 1 /\ text' = SubSeq(text, 1, c - 1) \o SubSeq(text, c + 1, Len(text))
     ELSE cursor' = c /\ UNCHANGED text
  /\ UNCHANGED <<panel, name, tap_pos, since_tap>>

\* HASH: the case of the character before the cursor.
TextCase(c, last) ==
  /\ cursor' = c /\ last_map_idx' = last
  /\ text' = IF c > 0 /\ text[c] \in DOMAIN LowerOf
             THEN [text EXCEPT ![c] = LowerOf[text[c]]] ELSE text
  /\ UNCHANGED <<panel, name, tap_pos, since_tap>>

\* Writing at the cursor; a new character ends the text behind itself.
SetAt(c, ch) == [i \in 1 .. (IF c + 1 > Len(text) THEN c + 1 ELSE Len(text)) |->
                   IF i = c + 1 THEN ch ELSE text[i]]

TextLetter(c, last, k) ==
  /\ IF k = last
     THEN /\ tap_pos' = (tap_pos + 1) % Len(Rows[k])
          /\ text' = SetAt(c, Rows[k][tap_pos' + 1])
          /\ since_tap' = 0
          /\ cursor' = c /\ last_map_idx' = last
     ELSE LET at == IF last # NoRow /\ c < TextMax THEN c + 1 ELSE c
          IN /\ cursor' = at
             /\ IF at >= TextMax
                THEN last_map_idx' = NoRow /\ UNCHANGED <<text, tap_pos, since_tap>>
                ELSE /\ last_map_idx' = k /\ tap_pos' = 0 /\ since_tap' = 0
                     /\ text' = Append(SubSeq(text, 1, at), Rows[k][1])
  /\ UNCHANGED <<panel, name>>

text_input_handle_key ==
  /\ panel = "text"
  /\ LET c == IF TimedOut THEN Committed ELSE cursor
         last == IF TimedOut THEN NoRow ELSE last_map_idx
     IN \/ TextConfirm(c, last)
        \/ TextCancel(c, last)
        \/ TextBackspace(c)
        \/ TextCase(c, last)
        \/ \E k \in DOMAIN Rows : TextLetter(c, last, k)
  /\ OtherPanels

\* text_input_handle_encoder.
TextEncoder ==
  /\ panel = "text"
  /\ \E direction \in {-1, 1} :
       cursor' = IF direction > 0 /\ Committed < Len(text) THEN Committed + 1
                 ELSE IF direction < 0 /\ Committed > 0 THEN Committed - 1
                 ELSE Committed
  /\ last_map_idx' = NoRow
  /\ UNCHANGED <<panel, text, name, tap_pos, since_tap>> /\ OtherPanels

\* text_input_draw commits a letter that has waited too long.
TextDraw ==
  /\ panel = "text" /\ TimedOut
  /\ cursor' = Committed /\ last_map_idx' = NoRow
  /\ UNCHANGED <<panel, text, name, tap_pos, since_tap>> /\ OtherPanels

TapTick ==
  /\ panel = "text" /\ last_map_idx # NoRow /\ since_tap <= TapTimeout
  /\ since_tap' = since_tap + 1
  /\ UNCHANGED <<panel, text, cursor, name, last_map_idx, tap_pos>> /\ OtherPanels

-----------------------------------------------------------------------------
(* The entry of a frequency: XXX.XXX MHz. *)

FreqUnused == UNCHANGED <<text, cursor, TapState, scroll_top, name, selected>>

\* freq_entry_get_freq_hz, in kHz: 0 until the six digits are there.
EntryKHz(d) ==
  IF Len(d) < 6 THEN 0
  ELSE ((d[1] * 10 + d[2]) * 10 + d[3]) * 1000 + (d[4] * 10 + d[5]) * 10 + d[6]

freq_in_band(f) == \E b \in EntryBands : b[1] <= f /\ f <= b[2]

\* freq_entry_confirm: out of band the entry stays open.
FreqConfirm(d) ==
  IF EntryKHz(d) # 0 /\ freq_in_band(EntryKHz(d))
  THEN entered' = EntryKHz(d) /\ panel' = "none"
  ELSE UNCHANGED <<entered, panel>>

\* radio_handle_key opens the entry with the digit that was pressed.
FreqStart ==
  /\ kind = "freq" /\ panel = "none" /\ panel' = kind
  /\ \E d \in PanelDigits : digits' = <<d>>
  /\ UNCHANGED entered /\ FreqUnused

\* freq_entry_digit, which confirms on the sixth.
FreqDigit ==
  /\ panel = "freq" /\ Len(digits) < 6
  /\ \E d \in PanelDigits :
       /\ digits' = Append(digits, d)
       /\ IF Len(digits') = 6 THEN FreqConfirm(digits') ELSE UNCHANGED <<entered, panel>>
  /\ FreqUnused

FreqHash ==
  /\ panel = "freq" /\ FreqConfirm(digits)
  /\ UNCHANGED digits /\ FreqUnused

FreqBackspace ==
  /\ panel = "freq" /\ digits # << >>
  /\ digits' = SubSeq(digits, 1, Len(digits) - 1)
  /\ UNCHANGED <<panel, entered>> /\ FreqUnused

FreqCancel ==
  /\ panel = "freq" /\ panel' = "none"
  /\ digits' = << >>
  /\ UNCHANGED entered /\ FreqUnused

-----------------------------------------------------------------------------
(* The zone browser and the DTMF contacts. *)

BrowserUnused == UNCHANGED <<text, TapState, digits, entered, name>>

BrowserOpen ==
  /\ kind \in {"zones", "contacts"} /\ panel = "none" /\ panel' = kind
  /\ cursor' = 0
  /\ scroll_top' = IF panel' = "contacts" THEN 0 ELSE scroll_top
  /\ selected' = "none"
  /\ BrowserUnused

\* C_MENU takes the entry under the cursor; a blank contact leaves none.
BrowserTake ==
  /\ panel \in {"zones", "contacts"} /\ panel' = "none"
  /\ selected' = IF panel = "contacts" /\ cursor \notin Stored THEN selected
                 ELSE <<panel, cursor>>
  /\ UNCHANGED <<cursor, scroll_top>> /\ BrowserUnused

BrowserBack ==
  /\ panel \in {"zones", "contacts"} /\ panel' = "none"
  /\ selected' = "none"
  /\ UNCHANGED <<cursor, scroll_top>> /\ BrowserUnused

BrowserEncoder ==
  /\ panel \in {"zones", "contacts"}
  /\ \E direction \in {-1, 1} :
       LET last == (IF panel = "zones" THEN Zones ELSE Contacts) - 1
       IN cursor' = IF direction > 0 /\ cursor < last THEN cursor + 1
                    ELSE IF direction < 0 /\ cursor > 0 THEN cursor - 1 ELSE cursor
  /\ scroll_top' = IF panel = "zones" THEN scroll_top
                   ELSE IF cursor' < scroll_top THEN cursor'
                   ELSE IF cursor' >= scroll_top + VisibleRows
                        THEN cursor' - VisibleRows + 1 ELSE scroll_top
  /\ UNCHANGED <<panel, selected>> /\ BrowserUnused

PanelsNext ==
  /\ \/ TextStart \/ text_input_handle_key \/ TextEncoder \/ TextDraw \/ TapTick
     \/ FreqStart \/ FreqDigit \/ FreqHash \/ FreqBackspace \/ FreqCancel
     \/ BrowserOpen \/ BrowserTake \/ BrowserBack \/ BrowserEncoder
  /\ UNCHANGED kind

-----------------------------------------------------------------------------

(* The next tap always lands on the letter it cycles: a pending letter is  *)
(* the one under the cursor, inside the text, and the cursor never passes  *)
(* the end of the text nor of the buffer, so no write goes past the        *)
(* terminator.                                                             *)
TextStaysInBuffer == panel = "text" =>
  /\ Len(text) <= TextMax /\ cursor <= Len(text)
  /\ last_map_idx # NoRow =>
       /\ cursor < Len(text)
       /\ text[cursor + 1] = Rows[last_map_idx][tap_pos + 1]

(* The knob and the keys leave the panels in a state their drawing shows:  *)
(* the selected contact is on the screen, and the VFO is given only        *)
(* frequencies of the entry's bands.                                       *)
PanelsKeepTheirPlace ==
  /\ TextStaysInBuffer
  /\ panel = "contacts" => scroll_top <= cursor /\ cursor < scroll_top + VisibleRows
  /\ entered = 0 \/ freq_in_band(entered)
=============================================================================
