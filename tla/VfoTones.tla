------------------------------ MODULE VfoTones ------------------------------
(***************************************************************************)
(* app/vfo.c and drivers/bk4829.c: what a VFO holds besides its frequency  *)
(* and its offset (Vfo.tla) - squelch, scrambler and sub-audio tones -,    *)
(* what of it is programmed into its transceiver, and what a record read   *)
(* from the flash becomes.  CTCSS and DCS share REG_51 and REG_07, for     *)
(* both directions.  radio.c writes the chip too: the Monitor key, and the *)
(* end of a transmission (radio_ptt_off).                                  *)
(***************************************************************************)
EXTENDS Integers, FiniteSets

CONSTANTS
  Records,          \* what the flash may hold for a VFO
  Steps,            \* valid_steps
  CtcssTones,       \* ctcss_tone_table: tenths of Hz, by index
  DcsCodes,         \* dcs_code_table, by index
  ToneIndices,      \* the tone indices the setters are called with
  Levels            \* the squelch levels they are called with

Vfos == {"A", "B"}   \* VFO C is never enabled
NoIdx == 255         \* no tone: 0xFF

ASSUME TonesAssumption ==
  /\ 12500 \in Steps
  /\ Records \subseteq [step : Nat, squelch : Nat, power : Nat,
                       scrambler : BOOLEAN, tx : Nat, rx : Nat, dcs : Nat]
  /\ ToneIndices \subseteq Nat /\ Levels \subseteq Nat

VARIABLES
  vfos,    \* vfo_states
  regs,    \* each transceiver: squelch, scrambler, the tone it sends, and
           \* whether the squelch is the Monitor key's (history)
  on_vfo   \* active_vfo

tonesVars == <<vfos, regs, on_vfo>>

None == <<"NONE", NoIdx>>

TonesTypeOK ==
  /\ on_vfo \in Vfos
  /\ \A v \in Vfos :
       /\ vfos[v].step \in Steps /\ vfos[v].power \in 0 .. 2
       /\ regs[v].squelch \in 0 .. 9 /\ regs[v].scrambler \in BOOLEAN
       /\ regs[v].tone[1] \in {"NONE", "CTCSS", "DCS"}

-----------------------------------------------------------------------------
\* vfo_load_state.

\* The validation of a record; the tones are not looked at.
Sanitized(r) ==
  [r EXCEPT !.step = IF @ \in Steps THEN @ ELSE 12500,
            !.squelch = IF @ > 9 THEN 3 ELSE @,
            !.power = IF @ > 2 THEN 1 ELSE @]

\* The static initialiser of vfo_states.
Default == [step |-> 12500, squelch |-> 3, power |-> 1, scrambler |-> FALSE,
            tx |-> NoIdx, rx |-> NoIdx, dcs |-> NoIdx]

\* a and b are what the flash holds for VFOs A and B.
vfo_load_state(a, b) == [v \in Vfos |-> Sanitized(IF v = "A" THEN a ELSE b)]

-----------------------------------------------------------------------------
\* The transceiver.

\* bk4829_set_squelch: nothing above 9.
SquelchOf(level) == IF level > 9 THEN 9 ELSE level

\* bk4829_set_ctcss_tx and _rx, bk4829_set_dcs_tx and _rx: an index beyond
\* the table changes nothing.
SetCtcss(tone, idx) == IF idx \in DOMAIN CtcssTones THEN <<"CTCSS", idx>> ELSE tone
SetDcs(tone, idx) == IF idx \in DOMAIN DcsCodes THEN <<"DCS", idx>> ELSE tone

HasNoTone(s) == {s.tx, s.rx, s.dcs} = {NoIdx}

\* Mutant of ApplyTones: the tone of the settings before stays.
ApplyTonesKeep(s, tone) ==
  LET t1 == IF s.tx # NoIdx THEN SetCtcss(tone, s.tx) ELSE tone
      t2 == IF s.rx # NoIdx THEN SetCtcss(t1, s.rx) ELSE t1
  IN IF s.dcs # NoIdx THEN SetDcs(t2, s.dcs) ELSE t2

\* The tone part of vfo_apply.
ApplyTones(s, tone) ==
  LET t1 == IF s.tx # NoIdx THEN SetCtcss(tone, s.tx) ELSE tone
      t2 == IF s.rx # NoIdx THEN SetCtcss(t1, s.rx) ELSE t1
      t3 == IF s.dcs # NoIdx THEN SetDcs(t2, s.dcs) ELSE t2
  IN IF HasNoTone(s) THEN None ELSE t3

vfo_apply(s, r) ==
  [squelch |-> SquelchOf(s.squelch), scrambler |-> s.scrambler,
   tone |-> ApplyTones(s, r.tone), monitor |-> FALSE]

\* bk4829_init: the reset of the chip and the register table.
bk4829_init == [squelch |-> 0, scrambler |-> FALSE, tone |-> None, monitor |-> FALSE]

-----------------------------------------------------------------------------

\* vfo_init, at every boot, with the VFOs w, the one active of them.
Booted(w, active) ==
  /\ vfos' = w
  /\ regs' = [v \in Vfos |-> vfo_apply(w[v], bk4829_init)]
  /\ on_vfo' = active

TonesInit ==
  /\ vfos = [v \in Vfos |-> Default]
  /\ regs = [v \in Vfos |-> vfo_apply(Default, bk4829_init)]
  /\ on_vfo = "A"

\* Without a frequency for VFO A the record is refused.  The number of the
\* active VFO is that of B, or stands for A: VFO C is not enabled, and what
\* is none is taken for A.
vfo_init ==
  \/ Booted([v \in Vfos |-> Default], "A")
  \/ \E a, b \in Records, active \in Vfos : Booted(vfo_load_state(a, b), active)

\* One setter: the field, and what it does to the chip.
Set(v, state, reg) ==
  /\ vfos' = [vfos EXCEPT ![v] = state]
  /\ regs' = [regs EXCEPT ![v] = reg]
  /\ UNCHANGED on_vfo

\* vfo_set_ctcss_tx, vfo_set_ctcss_rx, vfo_set_dcs: 0xFF switches the tones
\* of the chip off, whatever the other fields say.
SetTone(v, idx) ==
  LET ctcss == IF idx = NoIdx THEN None ELSE SetCtcss(regs[v].tone, idx)
      dcs == IF idx = NoIdx THEN None ELSE SetDcs(regs[v].tone, idx)
  IN \/ Set(v, [vfos[v] EXCEPT !.tx = idx], [regs[v] EXCEPT !.tone = ctcss])
     \/ Set(v, [vfos[v] EXCEPT !.rx = idx], [regs[v] EXCEPT !.tone = ctcss])
     \/ Set(v, [vfos[v] EXCEPT !.dcs = idx], [regs[v] EXCEPT !.tone = dcs])

SetOther(v) ==
  \/ \E l \in Levels : Set(v, [vfos[v] EXCEPT !.squelch = l],
                           [regs[v] EXCEPT !.squelch = SquelchOf(l), !.monitor = FALSE])
  \/ \E on \in BOOLEAN : Set(v, [vfos[v] EXCEPT !.scrambler = on],
                             [regs[v] EXCEPT !.scrambler = on])

vfo_clear_tone(v) ==
  Set(v, [vfos[v] EXCEPT !.tx = NoIdx, !.rx = NoIdx, !.dcs = NoIdx],
      [regs[v] EXCEPT !.tone = None])

\* The Monitor key opens the squelch of the chip; nothing closes it but the
\* next vfo_set_squelch or vfo_apply.
Monitor ==
  /\ regs' = [regs EXCEPT ![on_vfo].squelch = 0, ![on_vfo].monitor = TRUE]
  /\ UNCHANGED <<vfos, on_vfo>>

\* vfo_set_active and vfo_toggle; and, of the VFO that is active, the reverse
\* key and the menu.
vfo_set_active(v) ==
  /\ on_vfo' = v
  /\ regs' = [regs EXCEPT ![v] = vfo_apply(vfos[v], @)]
  /\ UNCHANGED vfos

vfo_swap ==
  /\ vfos' = [A |-> vfos["B"], B |-> vfos["A"]]
  /\ regs' = [v \in Vfos |-> vfo_apply(vfos'[v], regs[v])]
  /\ UNCHANGED on_vfo

vfo_copy == \E inactive \in Vfos \ {on_vfo} :
  Set(inactive, vfos[on_vfo], vfo_apply(vfos[on_vfo], regs[inactive]))

\* The end of a transmission: a roger beep leaves REG_51 off, and so does the
\* tail tone, which is sent when a tone is.
EndOfTransmission ==
  /\ \/ regs' = [regs EXCEPT ![on_vfo].tone = None]
     \/ UNCHANGED regs
  /\ UNCHANGED <<vfos, on_vfo>>

TonesNext ==
  \/ vfo_init
  \/ \E v \in Vfos : \/ \E idx \in ToneIndices : SetTone(v, idx)
                     \/ SetOther(v) \/ vfo_clear_tone(v) \/ vfo_set_active(v)
  \/ vfo_swap \/ vfo_copy \/ Monitor \/ EndOfTransmission

-----------------------------------------------------------------------------
\* The words programmed.

\* REG_07 for a tone, the tail tone of 134.4 Hz among them.
FreqWord(tone) == ((tone * 206489) \div 100000) % 8192
TailTone == 1344

\* dcs_code_to_23bit, on sets of bit positions.
BitsOf(n, w) == {b \in 0 .. w - 1 : (n \div 2^b) % 2 = 1}
Xor(s, t) == (s \ t) \cup (t \ s)
GolayPoly == {0, 1, 5, 6, 7, 9, 11}
dcs_code_to_23bit(code) ==
  LET data == {b + 12 : b \in BitsOf(code, 9)}
      cw[i \in 0 .. 12] ==
        IF i = 0 THEN data
        ELSE LET c == IF 22 \in cw[i - 1] THEN Xor(cw[i - 1], {b + 11 : b \in GolayPoly})
                      ELSE cw[i - 1]
             IN {b + 1 : b \in c}
  IN data \cup {b - 12 : b \in cw[12] \cap 12 .. 22}

CodeWord == [i \in DOMAIN DcsCodes |-> dcs_code_to_23bit(DcsCodes[i])]

(* The tables of the source: no two tones have the same word, none that of *)
(* the tail tone, and two DCS words differ in seven bits at least, as words *)
(* of the Golay code do.                                                   *)
ASSUME WordsFarApart ==
  /\ \A i, j \in DOMAIN CtcssTones :
       i # j => FreqWord(CtcssTones[i]) # FreqWord(CtcssTones[j])
  /\ \A i \in DOMAIN CtcssTones : FreqWord(CtcssTones[i]) # FreqWord(TailTone)
  /\ \A i, j \in DOMAIN DcsCodes :
       i # j => Cardinality(Xor(CodeWord[i], CodeWord[j])) >= 7

Asked(s) == {<<"CTCSS", s.tx>>, <<"CTCSS", s.rx>>, <<"DCS", s.dcs>>}

\* The indices of the setters are those of the tables; a record may hold any.
InTables(s) ==
  /\ s.tx # NoIdx => s.tx \in DOMAIN CtcssTones
  /\ s.rx # NoIdx => s.rx \in DOMAIN CtcssTones
  /\ s.dcs # NoIdx => s.dcs \in DOMAIN DcsCodes

(* Whatever was loaded, set, swapped, copied or transmitted: the squelch   *)
(* and the scrambler of a transceiver are those of its VFO, but for a      *)
(* squelch the Monitor key opened; a VFO without a tone never sends one;   *)
(* and no VFO sends a tone it does not ask for, one that another VFO or    *)
(* an earlier setting left in the chip, but for an index that a record     *)
(* brought and no table has.                                               *)
ChipFollowsVfo ==
  \A v \in Vfos :
    /\ regs[v].squelch = IF regs[v].monitor THEN 0 ELSE SquelchOf(vfos[v].squelch)
    /\ regs[v].scrambler = vfos[v].scrambler
    /\ HasNoTone(vfos[v]) => regs[v].tone = None
    /\ InTables(vfos[v]) => regs[v].tone \in Asked(vfos[v]) \cup {None}
=============================================================================
