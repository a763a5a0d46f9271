-------------------------------- MODULE Vfo --------------------------------
(***************************************************************************)
(* app/vfo.c for VFOs A and B, each with a BK4829 transceiver of its own.  *)
(* (VFO C, which shares the chip of A, is never enabled: nothing calls     *)
(* vfo_set_c_enabled.  vfo_swap and vfo_copy have no callers either.)      *)
(*                                                                         *)
(* Frequencies are multiples of the tuning step.  What a VFO holds is its  *)
(* frequency and the direction of its transmit offset; an offset of 0 Hz   *)
(* is the direction 0.  Tones, squelch, power and the saved record are in  *)
(* VfoTones.                                                               *)
(***************************************************************************)
EXTENDS Integers

CONSTANTS
  MinFreq, MaxFreq,  \* bounds: tuning that leaves them is not explored
  Bands,             \* rx_bands, as pairs <<low, high>>
  Offset             \* offset_freq_hz

Freqs == MinFreq .. MaxFreq

ASSUME FreqAssumption ==
  /\ MinFreq \in Nat /\ MaxFreq \in Nat /\ Offset \in Nat \ {0}
  /\ MinFreq > Offset
  /\ Bands # {}
  /\ \A b \in Bands : b \in Freqs \X Freqs /\ b[1] <= b[2]

VARIABLES
  vfo,         \* vfo_states: freq_hz and offset_dir
  active_vfo,
  chip,        \* the BK4829 of each VFO: the frequency it is on, and REG_30
  strayed      \* history: VFOs whose offset was removed on the air

vfoVars == <<vfo, active_vfo, chip, strayed>>

Vfos == {"A", "B"}
Dir == 0 .. 2    \* no offset, +, -

\* What is written to REG_30: 0x0000, 0xBFF1, 0xC1FE, and the value that vox.c
\* calls its TX mode, 0xC3FA.
Mode == {"STANDBY", "RX", "TX", "VOX_TX"}

VfoTypeOK ==
  /\ vfo \in [Vfos -> [freq : Freqs, dir : Dir]]
  /\ active_vfo \in Vfos
  /\ chip \in [Vfos -> [freq : Nat, mode : Mode]]
  /\ strayed \in SUBSET Vfos

-----------------------------------------------------------------------------

InBand(f, b) == b[1] <= f /\ f <= b[2]

freq_in_rx_band(f) == \E b \in Bands : InBand(f, b)

\* freq_clamp_to_band: the nearest band edge, the lower of two as near.
Distance(f, g) == IF f > g THEN f - g ELSE g - f
Edges == {b[1] : b \in Bands} \cup {b[2] : b \in Bands}
freq_clamp_to_band(f) ==
  IF freq_in_rx_band(f) THEN f
  ELSE CHOOSE e \in Edges : \A d \in Edges \ {e} :
         \/ Distance(f, e) < Distance(f, d)
         \/ Distance(f, e) = Distance(f, d) /\ e < d

\* vfo_get_tx_freq; no frequency is so low that the offset reaches 0.
TxFreq(s) == CASE s.dir = 0 -> s.freq
               [] s.dir = 1 -> s.freq + Offset
               [] s.dir = 2 -> s.freq - Offset

\* bk4829_set_frequency ends with the receiver enabled, and so does
\* vfo_apply.
Receiving(f) == [freq |-> f, mode |-> "RX"]

\* Mutant of TuneTo: a chip that transmits goes on transmitting.
TuneOnAir(v, s) ==
  /\ vfo' = [vfo EXCEPT ![v] = s]
  /\ chip' = [chip EXCEPT ![v].freq = s.freq]
  /\ strayed' = strayed \ {v}
  /\ UNCHANGED active_vfo

TuneTo(v, s) ==
  /\ vfo' = [vfo EXCEPT ![v] = s]
  /\ chip' = [chip EXCEPT ![v] = Receiving(s.freq)]
  /\ strayed' = strayed \ {v}
  /\ UNCHANGED active_vfo

vfo_apply(v) == TuneTo(v, vfo[v])

-----------------------------------------------------------------------------

\* vfo_init with vfo_load_state: what was saved last, its frequencies clamped
\* into the bands; both chips receive.
VfoInit ==
  /\ vfo \in [Vfos -> [freq : {f \in Freqs : freq_in_rx_band(f)}, dir : Dir]]
  /\ active_vfo \in Vfos
  /\ chip = [v \in Vfos |-> Receiving(vfo[v].freq)]
  /\ strayed = {}

\* Outside the bands vfo_step does not wrap.
Stepped(f, dir) ==
  IF freq_in_rx_band(f) /\ ~\E b \in Bands : InBand(f, b) /\ InBand(f + dir, b)
  THEN LET b == CHOOSE b \in Bands : InBand(f, b)
       IN IF dir > 0 THEN b[1] ELSE b[2]
  ELSE f + dir

vfo_step(dir) ==
  LET f == Stepped(vfo[active_vfo].freq, dir)
  IN f \in Freqs /\ TuneTo(active_vfo, [vfo[active_vfo] EXCEPT !.freq = f])

vfo_set_frequency(v, f) ==
  TuneTo(v, [vfo[v] EXCEPT !.freq = freq_clamp_to_band(f)])

\* vfo_toggle and vfo_apply of the VFO it selects.
vfo_toggle ==
  /\ active_vfo' = IF active_vfo = "A" THEN "B" ELSE "A"
  /\ chip' = [chip EXCEPT ![active_vfo'] = Receiving(vfo[active_vfo'].freq)]
  /\ strayed' = strayed \ {active_vfo'}
  /\ UNCHANGED vfo

\* vfo_reverse_toggle and vfo_apply of the active VFO: the receiver moves to
\* the transmit frequency and the offset is turned round.
vfo_reverse_toggle ==
  LET s == vfo[active_vfo]
  IN IF s.dir = 0
     THEN vfo_apply(active_vfo)
     ELSE /\ TxFreq(s) \in Freqs
          /\ TuneTo(active_vfo, [freq |-> TxFreq(s), dir |-> 3 - s.dir])

\* vfo_set_offset_dir and vfo_set_offset_freq: the chip is left alone.
vfo_set_offset_dir(d) ==
  /\ vfo' = [vfo EXCEPT ![active_vfo].dir = d]
  /\ UNCHANGED <<active_vfo, chip>>
=============================================================================
