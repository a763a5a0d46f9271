------------------------------ MODULE Spectrum ------------------------------
(***************************************************************************)
(* app/spectrum.c: one transceiver sweeps the bins around a centre, keys   *)
(* change span, step, mode and marker between two sweeps, the knob moves   *)
(* the centre.  Nothing calls it yet; it is entered and polled as          *)
(* spectrum.h asks.  What a bin reads is the environment's choice.         *)
(***************************************************************************)
EXTENDS Integers

CONSTANTS
  NumBins,                   \* SPEC_NUM_BINS
  SpanMin, SpanMax, SpanDefault, StepMin, StepMax, StepDefault, CenterDefault,
  RfMin, RfMax,              \* 18 MHz, 1300 MHz
  KnobSteps,                 \* 10: steps the centre moves by at one detent
  Readings                   \* the values of a reading

ASSUME SpectrumAssumption ==
  /\ NumBins \in Nat \ {0}
  /\ {SpanMin, SpanDefault, SpanMax, StepMin, StepDefault, StepMax} \subseteq Nat
  /\ SpanMin <= SpanDefault /\ SpanDefault <= SpanMax
  /\ 0 < StepMin /\ StepMin <= StepDefault /\ StepDefault <= StepMax
  /\ {RfMin, RfMax, CenterDefault, KnobSteps} \subseteq Nat
  /\ RfMin + SpanMax <= RfMax
  /\ RfMin + SpanDefault \div 2 <= CenterDefault
  /\ CenterDefault + SpanDefault \div 2 <= RfMax
  /\ 0 \in Readings /\ Readings \subseteq Nat

VARIABLES
  spec,     \* spectrum_state_t
  enabled,  \* the chips whose receiver REG_30 enables
  heard     \* history: the frequency each bin was last read at

spectrumVars == <<spec, enabled, heard>>

Bins == 0 .. NumBins - 1
Chips2 == {0, 1}

SpectrumTypeOK ==
  /\ spec.center_freq \in Nat /\ spec.span \in SpanMin .. SpanMax
  /\ spec.step \in StepMin .. StepMax
  /\ spec.mode \in {"LIVE", "PEAK", "FROZEN"}
  /\ spec.chip \in Chips2 /\ spec.active \in BOOLEAN /\ spec.marker_bin \in Bins
  /\ spec.rssi \in [Bins -> Readings] /\ spec.peak \in [Bins -> Readings]
  /\ enabled \subseteq Chips2

\* spectrum_init.
Blank0 == [b \in Bins |-> 0]
Defaults(c, on) ==
  [center_freq |-> CenterDefault, span |-> SpanDefault, step |-> StepDefault,
   mode |-> "LIVE", chip |-> c, active |-> on, marker_bin |-> NumBins \div 2,
   rssi |-> Blank0, peak |-> Blank0]

SpectrumInit ==
  /\ spec = Defaults(0, FALSE)
  /\ enabled = Chips2
  /\ heard = [b \in Bins |-> -1]

-----------------------------------------------------------------------------

StepPerBin(s) ==
  IF s.span \div NumBins < s.step THEN s.step ELSE s.span \div NumBins
bin_freq(s, b) == s.center_freq - s.span \div 2 + b * StepPerBin(s)

clamp_center(s) ==
  LET half == s.span \div 2
      low == IF s.center_freq < half + RfMin THEN half + RfMin ELSE s.center_freq
  IN [s EXCEPT !.center_freq = IF low + half > RfMax THEN RfMax - half ELSE low]

\* handle_encoder: below zero the centre wraps and is put to the bottom.
handle_encoder(s, dir) ==
  LET moved == s.center_freq + s.step * KnobSteps * dir
  IN IF dir = 0 THEN s
     ELSE clamp_center([s EXCEPT !.center_freq =
            IF moved < 0 THEN s.span \div 2 + RfMin ELSE moved])

AtLeast(a, b) == IF a < b THEN b ELSE a
AtMost(a, b) == IF a > b THEN b ELSE a
NextMode == [m \in {"LIVE", "PEAK", "FROZEN"} |->
  CASE m = "LIVE" -> "PEAK" [] m = "PEAK" -> "FROZEN" [] m = "FROZEN" -> "LIVE"]

\* handle_keys, but for MENU.  A larger step does not clamp the centre.
SpectrumKeys == {"none", "1", "4", "2", "5", "3", "0", "STAR", "HASH"}
handle_keys(s, k) ==
  CASE k = "1" /\ s.span > SpanMin ->
         clamp_center([s EXCEPT !.span = AtLeast(@ \div 2, SpanMin)])
    [] k = "4" /\ s.span < SpanMax ->
         clamp_center([s EXCEPT !.span = AtMost(@ * 2, SpanMax)])
    [] k = "2" /\ s.step > StepMin -> [s EXCEPT !.step = AtLeast(@ \div 2, StepMin)]
    [] k = "5" /\ s.step < StepMax -> [s EXCEPT !.step = AtMost(@ * 2, StepMax)]
    [] k = "3" -> [s EXCEPT !.mode = NextMode[@]]
    [] k = "0" -> [s EXCEPT !.peak = Blank0]
    [] k = "STAR" /\ s.marker_bin > 0 -> [s EXCEPT !.marker_bin = @ - 1]
    [] k = "HASH" /\ s.marker_bin < NumBins - 1 -> [s EXCEPT !.marker_bin = @ + 1]
    [] OTHER -> s

\* do_sweep: bk4829_set_frequency leaves the receiver of the chip enabled.
do_sweep(s, raw) ==
  [s EXCEPT !.rssi = raw,
            !.peak = IF s.mode = "PEAK"
                     THEN [b \in Bins |-> AtLeast(@[b], raw[b])] ELSE @]

SweptAt(s) ==
  [b \in Bins |-> s.center_freq - s.span \div 2 + b * StepPerBin(s)]

spectrum_enter ==
  /\ ~spec.active
  /\ \E c \in Chips2 :
       /\ spec' = Defaults(c, TRUE)
       /\ enabled' = enabled \ {1 - c}
  /\ heard' = [b \in Bins |-> -1]

\* spectrum_exit, by MENU in spectrum_poll or by its caller.
spectrum_exit ==
  /\ spec.active
  /\ spec' = [spec EXCEPT !.active = FALSE]
  /\ enabled' = {}
  /\ UNCHANGED heard

spectrum_poll ==
  /\ spec.active
  /\ \E k \in SpectrumKeys, dir \in {-1, 0, 1} :
       LET s == handle_encoder(handle_keys(spec, k), dir)
       IN IF s.mode = "FROZEN"
          THEN spec' = s /\ UNCHANGED <<enabled, heard>>
          ELSE /\ \E raw \in [Bins -> Readings] : spec' = do_sweep(s, raw)
               /\ enabled' = enabled \cup {s.chip}
               /\ heard' = SweptAt(s)

SpectrumNext == spectrum_enter \/ spectrum_exit \/ spectrum_poll

-----------------------------------------------------------------------------

(* The display tells what was heard: the sweep stays in the range of the   *)
(* chip (at its upper end only while the step does not stretch it beyond   *)
(* the span), each bar was read at the frequency the marker names there,   *)
(* unless the display is frozen, a peak is never below its bar, and the    *)
(* other chip stays silent.                                                *)
SpectrumShowsItsSweep == spec.active =>
  /\ bin_freq(spec, 0) >= RfMin
  /\ spec.step <= spec.span \div NumBins => bin_freq(spec, NumBins - 1) <= RfMax
  /\ spec.mode # "FROZEN" /\ heard[0] # -1 =>
       \A b \in Bins : heard[b] = bin_freq(spec, b)
  /\ spec.mode = "PEAK" => \A b \in Bins : spec.rssi[b] <= spec.peak[b]
  /\ 1 - spec.chip \notin enabled
=============================================================================
