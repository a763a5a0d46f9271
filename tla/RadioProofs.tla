---------------------------- MODULE RadioProofs ----------------------------
(***************************************************************************)
(* Proofs about app/radio.c, app/vfo.c and everybody who keys the          *)
(* transmitter, for every band plan, every calibration and every time-out. *)
(***************************************************************************)
EXTENDS Radio, WellFoundedInduction, TLAPS

(* The strengthening, of VFO settings w, chips c, active VFO a, history st, *)
(* and the flags transmitting, vox_tx_active and tone_active.  A chip off   *)
(* the frequency its VFO shows is on one that was checked, and is so while  *)
(* it transmits with an offset or because the offset was removed meanwhile: *)
(* radio_ptt_on without an offset does not retune it.                       *)
VfoType == [Vfos -> [freq : Freqs, dir : Dir]]
ChipType == [Vfos -> [freq : Nat, mode : Mode]]

ModesSound(c, a, tr, vx, tn) ==
  \A v \in Vfos :
    /\ c[v].mode = "TX" => tr /\ v = a /\ c[v].freq \in TxAllowed
    /\ c[v].mode = "VOX_TX" => v = "A" /\ vx
    /\ c[v].mode = "STANDBY" => tn

FreqsSound(w, c, a, st, tr) ==
  \A v \in Vfos : c[v].freq # w[v].freq =>
    /\ c[v].freq \in TxAllowed
    /\ v \in st \/ (tr /\ v = a /\ w[v].dir # 0)

ChipsSound(w, c, a, st, tr, vx, tn) ==
  /\ c \in ChipType
  /\ ModesSound(c, a, tr, vx, tn)
  /\ FreqsSound(w, c, a, st, tr)

Tuning == vfo \in VfoType /\ active_vfo \in Vfos /\ strayed \in SUBSET Vfos

Chips == ChipsSound(vfo, chip, active_vfo, strayed, transmitting, vox_tx_active, tone_active)

Flags ==
  /\ transmitting \in BOOLEAN /\ toned \in BOOLEAN
  /\ vox_tx_active \in BOOLEAN /\ relaying \in BOOLEAN
  /\ tone_active \in BOOLEAN /\ sending \in BOOLEAN /\ on \in BOOLEAN

Relays ==
  /\ tot_seconds \in 0 .. TotLimit - 1
  /\ low \in SUBSET (Antenna \cup Audio)
  /\ PaFollowsPtt

IInv == Tuning /\ Chips /\ Flags /\ Relays /\ focus \in Focus

-----------------------------------------------------------------------------

LEMMA NatMin ==
  ASSUME NEW T \in SUBSET Nat, T # {}
  PROVE  \E m \in T : \A n \in T : m <= n
<1> DEFINE R == OpToRel(<, Nat)
<1>1. IsWellFoundedOn(R, Nat)
  BY NatLessThanWellFounded
<1>2. \A x, y \in Nat : x < y => <<x, y>> \in R
  BY DEF OpToRel
<1> HIDE DEF R
<1>3. PICK m \in T : \A n \in T : ~(<<n, m>> \in R)
  BY <1>1, WFMin
<1>4. \A n \in T : m <= n
  <2> TAKE n \in T
  <2>1. n \in Nat /\ m \in Nat
    OBVIOUS
  <2>2. ~(n < m)
    BY <2>1, <1>2, <1>3, Zenon
  <2> QED
    BY <2>1, <2>2
<1> QED
  BY <1>4

LEMMA EdgesType ==
  /\ Edges # {}
  /\ Edges \subseteq Freqs
  /\ \A e \in Edges : freq_in_rx_band(e)
<1>1. \A b \in Bands : /\ b[1] \in Freqs /\ b[2] \in Freqs
                       /\ InBand(b[1], b) /\ InBand(b[2], b)
  BY FreqAssumption DEF InBand, Freqs
<1> QED
  BY <1>1, FreqAssumption DEF Edges, freq_in_rx_band

\* freq_clamp_to_band always finds an edge: some edge is nearest.
LEMMA NearestEdge ==
  ASSUME NEW f \in Freqs
  PROVE  \E e \in Edges : \A d \in Edges \ {e} :
           \/ Distance(f, e) < Distance(f, d)
           \/ Distance(f, e) = Distance(f, d) /\ e < d
<1>1. Edges \subseteq Nat /\ f \in Nat
  BY EdgesType, FreqAssumption DEF Freqs
<1>2. \A e \in Edges : Distance(f, e) \in Nat
  BY <1>1 DEF Distance
<1> DEFINE Dist == {Distance(f, e) : e \in Edges}
<1>3. Dist \in SUBSET Nat /\ Dist # {}
  BY <1>2, EdgesType
<1>4. PICK m \in Dist : \A n \in Dist : m <= n
  <2> HIDE DEF Dist
  <2> QED
    BY <1>3, NatMin
<1> DEFINE Nearest == {e \in Edges : Distance(f, e) = m}
<1>5. Nearest \in SUBSET Nat /\ Nearest # {}
  BY <1>1
<1>6. PICK e \in Nearest : \A d \in Nearest : e <= d
  <2> HIDE DEF Nearest
  <2> QED
    BY <1>5, NatMin
<1>7. e \in Edges /\ Distance(f, e) = m
  OBVIOUS
<1>8. ASSUME NEW d \in Edges \ {e}
      PROVE  \/ Distance(f, e) < Distance(f, d)
             \/ Distance(f, e) = Distance(f, d) /\ e < d
  <2>1. Distance(f, d) \in Nat /\ m \in Nat /\ m <= Distance(f, d) /\ d \in Nat /\ e \in Nat
    BY <1>1, <1>2, <1>3, <1>4, <1>7
  <2>2. CASE Distance(f, d) = m
    <3>1. e <= d /\ e # d
      BY <1>6, <2>2
    <3> QED
      BY <3>1, <2>1, <2>2, <1>7
  <2>3. CASE Distance(f, d) # m
    <3>1. m < Distance(f, d)
      BY <2>1, <2>3
    <3> QED
      BY <3>1, <1>7
  <2> QED
    BY <2>2, <2>3
<1> QED
  BY <1>7, <1>8

(* What vfo_set_frequency stores is in a receive band, whatever frequency  *)
(* the entry, a channel or the scanner hands it.                           *)
THEOREM ClampedIntoBand ==
  ASSUME NEW f \in Freqs
  PROVE  freq_clamp_to_band(f) \in Freqs /\ freq_in_rx_band(freq_clamp_to_band(f))
<1>1. CASE freq_in_rx_band(f)
  BY <1>1 DEF freq_clamp_to_band
<1>2. CASE ~freq_in_rx_band(f)
  <2>1. freq_clamp_to_band(f) \in Edges
    BY <1>2, NearestEdge, Zenon DEF freq_clamp_to_band
  <2> QED
    BY <2>1, EdgesType
<1> QED
  BY <1>1, <1>2

LEMMA TxFreqType ==
  ASSUME vfo \in VfoType, NEW v \in Vfos
  PROVE  TxFreq(vfo[v]) \in Nat /\ (vfo[v].dir = 0 <=> TxFreq(vfo[v]) = vfo[v].freq)
<1>1. vfo[v].freq \in Nat /\ vfo[v].freq >= MinFreq /\ vfo[v].dir \in {0, 1, 2}
  BY FreqAssumption DEF VfoType, Freqs, Dir
<1>2. Offset \in Nat /\ Offset > 0 /\ MinFreq \in Nat /\ MinFreq > Offset
  BY FreqAssumption
<1>3. CASE vfo[v].dir = 0
  BY <1>1, <1>3 DEF TxFreq
<1>4. CASE vfo[v].dir = 1
  BY <1>1, <1>2, <1>4 DEF TxFreq
<1>5. CASE vfo[v].dir = 2
  BY <1>1, <1>2, <1>5 DEF TxFreq
<1> QED
  BY <1>1, <1>3, <1>4, <1>5

LEMMA RelayPins ==
  ASSUME NEW sub
  PROVE  /\ RelayTx(sub) \in SUBSET (Antenna \cup Audio) /\ "PA_GATE" \in RelayTx(sub)
         /\ RelayRx(sub) \in SUBSET (Antenna \cup Audio) /\ "PA_GATE" \notin RelayRx(sub)
BY DEF RelayTx, RelayRx, Antenna, Audio

-----------------------------------------------------------------------------
(***************************************************************************)
(* What each way to write the chips keeps.                                 *)
(***************************************************************************)

LEMMA ReceivingType ==
  ASSUME NEW f \in Nat
  PROVE  /\ Receiving(f) \in [freq : Nat, mode : Mode]
         /\ Receiving(f).freq = f /\ Receiving(f).mode = "RX"
BY DEF Receiving, Mode

LEMMA TunedSound ==
  ASSUME NEW w \in VfoType, NEW c, NEW a, NEW st, NEW tr, NEW vx, NEW tn,
         ChipsSound(w, c, a, st, tr, vx, tn),
         NEW v \in Vfos, NEW s \in [freq : Freqs, dir : Dir]
  PROVE  ChipsSound([w EXCEPT ![v] = s], [c EXCEPT ![v] = Receiving(s.freq)],
                    a, st \ {v}, tr, vx, tn)
<1> DEFINE w2 == [w EXCEPT ![v] = s]
           c2 == [c EXCEPT ![v] = Receiving(s.freq)]
<1>1. s.freq \in Nat
  BY FreqAssumption DEF Freqs
<1>2. Receiving(s.freq) \in [freq : Nat, mode : Mode] /\ Receiving(s.freq).freq = s.freq
      /\ Receiving(s.freq).mode = "RX"
  BY <1>1, ReceivingType
<1>3. c2 \in ChipType
  BY <1>2 DEF ChipsSound, ChipType
<1>4. \A u \in Vfos : /\ u = v => c2[u] = Receiving(s.freq) /\ w2[u] = s
                      /\ u # v => c2[u] = c[u] /\ w2[u] = w[u]
  BY DEF ChipsSound, ChipType, VfoType
<1> HIDE DEF w2, c2
<1>5. ModesSound(c2, a, tr, vx, tn)
  BY <1>2, <1>4 DEF ChipsSound, ModesSound
<1>6. FreqsSound(w2, c2, a, st \ {v}, tr)
  BY <1>2, <1>4 DEF ChipsSound, FreqsSound
<1> QED
  BY <1>3, <1>5, <1>6 DEF ChipsSound, w2, c2

LEMMA AppliedSound ==
  ASSUME NEW w \in VfoType, NEW c, NEW a, NEW st, NEW vx, NEW tn,
         ChipsSound(w, c, a, st, FALSE, vx, tn), NEW v \in Vfos
  PROVE  ChipsSound(w, [c EXCEPT ![v] = Receiving(w[v].freq)], v, st \ {v}, FALSE, vx, tn)
<1>1. w[v] \in [freq : Freqs, dir : Dir] /\ [w EXCEPT ![v] = w[v]] = w
  BY DEF VfoType
<1>2. ChipsSound([w EXCEPT ![v] = w[v]], [c EXCEPT ![v] = Receiving(w[v].freq)],
                 a, st \ {v}, FALSE, vx, tn)
  <2> DEFINE s == w[v]
  <2>1. s \in [freq : Freqs, dir : Dir]
    BY <1>1
  <2> HIDE DEF s
  <2>2. ChipsSound([w EXCEPT ![v] = s], [c EXCEPT ![v] = Receiving(s.freq)],
                   a, st \ {v}, FALSE, vx, tn)
    BY <2>1, TunedSound, Zenon
  <2> QED
    BY <2>2 DEF s
<1>3. ChipsSound(w, [c EXCEPT ![v] = Receiving(w[v].freq)], a, st \ {v}, FALSE, vx, tn)
  BY <1>1, <1>2, Zenon
<1> QED
  BY <1>3 DEF ChipsSound, ModesSound, FreqsSound

LEMMA KeyedUpSound ==
  ASSUME vfo \in VfoType, NEW c, NEW v \in Vfos, NEW st, NEW vx, NEW tn,
         ChipsSound(vfo, c, v, st, FALSE, vx, tn), TxFreq(vfo[v]) \in TxAllowed
  PROVE  ChipsSound(vfo, KeyedUp(v, c), v, st, TRUE, vx, tn)
<1> DEFINE f == IF TxFreq(vfo[v]) # vfo[v].freq THEN TxFreq(vfo[v]) ELSE c[v].freq
           air == [freq |-> f, mode |-> "TX"]
           c2 == [c EXCEPT ![v] = air]
<1>1. TxFreq(vfo[v]) \in Nat /\ (vfo[v].dir = 0 <=> TxFreq(vfo[v]) = vfo[v].freq)
  BY TxFreqType
<1>2. f \in TxAllowed /\ f \in Nat
  BY <1>1 DEF ChipsSound, ChipType, FreqsSound
<1>3. f # vfo[v].freq => v \in st \/ vfo[v].dir # 0
  BY <1>1 DEF ChipsSound, FreqsSound
<1>4. KeyedUp(v, c) = c2
  BY DEF KeyedUp
<1> HIDE DEF f
<1>5. air \in [freq : Nat, mode : Mode] /\ air.freq = f /\ air.mode = "TX"
  BY <1>2 DEF Mode
<1> HIDE DEF air
<1>6. c2 \in ChipType
  BY <1>5 DEF ChipsSound, ChipType
<1>7. c2[v] = air /\ \A u \in Vfos \ {v} : c2[u] = c[u]
  BY DEF ChipsSound, ChipType
<1> HIDE DEF c2
<1>8. ModesSound(c2, v, TRUE, vx, tn)
  BY <1>2, <1>5, <1>7 DEF ChipsSound, ModesSound
<1>9. FreqsSound(vfo, c2, v, st, TRUE)
  BY <1>2, <1>3, <1>5, <1>7 DEF ChipsSound, FreqsSound
<1> QED
  BY <1>4, <1>6, <1>8, <1>9 DEF ChipsSound

LEMMA KeyedDownSound ==
  ASSUME vfo \in VfoType, active_vfo \in Vfos, NEW c, NEW st, NEW tr, NEW vx, NEW tn,
         ChipsSound(vfo, c, active_vfo, st, tr, vx, tn)
  PROVE  ChipsSound(vfo, KeyedDown(c), active_vfo,
                    IF vfo[active_vfo].dir # 0 THEN st \ {active_vfo} ELSE st, FALSE, vx, tn)
<1> DEFINE v == active_vfo
           f == IF vfo[v].dir # 0 THEN vfo[v].freq ELSE c[v].freq
           c2 == [c EXCEPT ![v] = Receiving(f)]
           st2 == IF vfo[v].dir # 0 THEN st \ {v} ELSE st
<1>1. f \in Nat
  BY FreqAssumption DEF VfoType, Freqs, ChipsSound, ChipType
<1>2. KeyedDown(c) = c2
  BY DEF KeyedDown
<1>3. f # vfo[v].freq => f = c[v].freq /\ vfo[v].dir = 0
  OBVIOUS
<1>4. \A u \in Vfos \ {v} : u \in st => u \in st2
  OBVIOUS
<1>5. vfo[v].dir = 0 => st2 = st
  OBVIOUS
<1> HIDE DEF f, st2
<1>6. /\ Receiving(f) \in [freq : Nat, mode : Mode]
      /\ Receiving(f).freq = f /\ Receiving(f).mode = "RX"
  BY <1>1, ReceivingType
<1>7. c2 \in ChipType
  BY <1>6 DEF ChipsSound, ChipType
<1>8. c2[v] = Receiving(f) /\ \A u \in Vfos \ {v} : c2[u] = c[u]
  BY DEF ChipsSound, ChipType
<1> HIDE DEF c2
<1>9. ModesSound(c2, v, FALSE, vx, tn)
  BY <1>6, <1>8 DEF ChipsSound, ModesSound
<1>10. FreqsSound(vfo, c2, v, st2, FALSE)
  BY <1>3, <1>4, <1>5, <1>6, <1>8 DEF ChipsSound, FreqsSound
<1> QED
  BY <1>2, <1>7, <1>9, <1>10 DEF ChipsSound, st2

\* Writes of REG_30 alone leave every chip on its frequency.
LEMMA VoxKeysSound ==
  ASSUME NEW w, NEW c, NEW a, NEW st, NEW tr, NEW vx, NEW tn,
         ChipsSound(w, c, a, st, tr, vx, tn)
  PROVE  ChipsSound(w, VoxWrites(c, "VOX_TX"), a, st, tr, TRUE, tn)
<1> DEFINE c2 == VoxWrites(c, "VOX_TX")
<1>1. c2 \in ChipType
  BY DEF ChipsSound, ChipType, VoxWrites, Vfos, Mode
<1>2. \A u \in Vfos : /\ c2[u].freq = c[u].freq
                      /\ u = "A" => c2[u].mode = "VOX_TX"
                      /\ u # "A" => c2[u] = c[u]
  BY DEF ChipsSound, ChipType, VoxWrites
<1> HIDE DEF c2
<1>3. ModesSound(c2, a, tr, TRUE, tn)
  BY <1>2 DEF ChipsSound, ModesSound
<1>4. FreqsSound(w, c2, a, st, tr)
  BY <1>2 DEF ChipsSound, FreqsSound
<1> QED
  BY <1>1, <1>3, <1>4 DEF ChipsSound, c2

LEMMA VoxLetsGoSound ==
  ASSUME NEW w, NEW c, NEW a, NEW st, NEW tr, NEW vx, NEW tn,
         ChipsSound(w, c, a, st, tr, vx, tn)
  PROVE  ChipsSound(w, VoxWrites(c, "RX"), a, st, tr, FALSE, tn)
<1> DEFINE c2 == VoxWrites(c, "RX")
<1>1. c2 \in ChipType
  BY DEF ChipsSound, ChipType, VoxWrites, Vfos, Mode
<1>2. \A u \in Vfos : /\ c2[u].freq = c[u].freq
                      /\ u = "A" => c2[u].mode = "RX"
                      /\ u # "A" => c2[u] = c[u]
  BY DEF ChipsSound, ChipType, VoxWrites
<1> HIDE DEF c2
<1>3. ModesSound(c2, a, tr, FALSE, tn)
  BY <1>2 DEF ChipsSound, ModesSound
<1>4. FreqsSound(w, c2, a, st, tr)
  BY <1>2 DEF ChipsSound, FreqsSound
<1> QED
  BY <1>1, <1>3, <1>4 DEF ChipsSound, c2

LEMMA AllWrittenSound ==
  ASSUME NEW w, NEW c, NEW a, NEW st, NEW tr, NEW vx, NEW tn, NEW tn2,
         ChipsSound(w, c, a, st, tr, vx, tn),
         NEW m \in {"STANDBY", "RX"}, m = "STANDBY" => tn2
  PROVE  ChipsSound(w, [v \in Vfos |-> [c[v] EXCEPT !.mode = m]], a, st, tr, vx, tn2)
<1> DEFINE c2 == [v \in Vfos |-> [c[v] EXCEPT !.mode = m]]
<1>1. c2 \in ChipType
  BY DEF ChipsSound, ChipType, Mode
<1>2. \A u \in Vfos : c2[u].freq = c[u].freq /\ c2[u].mode = m
  BY DEF ChipsSound, ChipType
<1> HIDE DEF c2
<1>3. ModesSound(c2, a, tr, vx, tn2)
  BY <1>2 DEF ModesSound
<1>4. FreqsSound(w, c2, a, st, tr)
  BY <1>2 DEF ChipsSound, FreqsSound
<1> QED
  BY <1>1, <1>3, <1>4 DEF ChipsSound, c2

-----------------------------------------------------------------------------
(***************************************************************************)
(* What the handlers keep.                                                 *)
(***************************************************************************)

LEMMA RestKeeps ==
  ASSUME Flags, Relays, UNCHANGED <<txVars, clientVars>>
  PROVE  Flags' /\ Relays'
<1>1. /\ transmitting' = transmitting /\ tot_seconds' = tot_seconds
      /\ low' = low /\ toned' = toned
  BY DEF txVars
<1>2. /\ vox_tx_active' = vox_tx_active /\ relaying' = relaying
      /\ tone_active' = tone_active /\ sending' = sending /\ on' = on
  BY DEF clientVars
<1>3. Flags'
  BY <1>1, <1>2 DEF Flags
<1>4. Relays'
  BY <1>1, <1>2 DEF Relays, PaFollowsPtt
<1> QED
  BY <1>3, <1>4

LEMMA NothingKeeps ==
  ASSUME IInv, UNCHANGED <<vfoVars, txVars, clientVars>>, focus' \in Focus
  PROVE  IInv'
<1>1. Flags' /\ Relays'
  BY RestKeeps DEF IInv
<1>2. /\ vfo' = vfo /\ active_vfo' = active_vfo /\ chip' = chip /\ strayed' = strayed
      /\ transmitting' = transmitting /\ vox_tx_active' = vox_tx_active
      /\ tone_active' = tone_active
  BY DEF vfoVars, txVars, clientVars
<1>3. Tuning'
  BY <1>2 DEF IInv, Tuning
<1>4. Chips'
  BY <1>2, Zenon DEF IInv, Chips
<1> QED
  BY <1>1, <1>3, <1>4 DEF IInv

LEMMA TuneToKeeps ==
  ASSUME IInv, NEW v \in Vfos, NEW s \in [freq : Freqs, dir : Dir], TuneTo(v, s),
         UNCHANGED <<txVars, clientVars>>, focus' \in Focus
  PROVE  IInv'
<1>1. Flags' /\ Relays'
  BY RestKeeps DEF IInv
<1>2. /\ vfo' = [vfo EXCEPT ![v] = s]
      /\ chip' = [chip EXCEPT ![v] = Receiving(s.freq)]
      /\ strayed' = strayed \ {v} /\ active_vfo' = active_vfo
      /\ transmitting' = transmitting /\ vox_tx_active' = vox_tx_active
      /\ tone_active' = tone_active
  BY DEF TuneTo, txVars, clientVars
<1>3. Tuning'
  BY <1>2 DEF IInv, Tuning, VfoType
<1>4. ChipsSound([vfo EXCEPT ![v] = s], [chip EXCEPT ![v] = Receiving(s.freq)],
                 active_vfo, strayed \ {v}, transmitting, vox_tx_active, tone_active)
  BY TunedSound, Zenon DEF IInv, Tuning, Chips
<1>5. Chips'
  BY <1>2, <1>4, Zenon DEF Chips
<1> QED
  BY <1>1, <1>3, <1>5 DEF IInv

\* The ways a VFO is tuned: each is a TuneTo with a state of the right type.
LEMMA StepKeeps ==
  ASSUME IInv, NEW dir \in {-1, 1}, vfo_step(dir),
         UNCHANGED <<txVars, clientVars>>, focus' \in Focus
  PROVE  IInv'
<1> DEFINE s == [vfo[active_vfo] EXCEPT !.freq = Stepped(vfo[active_vfo].freq, dir)]
<1>1. active_vfo \in Vfos /\ vfo[active_vfo] \in [freq : Freqs, dir : Dir]
  BY DEF IInv, Tuning, VfoType
<1>2. s \in [freq : Freqs, dir : Dir] /\ TuneTo(active_vfo, s)
  BY <1>1 DEF vfo_step
<1> QED
  BY <1>1, <1>2, TuneToKeeps

LEMMA SetFrequencyKeeps ==
  ASSUME IInv, NEW v \in Vfos, NEW f \in Freqs, vfo_set_frequency(v, f),
         UNCHANGED <<txVars, clientVars>>, focus' \in Focus
  PROVE  IInv'
<1> DEFINE s == [vfo[v] EXCEPT !.freq = freq_clamp_to_band(f)]
<1>1. vfo[v] \in [freq : Freqs, dir : Dir]
  BY DEF IInv, Tuning, VfoType
<1>2. s \in [freq : Freqs, dir : Dir] /\ TuneTo(v, s)
  BY <1>1, ClampedIntoBand DEF vfo_set_frequency
<1> QED
  BY <1>2, TuneToKeeps

LEMMA ApplyKeeps ==
  ASSUME IInv, vfo_apply(active_vfo), UNCHANGED <<txVars, clientVars>>, focus' \in Focus
  PROVE  IInv'
<1>1. active_vfo \in Vfos /\ vfo[active_vfo] \in [freq : Freqs, dir : Dir]
  BY DEF IInv, Tuning, VfoType
<1> QED
  BY <1>1, TuneToKeeps DEF vfo_apply

LEMMA ReverseKeeps ==
  ASSUME IInv, vfo_reverse_toggle, UNCHANGED <<txVars, clientVars>>, focus' \in Focus
  PROVE  IInv'
<1> DEFINE s == vfo[active_vfo]
           r == [freq |-> TxFreq(s), dir |-> 3 - s.dir]
<1>1. active_vfo \in Vfos /\ s \in [freq : Freqs, dir : Dir]
  BY DEF IInv, Tuning, VfoType
<1>2. CASE s.dir = 0
  BY <1>2, ApplyKeeps DEF vfo_reverse_toggle
<1>3. CASE s.dir # 0
  <2>1. s.dir \in {1, 2}
    BY <1>1, <1>3 DEF Dir
  <2>2. r \in [freq : Freqs, dir : Dir] /\ TuneTo(active_vfo, r)
    BY <1>3, <2>1 DEF vfo_reverse_toggle, Dir
  <2> QED
    BY <1>1, <2>2, TuneToKeeps
<1> QED
  BY <1>2, <1>3

LEMMA ToggleKeeps ==
  ASSUME IInv, ~transmitting, vfo_toggle, UNCHANGED <<txVars, clientVars>>, focus' \in Focus
  PROVE  IInv'
<1> DEFINE v == active_vfo'
<1>1. Flags' /\ Relays'
  BY RestKeeps DEF IInv
<1>2. /\ v \in Vfos /\ vfo' = vfo /\ strayed' = strayed \ {v}
      /\ chip' = [chip EXCEPT ![v] = Receiving(vfo[v].freq)]
  BY DEF vfo_toggle, Vfos
<1>3. transmitting = FALSE /\ transmitting' = FALSE /\ vox_tx_active' = vox_tx_active
      /\ tone_active' = tone_active
  BY DEF IInv, Flags, txVars, clientVars
<1>4. Tuning'
  BY <1>2 DEF IInv, Tuning
<1> HIDE DEF v
<1>5. ChipsSound(vfo, [chip EXCEPT ![v] = Receiving(vfo[v].freq)], v, strayed \ {v}, FALSE,
                 vox_tx_active, tone_active)
  <2>1. ChipsSound(vfo, chip, active_vfo, strayed, FALSE, vox_tx_active, tone_active)
    BY <1>3, Zenon DEF IInv, Chips
  <2> QED
    BY <1>2, <2>1, AppliedSound, Zenon DEF IInv, Tuning
<1>6. Chips'
  BY <1>2, <1>3, <1>5, Zenon DEF Chips, v
<1> QED
  BY <1>1, <1>4, <1>6 DEF IInv

LEMMA OffsetDirKeeps ==
  ASSUME IInv, NEW d \in Dir, vfo_set_offset_dir(d),
         strayed' = IF transmitting /\ vfo[active_vfo].dir # 0 /\ d = 0
                    THEN strayed \cup {active_vfo} ELSE strayed,
         UNCHANGED <<txVars, clientVars>>, focus' \in Focus
  PROVE  IInv'
<1>1. Flags' /\ Relays'
  BY RestKeeps DEF IInv
<1>2. /\ vfo' = [vfo EXCEPT ![active_vfo].dir = d]
      /\ chip' = chip /\ active_vfo' = active_vfo
      /\ transmitting' = transmitting /\ vox_tx_active' = vox_tx_active
      /\ tone_active' = tone_active
  BY DEF vfo_set_offset_dir, txVars, clientVars
<1>3. Tuning'
  BY <1>2 DEF IInv, Tuning, VfoType
<1>4. \A v \in Vfos : /\ vfo'[v].freq = vfo[v].freq
                      /\ v # active_vfo => vfo'[v].dir = vfo[v].dir
                      /\ v = active_vfo => vfo'[v].dir = d
  BY <1>2 DEF IInv, Tuning, VfoType
<1>5. ModesSound(chip', active_vfo', transmitting', vox_tx_active', tone_active')
  BY <1>2, Zenon DEF IInv, Chips, ChipsSound
<1>6. FreqsSound(vfo', chip', active_vfo', strayed', transmitting')
  <2> SUFFICES ASSUME NEW v \in Vfos, chip[v].freq # vfo[v].freq
               PROVE  /\ chip[v].freq \in TxAllowed
                      /\ v \in strayed' \/ (transmitting /\ v = active_vfo /\ vfo'[v].dir # 0)
    BY <1>2, <1>4 DEF FreqsSound
  <2>1. /\ chip[v].freq \in TxAllowed
        /\ v \in strayed \/ (transmitting /\ v = active_vfo /\ vfo[v].dir # 0)
    BY DEF IInv, Chips, ChipsSound, FreqsSound
  <2> QED
    BY <1>4, <2>1
<1>7. chip' \in ChipType
  BY <1>2 DEF IInv, Chips, ChipsSound
<1> QED
  BY <1>1, <1>3, <1>5, <1>6, <1>7 DEF IInv, Chips, ChipsSound

LEMMA DispatchKeeps ==
  ASSUME IInv, action_dispatch, focus \in Focus, UNCHANGED <<txVars, clientVars>>
  PROVE  IInv'
<1>1. CASE focus' \in {"scan", "fm"} /\ UNCHANGED vfoVars
  BY <1>1, NothingKeeps DEF Focus
<1>2. CASE vfo_reverse_toggle /\ UNCHANGED focus
  BY <1>2, ReverseKeeps
<1> QED
  BY <1>1, <1>2 DEF action_dispatch

-----------------------------------------------------------------------------

LEMMA PttOnKeeps ==
  ASSUME Tuning, Flags, Relays, on, on' = on,
         NEW v \in Vfos, NEW refused, NEW keyed, radio_ptt_on(v, refused, keyed),
         vfo' = vfo, active_vfo' = v, strayed' \in SUBSET Vfos,
         ChipsSound(vfo, refused, v, strayed', transmitting, vox_tx_active', tone_active'),
         ~transmitting /\ TxFreq(vfo[v]) \in TxAllowed =>
           ChipsSound(vfo, keyed, v, strayed', TRUE, vox_tx_active', tone_active')
  PROVE  /\ Tuning' /\ Chips' /\ Relays'
         /\ transmitting' \in BOOLEAN /\ toned' \in BOOLEAN
<1>1. Tuning'
  BY DEF Tuning
<1>2. CASE chip' = refused /\ UNCHANGED txVars
  <2>1. /\ transmitting' = transmitting /\ tot_seconds' = tot_seconds
        /\ low' = low /\ toned' = toned
    BY <1>2 DEF txVars
  <2>2. Relays'
    BY <2>1 DEF Relays, PaFollowsPtt
  <2>3. Chips'
    BY <1>2, <2>1, Zenon DEF Chips
  <2> QED
    BY <1>1, <2>1, <2>2, <2>3 DEF Flags
<1>3. CASE ~(chip' = refused /\ UNCHANGED txVars)
  <2>1. /\ ~transmitting /\ TxFreq(vfo[v]) \in TxAllowed
        /\ transmitting' = TRUE /\ tot_seconds' = 0 /\ chip' = keyed /\ toned' = FALSE
        /\ low' = RelayTx(Submode[TxFreq(vfo[v])])
    BY <1>3 DEF radio_ptt_on
  <2>2. Relays'
    <3>1. tot_seconds' \in 0 .. TotLimit - 1
      BY <2>1, RadioAssumption
    <3>2. low' \in SUBSET (Antenna \cup Audio) /\ "PA_GATE" \in low'
      BY <2>1, RelayPins
    <3> QED
      BY <2>1, <3>1, <3>2 DEF Relays, PaFollowsPtt
  <2>3. Chips'
    BY <2>1, Zenon DEF Chips
  <2> QED
    BY <1>1, <2>1, <2>2, <2>3
<1> QED
  BY <1>2, <1>3

LEMMA PttOffKeeps ==
  ASSUME Tuning, Flags, Relays, on, on' = on, NEW c, radio_ptt_off(c),
         ChipsSound(vfo, c, active_vfo, strayed, transmitting, vox_tx_active', tone_active')
  PROVE  /\ Tuning' /\ Chips' /\ Relays'
         /\ transmitting' \in BOOLEAN /\ toned' \in BOOLEAN
<1> DEFINE st2 == IF vfo[active_vfo].dir # 0 THEN strayed \ {active_vfo} ELSE strayed
<1>1. vfo' = vfo /\ active_vfo' = active_vfo
  BY DEF radio_ptt_off
<1>2. CASE transmitting
  <2>1. /\ transmitting' = FALSE /\ tot_seconds' = 0 /\ toned' = FALSE
        /\ chip' = KeyedDown(c) /\ strayed' = st2
        /\ low' = RelayRx(Submode[vfo[active_vfo].freq])
    BY <1>2 DEF radio_ptt_off
  <2>2. Tuning'
    BY <1>1, <2>1 DEF Tuning
  <2>3. ChipsSound(vfo, KeyedDown(c), active_vfo, st2, FALSE, vox_tx_active', tone_active')
    BY KeyedDownSound, Zenon DEF Tuning
  <2> HIDE DEF st2
  <2>4. Chips'
    BY <1>1, <2>1, <2>3, Zenon DEF Chips
  <2>5. Relays'
    <3>1. tot_seconds' \in 0 .. TotLimit - 1
      BY <2>1, RadioAssumption
    <3>2. low' \in SUBSET (Antenna \cup Audio) /\ "PA_GATE" \notin low'
      BY <2>1, RelayPins
    <3> QED
      BY <2>1, <3>1, <3>2 DEF Relays, PaFollowsPtt
  <2> QED
    BY <2>1, <2>2, <2>4, <2>5
<1>3. CASE ~transmitting
  <2>1. chip' = c /\ strayed' = strayed /\ UNCHANGED txVars
    BY <1>3 DEF radio_ptt_off
  <2>2. /\ transmitting' = transmitting /\ tot_seconds' = tot_seconds
        /\ low' = low /\ toned' = toned
    BY <2>1 DEF txVars
  <2>3. Relays'
    BY <2>2 DEF Relays, PaFollowsPtt
  <2>4. Chips'
    BY <1>1, <2>1, <2>2, Zenon DEF Chips
  <2>5. Tuning'
    BY <1>1, <2>1 DEF Tuning
  <2> QED
    BY <2>2, <2>3, <2>4, <2>5 DEF Flags
<1> QED
  BY <1>2, <1>3

LEMMA VoxPollKeeps ==
  ASSUME IInv, on, VoxPoll
  PROVE  IInv'
<1>1. /\ relaying' = relaying /\ tone_active' = tone_active /\ sending' = sending
      /\ on' = on /\ focus' = focus
  BY DEF VoxPoll
<1>2. ChipsSound(vfo, chip, active_vfo, strayed, transmitting, vox_tx_active, tone_active)
  BY DEF IInv, Chips
<1>3. CASE vox_tx_active
  <2>1. radio_ptt_off(VoxWrites(chip, "RX")) /\ vox_tx_active' = FALSE
    BY <1>3 DEF VoxPoll
  <2>2. ChipsSound(vfo, VoxWrites(chip, "RX"), active_vfo, strayed, transmitting,
                   vox_tx_active', tone_active')
    <3>1. ChipsSound(vfo, VoxWrites(chip, "RX"), active_vfo, strayed, transmitting,
                     FALSE, tone_active)
      BY <1>2, VoxLetsGoSound, Zenon
    <3> QED
      BY <1>1, <2>1, <3>1, Zenon
  <2>3. /\ Tuning' /\ Chips' /\ Relays' /\ transmitting' \in BOOLEAN /\ toned' \in BOOLEAN
    <3> DEFINE c == VoxWrites(chip, "RX")
    <3>1. /\ radio_ptt_off(c)
          /\ ChipsSound(vfo, c, active_vfo, strayed, transmitting, vox_tx_active', tone_active')
      BY <2>1, <2>2
    <3> HIDE DEF c
    <3> QED
      BY <1>1, <3>1, PttOffKeeps DEF IInv
  <2> QED
    BY <1>1, <2>1, <2>3 DEF IInv, Flags
<1>4. CASE ~vox_tx_active
  <2> DEFINE c == VoxWrites(chip, "VOX_TX")
             k == VoxWrites(KeyedUp(active_vfo, chip), "VOX_TX")
  <2>1. /\ ~transmitting /\ radio_ptt_on(active_vfo, c, k) /\ vox_tx_active' = TRUE
        /\ vfo' = vfo /\ active_vfo' = active_vfo /\ strayed' = strayed
    BY <1>4 DEF VoxPoll
  <2>2. transmitting = FALSE
    BY <2>1 DEF IInv, Flags
  <2>3. ChipsSound(vfo, c, active_vfo, strayed', transmitting, vox_tx_active', tone_active')
    <3>1. ChipsSound(vfo, c, active_vfo, strayed, transmitting, TRUE, tone_active)
      BY <1>2, VoxKeysSound, Zenon
    <3> QED
      BY <1>1, <2>1, <3>1, Zenon
  <2>4. ASSUME TxFreq(vfo[active_vfo]) \in TxAllowed
        PROVE  ChipsSound(vfo, k, active_vfo, strayed', TRUE, vox_tx_active', tone_active')
    <3>1. ChipsSound(vfo, chip, active_vfo, strayed, FALSE, vox_tx_active, tone_active)
      BY <1>2, <2>2, Zenon
    <3>2. vfo \in VfoType /\ active_vfo \in Vfos
      BY DEF IInv, Tuning
    <3>3. ChipsSound(vfo, KeyedUp(active_vfo, chip), active_vfo, strayed, TRUE,
                     vox_tx_active, tone_active)
      BY <2>4, <3>1, <3>2, KeyedUpSound, Zenon
    <3>4. ChipsSound(vfo, k, active_vfo, strayed, TRUE, TRUE, tone_active)
      BY <3>3, VoxKeysSound, Zenon
    <3> QED
      BY <1>1, <2>1, <3>4, Zenon
  <2> HIDE DEF c, k
  <2>5. active_vfo \in Vfos /\ strayed' \in SUBSET Vfos
    BY <2>1 DEF IInv, Tuning
  <2>6. /\ Tuning' /\ Chips' /\ Relays' /\ transmitting' \in BOOLEAN /\ toned' \in BOOLEAN
    BY <1>1, <2>1, <2>3, <2>4, <2>5, PttOnKeeps DEF IInv
  <2> QED
    BY <1>1, <2>1, <2>6 DEF IInv, Flags
<1> QED
  BY <1>3, <1>4

LEMMA RelayStartsKeeps ==
  ASSUME IInv, on, RelayStarts
  PROVE  IInv'
<1>1. /\ vfo' = vfo /\ vox_tx_active' = vox_tx_active /\ tone_active' = tone_active
      /\ sending' = sending /\ on' = on /\ focus' = focus /\ relaying' = TRUE
      /\ ~transmitting
  BY DEF RelayStarts
<1>2. PICK v \in Vfos :
        /\ TxFreq(vfo[v]) \in TxAllowed
        /\ active_vfo' = v
        /\ strayed' = strayed \ {v}
        /\ radio_ptt_on(v, [chip EXCEPT ![v] = Receiving(vfo[v].freq)],
                        KeyedUp(v, [chip EXCEPT ![v] = Receiving(vfo[v].freq)]))
  BY DEF RelayStarts
<1> DEFINE applied == [chip EXCEPT ![v] = Receiving(vfo[v].freq)]
           k == KeyedUp(v, applied)
<1>3. transmitting = FALSE /\ vfo \in VfoType
  BY <1>1 DEF IInv, Flags, Tuning
<1>4. ChipsSound(vfo, applied, v, strayed \ {v}, FALSE, vox_tx_active, tone_active)
  <2>1. ChipsSound(vfo, chip, active_vfo, strayed, FALSE, vox_tx_active, tone_active)
    BY <1>3, Zenon DEF IInv, Chips
  <2> QED
    BY <1>3, <2>1, AppliedSound, Zenon
<1> HIDE DEF applied
<1>5. ChipsSound(vfo, k, v, strayed \ {v}, TRUE, vox_tx_active, tone_active)
  BY <1>2, <1>3, <1>4, KeyedUpSound, Zenon
<1>6. radio_ptt_on(v, applied, k)
  BY <1>2, Zenon DEF applied
<1> HIDE DEF k
<1>7. /\ ChipsSound(vfo, applied, v, strayed', transmitting, vox_tx_active', tone_active')
      /\ ChipsSound(vfo, k, v, strayed', TRUE, vox_tx_active', tone_active')
  BY <1>1, <1>2, <1>3, <1>4, <1>5, Zenon
<1>8. strayed' \in SUBSET Vfos
  BY <1>2 DEF IInv, Tuning
<1>9. /\ Tuning' /\ Chips' /\ Relays' /\ transmitting' \in BOOLEAN /\ toned' \in BOOLEAN
  BY <1>1, <1>2, <1>6, <1>7, <1>8, PttOnKeeps DEF IInv
<1> QED
  BY <1>1, <1>9 DEF IInv, Flags

\* A tone, on its own or at the time limit of the relay.
LEMMA PathEnabled ==
  ASSUME Tuning, Flags, Relays, on' = on, NEW c, audio_path_enable(c),
         ChipsSound(vfo, c, active_vfo, strayed', transmitting', vox_tx_active', tone_active),
         vfo' = vfo, active_vfo' = active_vfo, strayed' \in SUBSET Vfos,
         tot_seconds' \in 0 .. TotLimit - 1
  PROVE  Tuning' /\ Chips' /\ Relays' /\ tone_active' = TRUE /\ toned' = TRUE
<1>1. /\ low' = Antenna \cup Audio /\ toned' = TRUE /\ chip' = Idle(c) /\ tone_active' = TRUE
  BY DEF audio_path_enable
<1>2. Tuning'
  BY DEF Tuning
<1>3. ChipsSound(vfo, Idle(c), active_vfo, strayed', transmitting', vox_tx_active', TRUE)
  BY AllWrittenSound DEF Idle
<1>4. Chips'
  BY <1>1, <1>3, Zenon DEF Chips
<1>5. Relays'
  BY <1>1 DEF Relays, PaFollowsPtt, Audio
<1> QED
  BY <1>1, <1>2, <1>4, <1>5

LEMMA RelayEndsKeeps ==
  ASSUME IInv, on, RelayEnds
  PROVE  IInv'
<1>1. /\ relaying' = FALSE /\ vox_tx_active' = vox_tx_active /\ sending' = sending
      /\ on' = on /\ focus' = focus
  BY DEF RelayEnds
<1>2. ChipsSound(vfo, chip, active_vfo, strayed, transmitting, vox_tx_active, tone_active)
  BY DEF IInv, Chips
<1>3. CASE radio_ptt_off(chip) /\ UNCHANGED tone_active
  <2>1. ChipsSound(vfo, chip, active_vfo, strayed, transmitting, vox_tx_active', tone_active')
    BY <1>1, <1>2, <1>3, Zenon
  <2>2. /\ Tuning' /\ Chips' /\ Relays' /\ transmitting' \in BOOLEAN /\ toned' \in BOOLEAN
    BY <1>1, <1>3, <2>1, PttOffKeeps DEF IInv
  <2> QED
    BY <1>1, <1>3, <2>2 DEF IInv, Flags
<1>4. CASE ~(radio_ptt_off(chip) /\ UNCHANGED tone_active)
  <2> DEFINE c == IF transmitting THEN KeyedDown(chip) ELSE chip
             st2 == IF vfo[active_vfo].dir # 0 THEN strayed \ {active_vfo} ELSE strayed
  <2>1. /\ audio_path_enable(c)
        /\ strayed' = IF transmitting /\ vfo[active_vfo].dir # 0
                      THEN strayed \ {active_vfo} ELSE strayed
        /\ transmitting' = FALSE
        /\ tot_seconds' = IF transmitting THEN 0 ELSE tot_seconds
        /\ vfo' = vfo /\ active_vfo' = active_vfo
    BY <1>4 DEF RelayEnds
  <2>2. ChipsSound(vfo, c, active_vfo, strayed', transmitting', vox_tx_active', tone_active)
    <3>1. CASE transmitting
      <4>1. c = KeyedDown(chip) /\ strayed' = st2
        BY <2>1, <3>1
      <4>2. ChipsSound(vfo, KeyedDown(chip), active_vfo, st2, FALSE, vox_tx_active, tone_active)
        BY <1>2, KeyedDownSound, Zenon DEF IInv, Tuning
      <4> HIDE DEF c, st2
      <4> QED
        BY <1>1, <2>1, <4>1, <4>2, Zenon
    <3>2. CASE ~transmitting
      <4>1. c = chip /\ strayed' = strayed /\ transmitting = FALSE
        BY <2>1, <3>2 DEF IInv, Flags
      <4> HIDE DEF c
      <4> QED
        BY <1>1, <1>2, <2>1, <4>1, Zenon
    <3> QED
      BY <3>1, <3>2
  <2> HIDE DEF c
  <2>3. tot_seconds' \in 0 .. TotLimit - 1
    BY <2>1, RadioAssumption DEF IInv, Relays
  <2>4. strayed' \in SUBSET Vfos
    BY <2>1 DEF IInv, Tuning
  <2>5. Tuning' /\ Chips' /\ Relays' /\ tone_active' = TRUE /\ toned' = TRUE
    BY <1>1, <2>1, <2>2, <2>3, <2>4, PathEnabled DEF IInv
  <2> QED
    BY <1>1, <2>1, <2>5 DEF IInv, Flags
<1> QED
  BY <1>3, <1>4

LEMMA AprsKeeps ==
  ASSUME IInv, on, AprsSends \/ AprsSent
  PROVE  IInv'
<1>1. /\ vox_tx_active' = vox_tx_active /\ relaying' = relaying
      /\ tone_active' = tone_active /\ on' = on /\ focus' = focus /\ sending' \in BOOLEAN
  BY DEF AprsSends, AprsSent
<1>2. ChipsSound(vfo, chip, active_vfo, strayed, transmitting, vox_tx_active', tone_active')
  BY <1>1, Zenon DEF IInv, Chips
<1>3. CASE AprsSends
  <2> DEFINE k == KeyedUp(active_vfo, chip)
  <2>1. /\ radio_ptt_on(active_vfo, chip, k)
        /\ vfo' = vfo /\ active_vfo' = active_vfo /\ strayed' = strayed
    BY <1>3 DEF AprsSends
  <2>2. ASSUME ~transmitting, TxFreq(vfo[active_vfo]) \in TxAllowed
        PROVE  ChipsSound(vfo, k, active_vfo, strayed, TRUE, vox_tx_active', tone_active')
    <3>1. transmitting = FALSE /\ vfo \in VfoType /\ active_vfo \in Vfos
      BY <2>2 DEF IInv, Flags, Tuning
    <3>2. ChipsSound(vfo, chip, active_vfo, strayed, FALSE, vox_tx_active', tone_active')
      BY <1>2, <3>1, Zenon
    <3> QED
      BY <2>2, <3>1, <3>2, KeyedUpSound, Zenon
  <2> HIDE DEF k
  <2>3. active_vfo \in Vfos /\ strayed' \in SUBSET Vfos
    BY <2>1 DEF IInv, Tuning
  <2>4. /\ ChipsSound(vfo, chip, active_vfo, strayed', transmitting, vox_tx_active', tone_active')
        /\ (~transmitting /\ TxFreq(vfo[active_vfo]) \in TxAllowed =>
             ChipsSound(vfo, k, active_vfo, strayed', TRUE, vox_tx_active', tone_active'))
    BY <1>2, <2>1, <2>2, Zenon
  <2>5. /\ Tuning' /\ Chips' /\ Relays' /\ transmitting' \in BOOLEAN /\ toned' \in BOOLEAN
    BY <1>1, <2>1, <2>3, <2>4, PttOnKeeps DEF IInv
  <2> QED
    BY <1>1, <2>5 DEF IInv, Flags
<1>4. CASE AprsSent
  <2>1. /\ Tuning' /\ Chips' /\ Relays' /\ transmitting' \in BOOLEAN /\ toned' \in BOOLEAN
    BY <1>1, <1>2, <1>4, PttOffKeeps DEF AprsSent, IInv
  <2> QED
    BY <1>1, <2>1 DEF IInv, Flags
<1> QED
  BY <1>3, <1>4

LEMMA ToneKeeps ==
  ASSUME IInv, Tone
  PROVE  IInv'
<1>1. /\ audio_path_enable(chip)
      /\ vfo' = vfo /\ active_vfo' = active_vfo /\ strayed' = strayed
      /\ transmitting' = transmitting /\ tot_seconds' = tot_seconds
      /\ vox_tx_active' = vox_tx_active /\ relaying' = relaying /\ sending' = sending
      /\ on' = on /\ focus' = focus
  BY DEF Tone
<1>2. ChipsSound(vfo, chip, active_vfo, strayed', transmitting', vox_tx_active', tone_active)
  BY <1>1, Zenon DEF IInv, Chips
<1>3. strayed' \in SUBSET Vfos /\ tot_seconds' \in 0 .. TotLimit - 1
  BY <1>1 DEF IInv, Tuning, Relays
<1>4. Tuning' /\ Chips' /\ Relays' /\ tone_active' = TRUE /\ toned' = TRUE
  BY <1>1, <1>2, <1>3, PathEnabled DEF IInv
<1> QED
  BY <1>1, <1>4 DEF IInv, Flags

LEMMA ToneEndsKeeps ==
  ASSUME IInv, ToneEnds
  PROVE  IInv'
<1>1. /\ tone_active' = FALSE /\ toned' = TRUE
      /\ chip' = [v \in Vfos |-> [chip[v] EXCEPT !.mode = "RX"]]
      /\ low' = (low \cup Audio) \ {"EXTERNAL", "ACC0"}
      /\ vfo' = vfo /\ active_vfo' = active_vfo /\ strayed' = strayed
      /\ transmitting' = transmitting /\ tot_seconds' = tot_seconds
      /\ vox_tx_active' = vox_tx_active /\ relaying' = relaying /\ sending' = sending
      /\ on' = on /\ focus' = focus
  BY DEF ToneEnds
<1>2. Tuning'
  BY <1>1 DEF IInv, Tuning
<1>3. ChipsSound(vfo, [v \in Vfos |-> [chip[v] EXCEPT !.mode = "RX"]], active_vfo, strayed,
                 transmitting, vox_tx_active, FALSE)
  BY AllWrittenSound DEF IInv, Chips
<1>4. Chips'
  BY <1>1, <1>3, Zenon DEF Chips
<1>5. Relays'
  BY <1>1 DEF IInv, Relays, PaFollowsPtt, Audio
<1> QED
  BY <1>1, <1>2, <1>4, <1>5 DEF IInv, Flags

LEMMA PowerOffKeeps ==
  ASSUME IInv, power_off
  PROVE  IInv'
<1>1. /\ on' = FALSE /\ low' = low \cup {"MIC", "PA_GATE", "ACC0", "ACC1"}
      /\ vfo' = vfo /\ active_vfo' = active_vfo /\ strayed' = strayed /\ chip' = chip
      /\ transmitting' = transmitting /\ tot_seconds' = tot_seconds /\ toned' = toned
      /\ vox_tx_active' = vox_tx_active /\ relaying' = relaying /\ sending' = sending
      /\ tone_active' = tone_active /\ focus' = focus
  BY DEF power_off, vfoVars
<1>2. Tuning'
  BY <1>1 DEF IInv, Tuning
<1>3. Chips'
  BY <1>1, Zenon DEF IInv, Chips
<1>4. Relays'
  BY <1>1 DEF IInv, Relays, PaFollowsPtt, Audio, Antenna
<1> QED
  BY <1>1, <1>2, <1>3, <1>4 DEF IInv, Flags

LEMMA TotPollKeeps ==
  ASSUME IInv, on, TotPoll
  PROVE  IInv'
<1>1. transmitting /\ UNCHANGED clientVars /\ focus' = focus
  BY DEF TotPoll
<1>2. /\ vox_tx_active' = vox_tx_active /\ relaying' = relaying
      /\ tone_active' = tone_active /\ sending' = sending /\ on' = on
  BY <1>1 DEF clientVars
<1>3. CASE tot_seconds + 1 >= TotLimit
  <2>1. radio_ptt_off(chip)
    BY <1>3 DEF TotPoll
  <2>2. ChipsSound(vfo, chip, active_vfo, strayed, transmitting, vox_tx_active', tone_active')
    BY <1>2, Zenon DEF IInv, Chips
  <2>3. /\ Tuning' /\ Chips' /\ Relays' /\ transmitting' \in BOOLEAN /\ toned' \in BOOLEAN
    BY <1>2, <2>1, <2>2, PttOffKeeps DEF IInv
  <2> QED
    BY <1>1, <1>2, <2>3 DEF IInv, Flags
<1>4. CASE ~(tot_seconds + 1 >= TotLimit)
  <2>1. /\ tot_seconds' = tot_seconds + 1
        /\ vfo' = vfo /\ active_vfo' = active_vfo /\ strayed' = strayed /\ chip' = chip
        /\ transmitting' = transmitting /\ low' = low /\ toned' = toned
    BY <1>4 DEF TotPoll, vfoVars
  <2>2. Tuning'
    BY <2>1 DEF IInv, Tuning
  <2>3. Chips'
    BY <1>2, <2>1, Zenon DEF IInv, Chips
  <2>4. Relays'
    <3>1. tot_seconds' \in 0 .. TotLimit - 1
      BY <1>4, <2>1, RadioAssumption DEF IInv, Relays
    <3> QED
      BY <1>2, <2>1, <3>1 DEF IInv, Relays, PaFollowsPtt
  <2> QED
    BY <1>1, <1>2, <2>1, <2>2, <2>3, <2>4 DEF IInv, Flags
<1> QED
  BY <1>3, <1>4

LEMMA PttKeyKeeps ==
  ASSUME IInv, on, PttPress \/ PttRelease
  PROVE  IInv'
<1>1. UNCHANGED clientVars /\ focus' \in Focus
  BY DEF PttPress, PttRelease, IInv, Focus
<1>2. /\ vox_tx_active' = vox_tx_active /\ relaying' = relaying
      /\ tone_active' = tone_active /\ sending' = sending /\ on' = on
  BY <1>1 DEF clientVars
<1>3. CASE UNCHANGED <<vfoVars, txVars>>
  BY <1>1, <1>3, NothingKeeps
<1>4. ChipsSound(vfo, chip, active_vfo, strayed, transmitting, vox_tx_active', tone_active')
  BY <1>2, Zenon DEF IInv, Chips
<1>5. CASE PttPress /\ ~UNCHANGED <<vfoVars, txVars>>
  <2> DEFINE k == KeyedUp(active_vfo, chip)
  <2>1. /\ radio_ptt_on(active_vfo, chip, k)
        /\ vfo' = vfo /\ active_vfo' = active_vfo /\ strayed' = strayed
    BY <1>5 DEF PttPress
  <2>2. ASSUME ~transmitting, TxFreq(vfo[active_vfo]) \in TxAllowed
        PROVE  ChipsSound(vfo, k, active_vfo, strayed, TRUE, vox_tx_active', tone_active')
    <3>1. transmitting = FALSE /\ vfo \in VfoType /\ active_vfo \in Vfos
      BY <2>2 DEF IInv, Flags, Tuning
    <3>2. ChipsSound(vfo, chip, active_vfo, strayed, FALSE, vox_tx_active', tone_active')
      BY <1>4, <3>1, Zenon
    <3> QED
      BY <2>2, <3>1, <3>2, KeyedUpSound, Zenon
  <2> HIDE DEF k
  <2>3. active_vfo \in Vfos /\ strayed' \in SUBSET Vfos
    BY <2>1 DEF IInv, Tuning
  <2>4. /\ ChipsSound(vfo, chip, active_vfo, strayed', transmitting, vox_tx_active', tone_active')
        /\ (~transmitting /\ TxFreq(vfo[active_vfo]) \in TxAllowed =>
             ChipsSound(vfo, k, active_vfo, strayed', TRUE, vox_tx_active', tone_active'))
    BY <1>4, <2>1, <2>2, Zenon
  <2>5. /\ Tuning' /\ Chips' /\ Relays' /\ transmitting' \in BOOLEAN /\ toned' \in BOOLEAN
    BY <1>2, <2>1, <2>3, <2>4, PttOnKeeps DEF IInv
  <2> QED
    BY <1>1, <1>2, <2>5 DEF IInv, Flags
<1>6. CASE PttRelease /\ ~UNCHANGED <<vfoVars, txVars>>
  <2>1. radio_ptt_off(chip)
    BY <1>6 DEF PttRelease
  <2>2. /\ Tuning' /\ Chips' /\ Relays' /\ transmitting' \in BOOLEAN /\ toned' \in BOOLEAN
    BY <1>2, <1>4, <2>1, PttOffKeeps DEF IInv
  <2> QED
    BY <1>1, <1>2, <2>2 DEF IInv, Flags
<1> QED
  BY <1>3, <1>5, <1>6

-----------------------------------------------------------------------------

LEMMA InitHolds == Init => IInv
<1> SUFFICES ASSUME Init PROVE IInv
  OBVIOUS
<1>1. /\ vfo \in VfoType /\ active_vfo \in Vfos /\ strayed = {}
      /\ chip = [v \in Vfos |-> Receiving(vfo[v].freq)]
  BY DEF Init, VfoInit, VfoType
<1>2. \A v \in Vfos : vfo[v].freq \in Nat
  BY <1>1, FreqAssumption DEF VfoType, Freqs
<1>3. \A v \in Vfos : /\ chip[v] \in [freq : Nat, mode : Mode]
                      /\ chip[v].freq = vfo[v].freq /\ chip[v].mode = "RX"
  BY <1>1, <1>2, ReceivingType
<1>4. chip \in ChipType
  BY <1>1, <1>3 DEF ChipType
<1>5. Chips
  BY <1>3, <1>4 DEF Chips, ChipsSound, ModesSound, FreqsSound
<1>6. Relays
  <2>1. tot_seconds \in 0 .. TotLimit - 1
    BY RadioAssumption DEF Init
  <2> QED
    BY <2>1 DEF Init, Relays, PaFollowsPtt
<1> QED
  BY <1>1, <1>5, <1>6 DEF Init, IInv, Tuning, Flags, Focus

LEMMA ElsewhereKeeps ==
  ASSUME IInv, KeyElsewhere
  PROVE  IInv'
<1>1. UNCHANGED <<txVars, clientVars>>
  BY DEF KeyElsewhere
<1>2. CASE focus # "normal" /\ focus' = "normal" /\ UNCHANGED vfoVars
  BY <1>1, <1>2, NothingKeeps DEF Focus
<1>3. ASSUME NEW d \in Dir, vfo_set_offset_dir(d), UNCHANGED focus,
             strayed' = IF transmitting /\ vfo[active_vfo].dir # 0 /\ d = 0
                        THEN strayed \cup {active_vfo} ELSE strayed
      PROVE  IInv'
  <2>1. focus' \in Focus
    BY <1>3 DEF IInv
  <2> QED
    BY <1>1, <1>3, <2>1, OffsetDirKeeps
<1>4. CASE vfo_apply(active_vfo) /\ UNCHANGED focus
  <2>1. focus' \in Focus
    BY <1>4 DEF IInv
  <2> QED
    BY <1>1, <1>4, <2>1, ApplyKeeps
<1>5. ASSUME NEW f \in EntryFreqs, vfo_set_frequency(active_vfo, f), focus' = "normal"
      PROVE  IInv'
  <2>1. active_vfo \in Vfos /\ f \in Freqs /\ focus' \in Focus
    BY <1>5, RadioAssumption DEF IInv, Tuning, Focus
  <2> QED
    BY <1>1, <1>5, <2>1, SetFrequencyKeeps
<1> QED
  BY <1>2, <1>3, <1>4, <1>5 DEF KeyElsewhere

\* The keys and the knob that tune, and whoever else sets a frequency.
LEMMA TuningKeeps ==
  ASSUME IInv, KeyRepeat \/ KeyPress \/ Encoder \/ ScannerPoll \/ ChannelCommit
  PROVE  IInv'
<1>1. UNCHANGED <<txVars, clientVars>> /\ focus \in Focus
  BY DEF KeyRepeat, KeyPress, Encoder, ScannerPoll, ChannelCommit, IInv
<1>2. CASE action_dispatch
  BY <1>1, <1>2, DispatchKeeps
<1>3. ASSUME focus' \in Focus, UNCHANGED vfoVars
      PROVE  IInv'
  BY <1>1, <1>3, NothingKeeps
<1>4. ASSUME NEW dir \in {-1, 1}, vfo_step(dir), UNCHANGED focus
      PROVE  IInv'
  <2>1. focus' \in Focus
    BY <1>1, <1>4
  <2> QED
    BY <1>1, <1>4, <2>1, StepKeeps
<1>5. ASSUME NEW v \in Vfos, NEW f \in ChannelFreqs, vfo_set_frequency(v, f), UNCHANGED focus
      PROVE  IInv'
  <2>1. focus' \in Focus /\ f \in Freqs
    BY <1>1, <1>5, RadioAssumption
  <2> QED
    BY <1>1, <1>5, <2>1, SetFrequencyKeeps
<1>6. CASE KeyRepeat
  BY <1>2, <1>6 DEF KeyRepeat
<1>7. CASE KeyPress
  <2>1. CASE focus' \in {"entry", "menu"} /\ UNCHANGED vfoVars
    BY <1>3, <2>1 DEF Focus
  <2>2. CASE vfo_toggle /\ UNCHANGED focus
    <3>1. ~transmitting /\ focus' \in Focus
      BY <1>1, <1>7, <2>2 DEF KeyPress
    <3> QED
      BY <1>1, <2>2, <3>1, ToggleKeeps
  <2> QED
    BY <1>2, <1>4, <1>7, <2>1, <2>2 DEF KeyPress
<1>8. CASE Encoder
  <2>1. PICK dir \in {-1, 1} : vfo_step(dir)
    BY <1>8 DEF Encoder
  <2>2. UNCHANGED focus
    BY <1>8 DEF Encoder
  <2> QED
    BY <1>4, <2>1, <2>2
<1>9. CASE ScannerPoll
  <2>1. CASE vfo_step(1) /\ UNCHANGED focus
    BY <1>4, <2>1
  <2>2. CASE (\E f \in ChannelFreqs : vfo_set_frequency(active_vfo, f)) /\ UNCHANGED focus
    <3>1. active_vfo \in Vfos
      BY DEF IInv, Tuning
    <3> QED
      BY <1>5, <2>2, <3>1
  <2>3. CASE focus' = "normal" /\ UNCHANGED vfoVars
    BY <1>3, <2>3 DEF Focus
  <2> QED
    BY <1>9, <2>1, <2>2, <2>3 DEF ScannerPoll
<1>10. CASE ChannelCommit
  <2>1. PICK f \in ChannelFreqs : vfo_set_frequency("A", f)
    BY <1>10 DEF ChannelCommit
  <2>2. UNCHANGED focus /\ "A" \in Vfos
    BY <1>10 DEF ChannelCommit, Vfos
  <2> QED
    BY <1>5, <2>1, <2>2
<1> QED
  BY <1>6, <1>7, <1>8, <1>9, <1>10

LEMMA StepHolds ==
  ASSUME IInv, [Next]_vars
  PROVE  IInv'
<1>1. CASE on /\ ~sending /\ Running
  BY <1>1, PttKeyKeeps, TuningKeeps, ElsewhereKeeps, TotPollKeeps, VoxPollKeeps,
     RelayStartsKeeps, RelayEndsKeeps, AprsKeeps, ToneKeeps, ToneEndsKeeps, PowerOffKeeps
  DEF Running
<1>2. CASE on /\ sending /\ AprsSent
  BY <1>2, AprsKeeps
<1>3. CASE UNCHANGED vars
  <2>1. UNCHANGED <<vfoVars, txVars, clientVars>> /\ focus' = focus
    BY <1>3 DEF vars
  <2> QED
    BY <2>1, NothingKeeps DEF IInv
<1> QED
  BY <1>1, <1>2, <1>3 DEF Next

LEMMA AlwaysIInv == Spec => []IInv
<1>1. Init => IInv
  BY InitHolds
<1>2. IInv /\ [Next]_vars => IInv'
  BY StepHolds
<1> QED
  BY <1>1, <1>2, PTL DEF Spec

-----------------------------------------------------------------------------

(* Whatever the band plan and the time-out, the state has its type: the     *)
(* time-out counter of radio_tot_poll stays below the limit.                *)
THEOREM RadioTypeCorrect == Spec => []RadioTypeOK
<1>1. IInv => RadioTypeOK
  BY DEF IInv, Tuning, VfoType, Chips, ChipsSound, ChipType, Flags, Relays, RadioTypeOK,
     VfoTypeOK
<1> QED
  BY <1>1, AlwaysIInv, PTL

(* The pin of the PA gate is LOW while transmitting, after a tone until     *)
(* radio.c switches the relays again, and after power_off, and then only,   *)
(* whoever keys the transmitter, whichever relay mode a frequency has.      *)
THEOREM PaGateFollowsPtt == Spec => []PaFollowsPtt
<1>1. IInv => PaFollowsPtt
  BY DEF IInv, Relays
<1> QED
  BY <1>1, AlwaysIInv, PTL

(* Whoever called radio_ptt_on, its carrier is on the active VFO's chip and *)
(* on a frequency that calibration_tx_allowed has passed; the one carrier   *)
(* it has not passed is what VOX writes to the chip of VFO A, and that one  *)
(* VOX removes.                                                             *)
THEOREM NoUncheckedCarrier == Spec => []CarrierWasChecked
<1>1. IInv => CarrierWasChecked
  BY Zenon DEF IInv, Chips, ChipsSound, ModesSound, CarrierWasChecked
<1> QED
  BY <1>1, AlwaysIInv, PTL

(* Off the air and without a tone each chip receives, and on the frequency  *)
(* its VFO shows unless the offset was removed while it transmitted.        *)
THEOREM FrequencyRestored == Spec => []ReceivesWhatIsShown
<1>1. IInv => ReceivesWhatIsShown
  <2> SUFFICES ASSUME IInv, ~transmitting, ~tone_active, NEW v \in Vfos
               PROVE  /\ chip[v].mode # "RX" => v = "A" /\ vox_tx_active
                      /\ chip[v].freq # vfo[v].freq => v \in strayed
    BY DEF ReceivesWhatIsShown
  <2>1. chip[v].mode \in Mode
    BY DEF IInv, Chips, ChipsSound, ChipType
  <2> QED
    BY <2>1 DEF IInv, Chips, ChipsSound, ModesSound, FreqsSound, Mode
<1> QED
  BY <1>1, AlwaysIInv, PTL
=============================================================================
