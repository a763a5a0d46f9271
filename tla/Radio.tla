------------------------------- MODULE Radio -------------------------------
(***************************************************************************)
(* app/radio.c: push-to-talk, the relays, the transmit time-out, and the   *)
(* dispatch of keys and knob to the menu, the frequency entry, the FM      *)
(* radio, the scanner and the VFOs; and everybody else who keys the        *)
(* transmitter or writes the relay pins and REG_30 of the transceivers:    *)
(* VOX, the cross-band relay, APRS, the tones of app/audio.c and           *)
(* power_off.  The handlers are called as radio.h and scanner.h ask: one   *)
(* at a time, radio_tot_poll once a second.                                *)
(*                                                                         *)
(* The menu, the entry, the FM radio and the scanner are seen only through *)
(* what they do to the VFOs and to the dispatch.  Each is entered while    *)
(* none of the others is active.  When VOX hears, when the relay has a     *)
(* carrier and how long a tone lasts are open here: PttClients and Audio   *)
(* have their timing.                                                      *)
(***************************************************************************)
EXTENDS Vfo

CONSTANTS
  TxAllowed,     \* the frequencies of the enabled calibration sub-bands
  Submode,       \* freq_to_submode
  EntryFreqs,    \* what freq_entry_confirm takes
  ChannelFreqs,  \* the frequencies of the stored channels
  TotLimit       \* tot_table[settings.tot], not OFF; polls, not seconds

AirFreqs == MinFreq - Offset .. MaxFreq + Offset

ASSUME RadioAssumption ==
  /\ TxAllowed \subseteq AirFreqs
  /\ Submode \in [AirFreqs -> 0 .. 3]
  /\ EntryFreqs \subseteq Freqs /\ ChannelFreqs \subseteq Freqs
  /\ TotLimit \in Nat \ {0}

VARIABLES
  transmitting,
  tot_seconds,
  low,           \* the relay pins that are LOW: relays are active-low
  toned,         \* history: audio.c wrote the relay pins last
  focus,         \* which module takes the keys
  vox_tx_active,
  relaying,
  tone_active,
  sending,       \* inside aprs_send_position, which blocks the main loop
  on             \* power_off has not run

txVars == <<transmitting, tot_seconds, low, toned>>
clientVars == <<vox_tx_active, relaying, tone_active, sending, on>>
vars == <<vfoVars, txVars, clientVars, focus>>

Antenna == {"PRIMARY", "EXTERNAL", "ACC0"}
Audio == {"MIC", "ACC1", "PA_GATE"}
Focus == {"normal", "menu", "entry", "fm", "scan"}

RadioTypeOK ==
  /\ VfoTypeOK
  /\ tot_seconds \in 0 .. TotLimit - 1
  /\ low \in SUBSET (Antenna \cup Audio)
  /\ focus \in Focus
  /\ transmitting \in BOOLEAN /\ toned \in BOOLEAN
  /\ vox_tx_active \in BOOLEAN /\ relaying \in BOOLEAN
  /\ tone_active \in BOOLEAN /\ sending \in BOOLEAN /\ on \in BOOLEAN

\* radio_init, vox_init, audio_init.
Init ==
  /\ VfoInit
  /\ transmitting = FALSE
  /\ tot_seconds = 0
  /\ low = {}
  /\ toned = FALSE
  /\ focus = "normal"
  /\ vox_tx_active = FALSE /\ relaying = FALSE
  /\ tone_active = FALSE /\ sending = FALSE
  /\ on = TRUE

-----------------------------------------------------------------------------

\* relay_select: the pins each mode leaves LOW.  Mode 0 asserts them all and
\* is followed by mode 2, which leaves the antenna group alone.
RelayRx(sub) == IF sub = 0 THEN Antenna \ {"ACC0"} ELSE Antenna
RelayTx(sub) ==
  Antenna \cup {"PA_GATE"} \cup (IF sub \in {0, 2} THEN {"ACC1"} ELSE {"MIC"})

\* What radio_ptt_on makes of the chips c with VFO v active: the chip is
\* retuned only when the transmit frequency is not the one shown.
KeyedUp(v, c) ==
  LET tx_freq == TxFreq(vfo[v])
  IN [c EXCEPT ![v] =
       [freq |-> IF tx_freq # vfo[v].freq THEN tx_freq ELSE @.freq, mode |-> "TX"]]

\* radio_ptt_on with VFO v active, which leaves the chips as refused or as
\* keyed.  It does nothing while transmitting; with the busy lock-out set, a
\* signal on the channel refuses the transmission; so does a frequency that
\* is not calibrated.
radio_ptt_on(v, refused, keyed) ==
  \/ chip' = refused /\ UNCHANGED txVars
  \/ /\ ~transmitting
     /\ TxFreq(vfo[v]) \in TxAllowed
     /\ transmitting' = TRUE
     /\ tot_seconds' = 0
     /\ chip' = keyed
     /\ low' = RelayTx(Submode[TxFreq(vfo[v])])
     /\ toned' = FALSE

\* What radio_ptt_off makes of the chips c.  The frequency is restored when
\* there is an offset now.
KeyedDown(c) ==
  [c EXCEPT ![active_vfo] =
    Receiving(IF vfo[active_vfo].dir # 0 THEN vfo[active_vfo].freq ELSE @.freq)]

\* Mutants of radio_ptt_off: the frequency is not restored; the relays are
\* not switched.
PttOffUntuned(c) ==
  /\ UNCHANGED <<vfo, active_vfo>>
  /\ IF transmitting
     THEN /\ transmitting' = FALSE /\ tot_seconds' = 0
          /\ chip' = [c EXCEPT ![active_vfo].mode = "RX"]
          /\ strayed' = IF vfo[active_vfo].dir # 0 THEN strayed \ {active_vfo} ELSE strayed
          /\ low' = RelayRx(Submode[vfo[active_vfo].freq]) /\ toned' = FALSE
     ELSE chip' = c /\ UNCHANGED <<strayed, txVars>>

PttOffKeyed(c) ==
  /\ UNCHANGED <<vfo, active_vfo>>
  /\ IF transmitting
     THEN /\ transmitting' = FALSE /\ tot_seconds' = 0
          /\ chip' = KeyedDown(c)
          /\ strayed' = IF vfo[active_vfo].dir # 0 THEN strayed \ {active_vfo} ELSE strayed
          /\ UNCHANGED low /\ toned' = FALSE
     ELSE chip' = c /\ UNCHANGED <<strayed, txVars>>

\* radio_ptt_off, called with the chips as c.
radio_ptt_off(c) ==
  /\ UNCHANGED <<vfo, active_vfo>>
  /\ IF transmitting
     THEN /\ transmitting' = FALSE
          /\ tot_seconds' = 0
          /\ chip' = KeyedDown(c)
          /\ strayed' = IF vfo[active_vfo].dir # 0 THEN strayed \ {active_vfo} ELSE strayed
          /\ low' = RelayRx(Submode[vfo[active_vfo].freq])
          /\ toned' = FALSE
     ELSE chip' = c /\ UNCHANGED <<strayed, txVars>>

\* Mutants of TotPoll: one second too late; the cut-off goes through the key
\* dispatch.
TotPollLate ==
  /\ transmitting
  /\ IF tot_seconds + 1 > TotLimit
     THEN radio_ptt_off(chip)
     ELSE tot_seconds' = tot_seconds + 1 /\ UNCHANGED <<vfoVars, transmitting, low, toned>>
  /\ UNCHANGED <<clientVars, focus>>

TotPollAsKey ==
  /\ transmitting
  /\ IF tot_seconds + 1 >= TotLimit
     THEN focus = "normal" /\ radio_ptt_off(chip)
     ELSE tot_seconds' = tot_seconds + 1 /\ UNCHANGED <<vfoVars, transmitting, low, toned>>
  /\ UNCHANGED <<clientVars, focus>>

\* radio_tot_poll.
TotPoll ==
  /\ transmitting
  /\ IF tot_seconds + 1 >= TotLimit
     THEN radio_ptt_off(chip)
     ELSE tot_seconds' = tot_seconds + 1 /\ UNCHANGED <<vfoVars, transmitting, low, toned>>
  /\ UNCHANGED <<clientVars, focus>>

-----------------------------------------------------------------------------

\* The PTT key in radio_handle_key: whoever has the focus may swallow it, and
\* a press stops the scanner.  Presses and releases come in any order, as the
\* event queue may lose either.
PttPress ==
  /\ IF focus = "normal"
     THEN /\ radio_ptt_on(active_vfo, chip, KeyedUp(active_vfo, chip))
          /\ UNCHANGED <<vfo, active_vfo, strayed>>
     ELSE UNCHANGED <<vfoVars, txVars>>
  /\ focus' = IF focus = "scan" THEN "normal" ELSE focus
  /\ UNCHANGED clientVars

PttRelease ==
  /\ IF focus = "normal" THEN radio_ptt_off(chip) ELSE UNCHANGED <<vfoVars, txVars>>
  /\ UNCHANGED <<clientVars, focus>>

\* action_dispatch, for the functions that touch the state modelled here:
\* scan and memory scan, FM radio, reverse.
action_dispatch ==
  \/ focus' \in {"scan", "fm"} /\ UNCHANGED vfoVars
  \/ vfo_reverse_toggle /\ UNCHANGED focus

\* A long press is not held back while transmitting.
KeyRepeat ==
  /\ focus = "normal"
  /\ action_dispatch
  /\ UNCHANGED <<txVars, clientVars>>

\* The press of another key in normal mode; on the air it is a DTMF digit.
KeyPress ==
  /\ focus = "normal" /\ ~transmitting
  /\ \/ focus' \in {"entry", "menu"} /\ UNCHANGED vfoVars
     \/ vfo_toggle /\ UNCHANGED focus
     \/ (\E dir \in {-1, 1} : vfo_step(dir)) /\ UNCHANGED focus
     \/ action_dispatch
  /\ UNCHANGED <<txVars, clientVars>>

\* A key press or a detent that the module with the focus takes: it ends; or
\* the menu sets the offset, or the bandwidth or the modulation, which applies
\* the VFO; or the sixth digit completes a frequency.
KeyElsewhere ==
  /\ \/ focus # "normal" /\ focus' = "normal" /\ UNCHANGED vfoVars
     \/ /\ focus = "menu"
        /\ \E d \in Dir :
             /\ vfo_set_offset_dir(d)
             /\ strayed' = IF transmitting /\ vfo[active_vfo].dir # 0 /\ d = 0
                           THEN strayed \cup {active_vfo} ELSE strayed
        /\ UNCHANGED focus
     \/ focus = "menu" /\ vfo_apply(active_vfo) /\ UNCHANGED focus
     \/ /\ focus = "entry"
        /\ \E f \in EntryFreqs : vfo_set_frequency(active_vfo, f)
        /\ focus' = "normal"
  /\ UNCHANGED <<txVars, clientVars>>

\* radio_handle_encoder, on the air or not.
Encoder ==
  /\ focus = "normal"
  /\ \E dir \in {-1, 1} : vfo_step(dir)
  /\ UNCHANGED <<txVars, clientVars, focus>>

\* scanner_poll when it moves on, or finds no channel and stops.
ScannerPoll ==
  /\ focus = "scan"
  /\ \/ vfo_step(1) /\ UNCHANGED focus
     \/ (\E f \in ChannelFreqs : vfo_set_frequency(active_vfo, f))
        /\ UNCHANGED focus
     \/ focus' = "normal" /\ UNCHANGED vfoVars
  /\ UNCHANGED <<txVars, clientVars>>

\* ui_commit_channel: the knob has picked a channel for VFO A.
ChannelCommit ==
  /\ \E f \in ChannelFreqs : vfo_set_frequency("A", f)
  /\ UNCHANGED <<txVars, clientVars, focus>>

-----------------------------------------------------------------------------

\* VOX_CHIP is the chip of VFO A, whichever VFO is active.
VoxWrites(c, m) == [c EXCEPT !["A"].mode = m]

\* vox_poll at the first audio, and once the hang time has passed (or
\* vox_set_level(0), which does the same).  REG_30 is written whether or not
\* radio_ptt_on has refused.
VoxPoll ==
  /\ IF vox_tx_active
     THEN radio_ptt_off(VoxWrites(chip, "RX")) /\ vox_tx_active' = FALSE
     ELSE /\ ~transmitting
          /\ radio_ptt_on(active_vfo, VoxWrites(chip, "VOX_TX"),
                          VoxWrites(KeyedUp(active_vfo, chip), "VOX_TX"))
          /\ vox_tx_active' = TRUE
          /\ UNCHANGED <<vfo, active_vfo, strayed>>
  /\ UNCHANGED <<relaying, tone_active, sending, on, focus>>

\* audio_path_enable: rf_relays_idle, and both chips to stand-by.
Idle(c) == [v \in Vfos |-> [c[v] EXCEPT !.mode = "STANDBY"]]

audio_path_enable(c) ==
  /\ low' = Antenna \cup Audio
  /\ toned' = TRUE
  /\ chip' = Idle(c)
  /\ tone_active' = TRUE

\* crossband_poll with a signal on the other VFO: vfo_set_active of the one to
\* transmit on, and radio_ptt_on.
RelayStarts ==
  /\ ~relaying /\ ~transmitting
  /\ \E v \in Vfos :
       LET applied == [chip EXCEPT ![v] = Receiving(vfo[v].freq)]
       IN /\ TxFreq(vfo[v]) \in TxAllowed
          /\ active_vfo' = v
          /\ strayed' = strayed \ {v}
          /\ radio_ptt_on(v, applied, KeyedUp(v, applied))
  /\ relaying' = TRUE
  /\ UNCHANGED <<vfo, vox_tx_active, tone_active, sending, on, focus>>

\* crossband_poll at the end of the hang time, or crossband_set_mode; and at
\* the relay's own time limit, which beeps.
RelayEnds ==
  /\ relaying
  /\ relaying' = FALSE
  /\ \/ radio_ptt_off(chip) /\ UNCHANGED tone_active
     \/ /\ audio_path_enable(IF transmitting THEN KeyedDown(chip) ELSE chip)
        /\ strayed' = IF transmitting /\ vfo[active_vfo].dir # 0
                      THEN strayed \ {active_vfo} ELSE strayed
        /\ transmitting' = FALSE
        /\ tot_seconds' = IF transmitting THEN 0 ELSE tot_seconds
        /\ UNCHANGED <<vfo, active_vfo>>
  /\ UNCHANGED <<vox_tx_active, sending, on, focus>>

\* aprs_send_position keys the transmitter, sends by FSK and unkeys it; only
\* interrupts run in between.
AprsSends ==
  /\ radio_ptt_on(active_vfo, chip, KeyedUp(active_vfo, chip))
  /\ sending' = TRUE
  /\ UNCHANGED <<vfo, active_vfo, strayed, vox_tx_active, relaying, tone_active, on, focus>>

AprsSent ==
  /\ radio_ptt_off(chip)
  /\ sending' = FALSE
  /\ UNCHANGED <<vox_tx_active, relaying, tone_active, on, focus>>

\* tone_start, seq_start and the next tone of a sequence: a key, the knob, the
\* low battery and the start-up all sound, on the air or not.
Tone ==
  /\ audio_path_enable(chip)
  /\ UNCHANGED <<vfo, active_vfo, strayed, transmitting, tot_seconds,
                 vox_tx_active, relaying, sending, on, focus>>

\* audio_poll at the end of the tone: audio_path_disable, with rf_relays_rx.
ToneEnds ==
  /\ tone_active
  /\ tone_active' = FALSE
  /\ chip' = [v \in Vfos |-> [chip[v] EXCEPT !.mode = "RX"]]
  /\ low' = (low \cup Audio) \ {"EXTERNAL", "ACC0"}
  /\ toned' = TRUE
  /\ UNCHANGED <<vfo, active_vfo, strayed, transmitting, tot_seconds,
                 vox_tx_active, relaying, sending, on, focus>>

\* power_off takes four of the six pins LOW and does not return: the supply
\* drops, or the radio starts from Init when the switch is turned back.
power_off ==
  /\ on' = FALSE
  /\ low' = low \cup {"MIC", "PA_GATE", "ACC0", "ACC1"}
  /\ UNCHANGED <<vfoVars, transmitting, tot_seconds, toned,
                 vox_tx_active, relaying, tone_active, sending, focus>>

Running ==
  \/ PttPress
  \/ PttRelease
  \/ KeyRepeat
  \/ KeyPress
  \/ KeyElsewhere
  \/ Encoder
  \/ ScannerPoll
  \/ ChannelCommit
  \/ TotPoll
  \/ VoxPoll
  \/ RelayStarts
  \/ RelayEnds
  \/ AprsSends
  \/ Tone
  \/ ToneEnds
  \/ power_off

Next ==
  \/ on /\ ~sending /\ Running
  \/ on /\ sending /\ AprsSent
  \/ ~on /\ UNCHANGED vars

Spec ==
  /\ Init /\ [][Next]_vars
  /\ WF_vars(on /\ ~sending /\ TotPoll) /\ WF_vars(on /\ sending /\ AprsSent)

-----------------------------------------------------------------------------

(* The power amplifier's gate is LOW, which is "asserted" to radio.c, while *)
(* the radio transmits, after a tone until radio.c switches the relays      *)
(* again, and after power_off; at no other time: no key sequence, time-out, *)
(* VOX, relay or beacon leaves the relays keyed, or unkeys them on the air. *)
PaFollowsPtt == "PA_GATE" \in low <=> transmitting \/ toned \/ ~on

(* A carrier of radio.c is only ever on the active VFO's chip, and on a     *)
(* frequency that calibration_tx_allowed has passed, for whoever asked:     *)
(* whatever retunes a chip that is transmitting takes it off the air.  The  *)
(* one other carrier is VOX's own, on the chip of VFO A, and VOX takes it   *)
(* off again before it lets go.                                             *)
CarrierWasChecked ==
  \A v \in Vfos :
    /\ chip[v].mode = "TX" => transmitting /\ v = active_vfo /\ chip[v].freq \in TxAllowed
    /\ chip[v].mode = "VOX_TX" => v = "A" /\ vox_tx_active

(* Off the air, and with no tone playing, both chips receive, but for VOX's *)
(* own carrier, and on the frequency their VFO shows, but for a VFO whose   *)
(* offset was removed while it was on the air; so the offset is undone also *)
(* when the VFO was reversed, stepped, scanned or relayed from meanwhile.   *)
ReceivesWhatIsShown ==
  ~transmitting /\ ~tone_active =>
    \A v \in Vfos :
      /\ chip[v].mode # "RX" => v = "A" /\ vox_tx_active
      /\ chip[v].freq # vfo[v].freq => v \in strayed

(* With the time-out set every transmission ends, also one whose PTT        *)
(* release was swallowed by a scan or the FM radio that a long press        *)
(* started on the air, and one that VOX or the relay holds.                 *)
TransmissionEnds == transmitting ~> ~transmitting \/ ~on

(* While radio_is_transmitting returns 1 the active VFO's chip is on the    *)
(* air (radio.h:29).                                                        *)
OnAirWhileTransmitting == transmitting => chip[active_vfo].mode \in {"TX", "VOX_TX"}

(* In reception and without a tone the PA gate is HIGH (radio.c:299, 322).  *)
GateHighInReception == on /\ ~transmitting /\ ~tone_active => "PA_GATE" \notin low

(* Nothing is sent outside the calibrated bands (radio.c:420).              *)
NothingSentUncalibrated ==
  \A v \in Vfos : chip[v].mode \in {"TX", "VOX_TX"} => chip[v].freq \in TxAllowed

(* Off the air the receive frequency is restored if a transmit offset was   *)
(* active (radio.c:518).                                                    *)
OffsetUndone == ~transmitting => \A v \in Vfos : chip[v].freq = vfo[v].freq
=============================================================================
