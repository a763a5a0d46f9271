----------------------------- MODULE DualWatch -----------------------------
(***************************************************************************)
(* app/radio.c: radio_dual_watch_poll and radio_dtmf_decode_poll.  The one *)
(* moves the focus of reception to the VFO that is not active while a      *)
(* signal is there, the other collects the DTMF digits heard on the VFO in *)
(* focus.  Squelch, digits and the time are the environment's.             *)
(***************************************************************************)
EXTENDS Integers, Sequences

CONSTANTS
  HoldPolls,     \* 10: polls the focus stays after the signal
  DtmfMax,       \* DTMF_DEC_MAX
  DtmfTimeout,   \* DTMF_DEC_TIMEOUT_MS
  DwTickMod      \* 2^32, get_tick

ASSUME DualWatchAssumption ==
  /\ {HoldPolls, DtmfMax, DtmfTimeout, DwTickMod} \subseteq Nat \ {0}
  /\ DtmfTimeout < DwTickMod

VARIABLES
  dw_active,        \* vfo_get_active
  dual_watch,       \* the setting
  on_air,           \* transmitting
  dw_rx_vfo, dw_signal_hold,
  dtmf_dec_buf,     \* the VFO each digit was heard on stands for the digit
  dtmf_dec_last_ms, dw_tick,
  steady,           \* history: since the hold ran out last, neither the active
                    \* VFO nor the setting has changed
  polled,           \* history: polled since the last change
  quiet_polls       \* history: polls in a row without a signal on the other

dualVars == <<dw_active, dual_watch, on_air, dw_rx_vfo, dw_signal_hold, dtmf_dec_buf,
              dtmf_dec_last_ms, dw_tick, steady, polled, quiet_polls>>
dtmfVars == <<dtmf_dec_buf, dtmf_dec_last_ms>>
focusVars == <<dw_rx_vfo, dw_signal_hold, steady, polled, quiet_polls>>

Other(v) == IF v = "A" THEN "B" ELSE "A"

DualTypeOK ==
  /\ {dw_active, dw_rx_vfo} \subseteq {"A", "B"}
  /\ {dual_watch, on_air, steady, polled} \subseteq BOOLEAN
  /\ dw_signal_hold \in 0 .. HoldPolls
  /\ Len(dtmf_dec_buf) <= DtmfMax

DualInit ==
  /\ dw_active = "A" /\ dual_watch = FALSE /\ on_air = FALSE
  /\ dw_rx_vfo = "A" /\ dw_signal_hold = 0
  /\ dtmf_dec_buf = << >> /\ dtmf_dec_last_ms = 0 /\ dw_tick = 0
  /\ steady = TRUE /\ polled = TRUE /\ quiet_polls = 0

-----------------------------------------------------------------------------

\* Off: the focus goes back at once, the hold is not cleared.
FocusBack ==
  /\ ~dual_watch
  /\ dw_rx_vfo' = dw_active
  /\ steady' = (dw_signal_hold = 0)
  /\ UNCHANGED <<dw_signal_hold, quiet_polls>>

\* Mutant of Holding: the focus stays where it is when the hold runs out.
HoldingOn(open) ==
  /\ dual_watch /\ dw_signal_hold > 0
  /\ dw_signal_hold' = IF open THEN HoldPolls ELSE dw_signal_hold - 1
  /\ quiet_polls' = IF open THEN 0 ELSE quiet_polls + 1
  /\ steady' = (steady \/ dw_signal_hold' = 0)
  /\ UNCHANGED dw_rx_vfo

Holding(open) ==
  /\ dual_watch /\ dw_signal_hold > 0
  /\ dw_signal_hold' = IF open THEN HoldPolls ELSE dw_signal_hold - 1
  /\ dw_rx_vfo' = IF dw_signal_hold' = 0 THEN dw_active ELSE dw_rx_vfo
  /\ quiet_polls' = IF open THEN 0 ELSE quiet_polls + 1
  /\ steady' = (steady \/ dw_signal_hold' = 0)

Checking(open) ==
  /\ dual_watch /\ dw_signal_hold = 0
  /\ dw_rx_vfo' = IF open THEN Other(dw_active) ELSE dw_active
  /\ dw_signal_hold' = IF open THEN HoldPolls ELSE 0
  /\ quiet_polls' = 0
  /\ steady' = TRUE

\* Nothing moves while it transmits.
radio_dual_watch_poll == \E open \in BOOLEAN :
  /\ ~on_air
  /\ FocusBack \/ Holding(open) \/ Checking(open)
  /\ polled' = TRUE
  /\ UNCHANGED <<dw_active, dual_watch, on_air, dw_tick, dtmfVars>>

-----------------------------------------------------------------------------

Expired == dtmf_dec_buf # << >> /\ (dw_tick - dtmf_dec_last_ms) % DwTickMod >= DtmfTimeout

radio_dtmf_decode_poll ==
  /\ LET kept == IF on_air \/ Expired THEN << >> ELSE dtmf_dec_buf
     IN \E heard \in BOOLEAN :
          IF heard /\ ~on_air /\ Len(kept) < DtmfMax
          THEN /\ dtmf_dec_buf' = Append(kept, dw_rx_vfo)
               /\ dtmf_dec_last_ms' = dw_tick
          ELSE /\ dtmf_dec_buf' = kept
               /\ UNCHANGED dtmf_dec_last_ms
  /\ UNCHANGED <<dw_active, dual_watch, on_air, focusVars, dw_tick>>

\* The user: another VFO, the setting, the PTT.
Switched ==
  /\ \/ dw_active' = Other(dw_active) /\ UNCHANGED <<dual_watch, on_air>>
     \/ dual_watch' = ~dual_watch /\ UNCHANGED <<dw_active, on_air>>
  /\ steady' = FALSE /\ polled' = FALSE
  /\ UNCHANGED <<on_air, dw_rx_vfo, dw_signal_hold, quiet_polls, dw_tick, dtmfVars>>

Keyed ==
  /\ on_air' = ~on_air
  /\ UNCHANGED <<dw_active, dual_watch, focusVars, dw_tick, dtmfVars>>

DwClock ==
  /\ dw_tick' = (dw_tick + 1) % DwTickMod
  /\ UNCHANGED <<dw_active, dual_watch, on_air, focusVars, dtmfVars>>

DualNext ==
  \/ radio_dual_watch_poll \/ radio_dtmf_decode_poll
  \/ Switched \/ Keyed \/ DwClock

-----------------------------------------------------------------------------

(* Once polled, the focus is away from the active VFO only within the hold *)
(* of a signal heard there, and only HoldPolls polls beyond it; and unless *)
(* the VFO or the setting was changed during a hold, a hold is never spent *)
(* with the focus elsewhere.                                               *)
FocusFollowsSignal ==
  polled =>
    /\ dw_rx_vfo # dw_active => dw_signal_hold > 0 /\ quiet_polls < HoldPolls
    /\ steady /\ dual_watch /\ dw_signal_hold > 0 => dw_rx_vfo = Other(dw_active)
=============================================================================
