----------------------------- MODULE PttClients -----------------------------
(***************************************************************************)
(* Who keys the transmitter besides the PTT: app/vox.c and app/crossband.c,*)
(* over radio_ptt_on and radio_ptt_off, of which only the test of          *)
(* transmitting, the refusal and the mode of the chip are kept here        *)
(* (Radio.tla has the rest).  speaker_active has no writer: it is left out.*)
(***************************************************************************)
EXTENDS Integers

CONSTANTS
  VoxTickMod,   \* 2^32, get_tick
  VoxHang,      \* VOX_HANG_MS
  VoxPollGap,   \* bound: ticks between two calls of vox_poll
  HangTicks,    \* HANG_TIME_TICKS
  RelayTot      \* XBAND_TOT_SEC * 5

ASSUME PttAssumption ==
  /\ {VoxTickMod, VoxHang, VoxPollGap, HangTicks, RelayTot} \subseteq Nat \ {0}
  /\ VoxHang + VoxPollGap < VoxTickMod

VARIABLES
  keyed,        \* transmitting
  active_vfo,   \* A on chip 1, B on chip 0
  chip1_tx,     \* REG_30 of chip 1 enables the transmitter
  vox_level,    \* VOX is on
  vox_tx_active, vox_hang_start,
  mode, relaying, relay_seconds, hang_countdown,
  ptt_down,     \* environment
  now,          \* get_tick
  owner,        \* history: who keyed the transmission on the air
  unheard,      \* history: ticks since VOX last heard audio, capped
  vox_unpolled, \* ticks since vox_poll
  silent        \* history: polls in a row without a carrier to relay

radioVars == <<keyed, active_vfo, chip1_tx, owner>>
voxVars == <<vox_level, vox_tx_active, vox_hang_start, unheard>>
relayVars == <<mode, relaying, relay_seconds, hang_countdown, silent>>
pttVars == <<radioVars, voxVars, relayVars, ptt_down, now, vox_unpolled>>

Modes == {"OFF", "A_TO_B", "B_TO_A", "DUPLEX"}

PttTypeOK ==
  /\ {keyed, chip1_tx, vox_level, vox_tx_active, relaying, ptt_down} \subseteq BOOLEAN
  /\ active_vfo \in {"A", "B"} /\ mode \in Modes
  /\ vox_hang_start \in 0 .. VoxTickMod - 1 /\ now \in 0 .. VoxTickMod - 1
  /\ relay_seconds \in 0 .. RelayTot /\ hang_countdown \in 0 .. HangTicks
  /\ owner \in {"NONE", "PTT", "VOX", "RELAY"}

PttInit ==
  /\ keyed = FALSE /\ active_vfo = "A" /\ chip1_tx = FALSE /\ owner = "NONE"
  /\ vox_level = FALSE /\ vox_tx_active = FALSE /\ vox_hang_start = 0 /\ unheard = 0
  /\ mode = "OFF" /\ relaying = FALSE /\ relay_seconds = 0 /\ hang_countdown = 0
  /\ silent = 0
  /\ ptt_down = FALSE /\ now = 0 /\ vox_unpolled = 0

-----------------------------------------------------------------------------

\* radio_ptt_on: nothing when it transmits already, or when the busy lockout
\* or the band edges refuse; VOX writes REG_30 of chip 1 all the same.
radio_ptt_on(who, vfo) ==
  /\ \E refused \in BOOLEAN :
       IF keyed \/ refused
       THEN /\ UNCHANGED <<keyed, owner>>
            /\ chip1_tx' = (chip1_tx \/ who = "VOX")
       ELSE /\ keyed' = TRUE /\ owner' = who
            /\ chip1_tx' = (chip1_tx \/ who = "VOX" \/ vfo = "A")
  /\ active_vfo' = vfo

\* radio_ptt_off: the chip of the active VFO back to reception, and nothing
\* when it does not transmit; VOX puts chip 1 back by itself.
radio_ptt_off(who) ==
  /\ keyed' = FALSE
  /\ owner' = "NONE"
  /\ chip1_tx' = (chip1_tx /\ who # "VOX" /\ ~(keyed /\ active_vfo = "A"))
  /\ UNCHANGED active_vfo

Press ==
  /\ ~ptt_down /\ ptt_down' = TRUE
  /\ radio_ptt_on("PTT", active_vfo)
  /\ UNCHANGED <<voxVars, relayVars, now, vox_unpolled>>

LetGo ==
  /\ ptt_down /\ ptt_down' = FALSE
  /\ radio_ptt_off("PTT")
  /\ UNCHANGED <<voxVars, relayVars, now, vox_unpolled>>

\* radio_tot_poll at the limit.
TimeOut ==
  /\ keyed
  /\ radio_ptt_off("TOT")
  /\ UNCHANGED <<voxVars, relayVars, ptt_down, now, vox_unpolled>>

-----------------------------------------------------------------------------

\* Mutant of vox_set_level: switched off while it holds the transmitter.
vox_set_level_keeps ==
  /\ vox_level' = ~vox_level
  /\ vox_tx_active' = (vox_tx_active /\ vox_level')
  /\ UNCHANGED <<radioVars, vox_hang_start, unheard>>

\* vox_set_level between 0 and another: level 0 releases what VOX holds.
vox_set_level ==
  /\ vox_level' = ~vox_level
  /\ IF ~vox_level' /\ vox_tx_active
     THEN radio_ptt_off("VOX") /\ vox_tx_active' = FALSE
     ELSE UNCHANGED <<radioVars, vox_tx_active>>
  /\ UNCHANGED <<vox_hang_start, unheard>>

\* Audio: from the first on, VOX holds the transmitter, refused or not.
VoxHears ==
  /\ vox_hang_start' = now
  /\ unheard' = 0
  /\ vox_tx_active' = TRUE
  /\ IF vox_tx_active THEN UNCHANGED radioVars ELSE radio_ptt_on("VOX", active_vfo)

VoxSilent ==
  /\ IF vox_tx_active /\ (now - vox_hang_start) % VoxTickMod >= VoxHang
     THEN radio_ptt_off("VOX") /\ vox_tx_active' = FALSE
     ELSE UNCHANGED <<radioVars, vox_tx_active>>
  /\ UNCHANGED <<vox_hang_start, unheard>>

vox_poll ==
  /\ vox_unpolled' = 0
  /\ IF ~vox_level \/ (keyed /\ ~vox_tx_active)
     THEN UNCHANGED <<radioVars, vox_tx_active, vox_hang_start, unheard>>
     ELSE VoxHears \/ VoxSilent
  /\ UNCHANGED <<vox_level, relayVars, ptt_down, now>>

Vox ==
  \/ vox_poll
  \/ vox_set_level /\ UNCHANGED <<relayVars, ptt_down, now, vox_unpolled>>

Clock ==
  /\ vox_unpolled < VoxPollGap
  /\ vox_unpolled' = vox_unpolled + 1
  /\ now' = (now + 1) % VoxTickMod
  /\ unheard' = IF vox_tx_active /\ unheard <= VoxHang + VoxPollGap
                THEN unheard + 1 ELSE unheard
  /\ UNCHANGED <<radioVars, vox_level, vox_tx_active, vox_hang_start, relayVars, ptt_down>>

-----------------------------------------------------------------------------

\* The direction: duplex takes the side with a carrier, B first.
RxTx(open) ==
  CASE mode = "A_TO_B" -> {<<"A", "B">>}
    [] mode = "B_TO_A" -> {<<"B", "A">>}
    [] mode = "DUPLEX" /\ "B" \in open -> {<<"B", "A">>}
    [] mode = "DUPLEX" /\ "B" \notin open /\ "A" \in open -> {<<"A", "B">>}
    [] OTHER -> {}

EndRelay ==
  /\ radio_ptt_off("RELAY")
  /\ relaying' = FALSE /\ relay_seconds' = 0

\* A poll while relaying: a carrier restarts the hang time and counts towards
\* the limit, its absence eats the hang time.
Relay(carrier) ==
  IF carrier
  THEN /\ hang_countdown' = HangTicks
       /\ silent' = 0
       /\ IF relay_seconds + 1 >= RelayTot THEN EndRelay
          ELSE /\ relay_seconds' = relay_seconds + 1
               /\ UNCHANGED <<radioVars, relaying>>
  ELSE /\ silent' = silent + 1
       /\ IF hang_countdown > 0
          THEN /\ hang_countdown' = hang_countdown - 1
               /\ UNCHANGED <<radioVars, relaying, relay_seconds>>
          ELSE EndRelay /\ UNCHANGED hang_countdown

\* A carrier opens the other side, when its transmission is allowed.
StartRelay(tx) ==
  /\ radio_ptt_on("RELAY", tx)
  /\ relaying' = TRUE /\ relay_seconds' = 0
  /\ hang_countdown' = HangTicks
  /\ silent' = 0

crossband_poll == \E open \in SUBSET {"A", "B"}, allowed \in BOOLEAN :
  /\ mode # "OFF"
  /\ relaying \/ ~keyed
  /\ LET heard == {d \in RxTx(open) : d[1] \in open}
     IN \/ relaying /\ Relay(heard # {})
        \/ ~relaying /\ allowed /\ \E d \in heard : StartRelay(d[2])
  /\ UNCHANGED <<voxVars, mode, ptt_down, now, vox_unpolled>>

crossband_set_mode == \E m \in Modes \ {mode} :
  /\ IF relaying THEN radio_ptt_off("RELAY") ELSE UNCHANGED radioVars
  /\ mode' = m
  /\ relaying' = FALSE /\ relay_seconds' = 0 /\ hang_countdown' = 0 /\ silent' = 0
  /\ UNCHANGED <<voxVars, ptt_down, now, vox_unpolled>>

PttNext ==
  \/ Press \/ LetGo \/ TimeOut
  \/ Vox \/ Clock
  \/ crossband_poll \/ crossband_set_mode

-----------------------------------------------------------------------------

(* Whatever keyed the transmitter still holds it and will let go: the PTT  *)
(* is down; or VOX is active and has heard audio within its hang time; or  *)
(* the relay is on, below its limit and within its hang time.  And chip 1  *)
(* never stays in transmission behind the back of both.                    *)
TransmitterIsHeld ==
  /\ owner = "PTT" => ptt_down
  /\ owner = "VOX" => vox_level /\ vox_tx_active /\ unheard <= VoxHang + VoxPollGap
  /\ owner = "RELAY" => /\ relaying /\ mode # "OFF"
                        /\ relay_seconds < RelayTot
                        /\ silent <= HangTicks
  /\ keyed <=> owner # "NONE"
  /\ chip1_tx => keyed \/ vox_tx_active
=============================================================================
