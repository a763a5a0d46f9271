---------------------------- MODULE DeviceProofs ----------------------------
(* Proofs about the parts of Device.  A step of the device is a step of    *)
(* one part and leaves the variables of the others alone, so an invariant  *)
(* of a part that its own steps preserve is one of the device.             *)
EXTENDS Device, LinkProofs

-----------------------------------------------------------------------------
(* The keypad. *)

(* A key is held to be down for no longer than the debouncer has counted   *)
(* reads that disagree.                                                    *)
KeypadInv ==
  /\ db_count \in 0 .. DebounceCount - 1
  /\ quiet \in Nat
  /\ pressed \subseteq {prev_key} \ {NoKey}
  /\ prev_key # NoKey => quiet <= db_count

(* With no key down the scan finds none.                                   *)
LEMMA NothingDown == keypad_scan({}) = NoKey
<1>1. \A c \in Columns : LowRows(c, {}) = {}
  BY DEF LowRows
<1>2. Cardinality({}) = 0
  BY FS_EmptySet
<1>3. {c \in Columns : Cardinality(LowRows(c, {})) = 1} = {}
  BY <1>1, <1>2
<1> QED
  BY <1>3 DEF keypad_scan

LEMMA KeypadInvInit == ASSUME KeypadInit PROVE KeypadInv
BY KeypadAssumption DEF KeypadInit, KeypadInv

LEMMA KeypadInvStep == ASSUME KeypadInv, KeypadNext PROVE KeypadInv'
<1> PICK down \in SUBSET Keys :
      /\ keypad_get_event(keypad_scan(down))
      /\ pressed' = CASE key_event'.type = "PRESS" -> pressed \cup {key_event'.key}
                      [] key_event'.type = "RELEASE" -> pressed \ {key_event'.key}
                      [] OTHER -> pressed
      /\ quiet' = IF down # {} THEN 0
                  ELSE IF quiet < DebounceCount THEN quiet + 1 ELSE quiet
  BY DEF KeypadNext, KeypadPoll
<1> DEFINE raw == keypad_scan(down)
<1>1. down = {} => raw = NoKey
  BY NothingDown
<1> HIDE DEF raw
<1> USE KeypadAssumption DEF KeypadInv, Event, NoKeyEvent
<1>2. CASE raw # NoKey /\ raw = prev_key /\ Held
  BY <1>1, <1>2 DEF Held
<1>3. CASE raw # prev_key /\ db_count + 1 >= DebounceCount /\ Accept(raw)
  <2>1. db_count' = 0 /\ prev_key' = raw
    BY <1>3 DEF Accept
  <2>2. CASE prev_key # NoKey
    <3>1. key_event' = [type |-> "RELEASE", key |-> prev_key]
      BY <1>3, <2>2 DEF Accept
    <3>2. pressed' = pressed \ {prev_key}
      BY <3>1
    <3> QED
      BY <1>1, <2>1, <3>2
  <2>3. CASE prev_key = NoKey
    <3>1. key_event' = [type |-> "PRESS", key |-> raw]
      BY <1>3, <2>3 DEF Accept
    <3>2. pressed' = pressed \cup {raw}
      BY <3>1
    <3> QED
      BY <1>1, <1>3, <2>1, <2>3, <3>2
  <2> QED
    BY <2>2, <2>3
<1>4. CASE raw # prev_key /\ db_count + 1 < DebounceCount /\ Differs(raw)
  BY <1>1, <1>4 DEF Differs
<1>5. CASE raw = NoKey /\ prev_key = NoKey /\ Idle
  BY <1>1, <1>5 DEF Idle
<1>6. \/ raw # NoKey /\ raw = prev_key /\ Held
      \/ raw # prev_key /\ Differs(raw)
      \/ raw = NoKey /\ prev_key = NoKey /\ Idle
  BY DEF keypad_get_event, raw
<1> QED
  BY <1>2, <1>3, <1>4, <1>5, <1>6 DEF Differs

LEMMA KeypadInvImplies == ASSUME KeypadInv PROVE PressesAreReleased
BY KeypadAssumption DEF KeypadInv, PressesAreReleased

-----------------------------------------------------------------------------
(* The knob. *)

(* The position behind the last accepted levels, and the fraction kept.    *)
EncoderInv ==
  /\ shaft \in Int /\ settled \in Int /\ detents \in Int
  /\ accum \in 1 - StepsPerDetent .. StepsPerDetent - 1
  /\ DetentsFollowShaft

(* Neighbours differ, and the table gives the direction between them.      *)
LEMMA TableKnowsDirection ==
  ASSUME NEW p \in Int, NEW d \in {-1, 1}
  PROVE  QuadTable(Gray(p), Gray(p + d)) = d
<1>1. p % 4 \in 0 .. 3
  OBVIOUS
<1>2. (p + 1) % 4 = IF p % 4 = 3 THEN 0 ELSE (p % 4) + 1
  OBVIOUS
<1>3. (p - 1) % 4 = IF p % 4 = 0 THEN 3 ELSE (p % 4) - 1
  OBVIOUS
<1>4. /\ Gray(0) = 0 /\ Gray(1) = 1 /\ Gray(2) = 3 /\ Gray(3) = 2 /\ Gray(4) = 0
  BY DEF Gray
<1>5. 0 .. 3 = {0, 1, 2, 3} /\ 0 + 1 = 1 /\ 1 + 1 = 2 /\ 2 + 1 = 3 /\ 3 + 1 = 4
  OBVIOUS
<1>6. ASSUME NEW a, NEW b
      PROVE  /\ (\E q \in 0 .. 3 : a = Gray(q) /\ b = Gray(q + 1)) <=>
                  <<a, b>> \in {<<0, 1>>, <<1, 3>>, <<3, 2>>, <<2, 0>>}
             /\ (\E q \in 0 .. 3 : a = Gray(q + 1) /\ b = Gray(q)) <=>
                  <<a, b>> \in {<<1, 0>>, <<3, 1>>, <<2, 3>>, <<0, 2>>}
  BY <1>4, <1>5
<1>7. CASE d = 1
  <2>1. <<Gray(p), Gray(p + d)>> \in {<<0, 1>>, <<1, 3>>, <<3, 2>>, <<2, 0>>}
    BY <1>1, <1>2, <1>7 DEF Gray
  <2> QED
    BY <1>6, <1>7, <2>1 DEF QuadTable
<1>8. CASE d = -1
  <2>1. <<Gray(p), Gray(p + d)>> \in {<<1, 0>>, <<3, 1>>, <<2, 3>>, <<0, 2>>}
    BY <1>1, <1>3, <1>8 DEF Gray
  <2>2. <<Gray(p), Gray(p + d)>> \notin {<<0, 1>>, <<1, 3>>, <<3, 2>>, <<2, 0>>}
    BY <2>1
  <2> QED
    BY <1>6, <1>8, <2>1, <2>2 DEF QuadTable
<1> QED
  BY <1>7, <1>8

LEMMA EncoderInvInit == ASSUME EncoderInit PROVE EncoderInv
BY EncoderAssumption DEF EncoderInit, EncoderInv, DetentsFollowShaft

(* A detent is taken from the fraction when it is full.                    *)
LEMMA AccumulateKeepsSum ==
  ASSUME NEW d \in {-1, 0, 1}, EncoderInv, Accumulate(d)
  PROVE  /\ detents' \in Int
         /\ accum' \in 1 - StepsPerDetent .. StepsPerDetent - 1
         /\ StepsPerDetent * detents' + accum' = StepsPerDetent * detents + accum + d
<1> USE EncoderAssumption DEF EncoderInv
<1>1. /\ StepsPerDetent * (detents + 1) = StepsPerDetent * detents + StepsPerDetent
      /\ StepsPerDetent * (detents - 1) = StepsPerDetent * detents - StepsPerDetent
  OBVIOUS
<1>2. CASE accum + d >= StepsPerDetent
  BY <1>1, <1>2 DEF Accumulate
<1>3. CASE accum + d <= -StepsPerDetent
  BY <1>1, <1>3 DEF Accumulate
<1>4. CASE accum + d < StepsPerDetent /\ accum + d > -StepsPerDetent
  BY <1>4 DEF Accumulate
<1> QED
  BY <1>2, <1>3, <1>4

LEMMA EncoderInvStep == ASSUME EncoderInv, EncoderNext PROVE EncoderInv'
<1> USE EncoderAssumption
<1>1. CASE Turn
  <2>1. ~outran /\ (~outran' => shaft' - settled \in -1 .. 1)
    BY <1>1, Zenon DEF Turn
  <2>2. \E d \in {-1, 1} : shaft' = shaft + d
    BY <1>1 DEF Turn
  <2>3. UNCHANGED <<prev_state, accum, settled, detents>>
    BY <1>1 DEF Turn
  <2> QED
    BY <2>1, <2>2, <2>3 DEF EncoderInv, DetentsFollowShaft
<1>2. CASE encoder_poll
  <2> PICK p \in {shaft, settled} : Bounced(p) \/ Stable(p)
    BY <1>2 DEF encoder_poll
  <2>1. UNCHANGED <<shaft, outran>> /\ p \in Int
    BY <1>2 DEF encoder_poll, EncoderInv
  <2>2. CASE UNCHANGED <<prev_state, accum, settled, detents>>
    BY <2>1, <2>2 DEF EncoderInv, DetentsFollowShaft
  <2>3. CASE /\ Gray(p) # prev_state /\ prev_state' = Gray(p) /\ settled' = p
             /\ Accumulate(QuadTable(prev_state, Gray(p)))
    <3> DEFINE d == QuadTable(prev_state, Gray(p))
    <3>1. d \in {-1, 0, 1}
      BY DEF QuadTable
    <3>2. /\ detents' \in Int
          /\ accum' \in 1 - StepsPerDetent .. StepsPerDetent - 1
          /\ StepsPerDetent * detents' + accum' = StepsPerDetent * detents + accum + d
      <4> HIDE DEF d
      <4>1. Accumulate(d)
        BY <2>3 DEF d
      <4> QED
        BY <3>1, <4>1, AccumulateKeepsSum
    <3>3. ASSUME ~outran
          PROVE  p = shaft /\ d = shaft - settled
      <4>1. /\ prev_state = Gray(settled) /\ shaft - settled \in -1 .. 1
            /\ shaft \in Int /\ settled \in Int
        BY <3>3 DEF EncoderInv, DetentsFollowShaft
      <4>2. p = shaft /\ shaft # settled
        BY <2>3, <4>1
      <4>3. shaft - settled \in {-1, 1} /\ shaft = settled + (shaft - settled)
        BY <4>1, <4>2
      <4>4. QuadTable(Gray(settled), Gray(settled + (shaft - settled))) = shaft - settled
        BY <4>1, <4>3, TableKnowsDirection
      <4> QED
        BY <4>1, <4>2, <4>3, <4>4
    <3> HIDE DEF d
    <3>4. ASSUME ~outran
          PROVE  StepsPerDetent * detents + accum = settled
      BY <3>4 DEF EncoderInv, DetentsFollowShaft
    <3>5. ASSUME ~outran
          PROVE  /\ StepsPerDetent * detents' + accum' = settled'
                 /\ prev_state' = Gray(settled') /\ shaft' - settled' \in -1 .. 1
      <4>1. p = shaft /\ d = shaft - settled /\ settled' = p /\ shaft' = shaft
        BY <2>1, <2>3, <3>3, <3>5
      <4>2. settled \in Int /\ shaft \in Int
        BY DEF EncoderInv
      <4>3. StepsPerDetent * detents' + accum' = settled'
        <5>1. StepsPerDetent * detents + accum + d = settled + d
          BY <3>4, <3>5, Zenon
        <5>2. settled + d = settled'
          BY <4>1, <4>2
        <5> QED
          BY <3>2, <5>1, <5>2, Zenon
      <4>4. prev_state' = Gray(settled')
        BY <2>3
      <4> QED
        BY <4>1, <4>2, <4>3, <4>4
    <3>6. shaft' \in Int /\ settled' \in Int
      BY <2>1, <2>3 DEF EncoderInv
    <3>7. outran' = outran
      BY <2>1
    <3>8. DetentsFollowShaft'
      BY <3>5, <3>7 DEF DetentsFollowShaft
    <3> QED
      BY <3>2, <3>6, <3>8 DEF EncoderInv
  <2> QED
    BY <2>2, <2>3 DEF Bounced, Stable
<1> QED
  BY <1>1, <1>2 DEF EncoderNext

-----------------------------------------------------------------------------
(* Power. *)

(* The count of the switch is that of its reads, and no idle time has      *)
(* passed its limit while the radio is on.                                 *)
PowerInv ==
  /\ held_count \in Nat /\ off_reads \in Nat
  /\ idle_seconds \in Nat /\ keylock_idle \in Nat /\ calm \in Nat
  /\ auto_off_minutes \in AutoOffMinutes \cup {0}
  /\ held_count = off_reads
  /\ calm <= MaxQuiet
  /\ power = "ON" /\ auto_off_minutes # 0 => idle_seconds < auto_off_minutes * Minute
  /\ ~keypad_lock => keylock_idle < KeylockSeconds
  /\ OffOnlyWhenAsked

LEMMA PowerInvInit == ASSUME PowerInit PROVE PowerInv
BY PowerAssumption DEF PowerInit, PowerInv, OffOnlyWhenAsked

LEMMA PowerInvStep == ASSUME PowerInv, PowerNext PROVE PowerInv'
<1> USE PowerAssumption DEF PowerInv, OffOnlyWhenAsked, timerVars
<1>1. CASE power_button_poll
  <2>1. CASE switch_on
    BY <1>1, <2>1 DEF power_button_poll, SwitchOnRead, StaysOn
  <2>2. CASE ~switch_on /\ held_count + 1 >= LongPress
    BY <1>1, <2>2 DEF power_button_poll, SwitchOffRead, power_off
  <2>3. CASE ~switch_on /\ held_count + 1 < LongPress
    BY <1>1, <2>3 DEF power_button_poll, SwitchOffRead, StaysOn
  <2> QED
    BY <2>1, <2>2, <2>3
<1>2. CASE power_poll
  <2>1. /\ calm' = IF calm < MaxQuiet THEN calm + 1 ELSE calm
        /\ idle_seconds' = IF auto_off_minutes = 0 THEN idle_seconds ELSE idle_seconds + 1
        /\ UNCHANGED <<held_count, auto_off_minutes, wake_pending, off_reads, turned_on>>
        /\ power = "ON"
    BY <1>2 DEF power_poll
  <2>2. auto_off_minutes # 0 => /\ auto_off_minutes * Minute \in Nat
                                /\ auto_off_minutes * Minute <= MaxQuiet
    OBVIOUS
  <2>3. calm' \in Nat /\ calm' <= MaxQuiet /\ idle_seconds' \in Nat
    BY <2>1
  <2>4. idle_seconds' <= calm' /\ keylock_idle <= calm'
    BY <2>1, <2>2
  <2>5. CASE auto_off_minutes # 0 /\ idle_seconds' >= auto_off_minutes * Minute
    BY <1>2, <2>1, <2>2, <2>3, <2>4, <2>5 DEF power_poll, power_off
  <2>6. CASE ~(auto_off_minutes # 0 /\ idle_seconds' >= auto_off_minutes * Minute)
    <3>1. /\ UNCHANGED power
          /\ keylock_idle' = IF auto_lock /\ ~keypad_lock THEN keylock_idle + 1
                             ELSE keylock_idle
          /\ keypad_lock' = (keypad_lock \/ ((auto_lock /\ ~keypad_lock)
                                              /\ keylock_idle' >= KeylockSeconds))
      BY <1>2, <2>6 DEF power_poll, StaysOn
    <3>2. keylock_idle' \in Nat /\ keylock_idle' <= calm'
      BY <2>1, <3>1
    <3>3. ~keypad_lock' => ~keypad_lock /\ (auto_lock => ~(keylock_idle' >= KeylockSeconds))
      BY <3>1, Zenon
    <3>4. ~keypad_lock' => keylock_idle' < KeylockSeconds
      BY <3>1, <3>2, <3>3
    <3> QED
      BY <2>1, <2>2, <2>3, <2>4, <2>6, <3>1, <3>2, <3>4
  <2> QED
    BY <2>5, <2>6
<1>3. CASE Activity
  <2>1. \A m \in AutoOffMinutes : m # 0 => 0 < m * Minute
    OBVIOUS
  <2>2. /\ power = "ON" /\ calm' = 0 /\ idle_seconds' = 0 /\ keylock_idle' = 0
        /\ UNCHANGED <<power, held_count, wake_pending, off_reads, turned_on>>
        /\ UNCHANGED auto_off_minutes \/ auto_off_minutes' \in AutoOffMinutes
    BY <1>3 DEF Activity
  <2>3. /\ auto_off_minutes' \in AutoOffMinutes \cup {0}
        /\ auto_off_minutes' # 0 => 0 < auto_off_minutes' * Minute
    BY <2>1, <2>2
  <2> QED
    BY <2>2, <2>3
<1>4. CASE RailDrops \/ ArmWakeUp
  BY <1>4 DEF RailDrops, ArmWakeUp
<1>5. CASE Wfi \/ PowerUp \/ Watchdog
  BY <1>5 DEF Wfi, PowerUp, Watchdog, Boot
<1>6. CASE Switch
  BY <1>6 DEF Switch
<1> QED
  BY <1>1, <1>2, <1>3, <1>4, <1>5, <1>6 DEF PowerNext

-----------------------------------------------------------------------------
(* The owners of the transmitter. *)

(* What the owner on the air rests on, and chip 1 behind the backs of both.*)
OwnerInv ==
  /\ owner \in {"NONE", "PTT", "VOX", "RELAY"}
  /\ owner = "PTT" => ptt_down
  /\ owner = "VOX" => vox_tx_active
  /\ owner = "RELAY" => relaying
  /\ keyed <=> owner # "NONE"
  /\ chip1_tx => vox_tx_active \/ (keyed /\ active_vfo = "A")

(* The hang time has run for as long as VOX has heard nothing, across the  *)
(* wrap of the tick.                                                       *)
VoxInv ==
  /\ now \in 0 .. VoxTickMod - 1 /\ vox_hang_start \in 0 .. VoxTickMod - 1
  /\ unheard \in Nat /\ vox_unpolled \in 0 .. VoxPollGap
  /\ vox_tx_active =>
       /\ vox_level
       /\ unheard <= VoxHang - 1 + vox_unpolled
       /\ now = vox_hang_start + unheard \/ now = vox_hang_start + unheard - VoxTickMod

(* The silence and what is left of the hang time add up.                   *)
RelayInv ==
  /\ relay_seconds \in Nat /\ hang_countdown \in Nat /\ silent \in Nat
  /\ relaying => /\ mode # "OFF"
                 /\ relay_seconds < RelayTot
                 /\ silent + hang_countdown = HangTicks

PttInv == OwnerInv /\ VoxInv /\ RelayInv

LEMMA KeyedOn ==
  ASSUME NEW who \in {"PTT", "VOX", "RELAY"}, NEW vfo, radio_ptt_on(who, vfo)
  PROVE  /\ active_vfo' = vfo
         /\ \/ /\ keyed' = keyed /\ owner' = owner
               /\ chip1_tx' => chip1_tx \/ who = "VOX"
            \/ /\ ~keyed /\ keyed' /\ owner' = who
               /\ chip1_tx' => chip1_tx \/ who = "VOX" \/ vfo = "A"
<1> PICK refused \in BOOLEAN :
      IF keyed \/ refused
      THEN /\ UNCHANGED <<keyed, owner>>
           /\ chip1_tx' = (chip1_tx \/ who = "VOX")
      ELSE /\ keyed' = TRUE /\ owner' = who
           /\ chip1_tx' = (chip1_tx \/ who = "VOX" \/ vfo = "A")
  BY DEF radio_ptt_on
<1>1. active_vfo' = vfo
  BY DEF radio_ptt_on
<1>2. CASE keyed \/ refused
  BY <1>1, <1>2, Zenon
<1>3. CASE ~(keyed \/ refused)
  BY <1>1, <1>3, Zenon
<1> QED
  BY <1>2, <1>3

LEMMA KeyedOff ==
  ASSUME NEW who, radio_ptt_off(who)
  PROVE  /\ ~keyed' /\ owner' = "NONE"
         /\ chip1_tx' => chip1_tx /\ who # "VOX" /\ ~(keyed /\ active_vfo = "A")
BY Zenon DEF radio_ptt_off

(* With nobody on the air, chip 1 transmits only for VOX.                  *)
LEMMA OwnerAfterOff ==
  ASSUME OwnerInv, NEW who, radio_ptt_off(who),
         vox_tx_active' = vox_tx_active \/ who = "VOX"
  PROVE  OwnerInv'
<1>1. /\ ~keyed' /\ owner' = "NONE"
      /\ chip1_tx' => chip1_tx /\ who # "VOX" /\ ~(keyed /\ active_vfo = "A")
  BY KeyedOff
<1>2. chip1_tx' => vox_tx_active'
  BY <1>1 DEF OwnerInv
<1> QED
  BY <1>1, <1>2 DEF OwnerInv

(* The hang time as VOX computes it.                                       *)
LEMMA HangTime ==
  ASSUME NEW a \in 0 .. VoxTickMod - 1, NEW b \in 0 .. VoxTickMod - 1,
         NEW u \in Nat, u < VoxTickMod, a = b + u \/ a = b + u - VoxTickMod
  PROVE  (a - b) % VoxTickMod = u
BY PttAssumption

(* The tick steps by one and wraps.                                        *)
LEMMA NextTick ==
  ASSUME NEW a \in 0 .. VoxTickMod - 1
  PROVE  (a + 1) % VoxTickMod = IF a + 1 = VoxTickMod THEN 0 ELSE a + 1
BY PttAssumption

LEMMA PttInvInit == ASSUME PttInit PROVE PttInv
BY PttAssumption DEF PttInit, PttInv, OwnerInv, VoxInv, RelayInv

(* A step that leaves the clock and VOX alone keeps what is known of them. *)
LEMMA VoxInvKept ==
  ASSUME VoxInv, UNCHANGED <<voxVars, now, vox_unpolled>>
  PROVE  VoxInv'
BY DEF VoxInv, voxVars

LEMMA RelayInvKept == ASSUME RelayInv, UNCHANGED relayVars PROVE RelayInv'
BY DEF RelayInv, relayVars

(* A transmission that PTT, VOX or the relay starts is held by it.         *)
LEMMA RelayConstants == HangTicks \in Nat \ {0} /\ RelayTot \in Nat \ {0}
BY PttAssumption

LEMMA OwnerAfterOn ==
  ASSUME OwnerInv, NEW who \in {"PTT", "VOX", "RELAY"}, NEW vfo,
         radio_ptt_on(who, vfo), vfo = active_vfo \/ ~keyed,
         owner = "PTT" => ptt_down', owner = "RELAY" => relaying',
         vox_tx_active => vox_tx_active',
         who = "PTT" => ptt_down', who = "VOX" => vox_tx_active',
         who = "RELAY" => relaying'
  PROVE  OwnerInv'
<1>1. /\ active_vfo' = vfo
      /\ \/ /\ keyed' = keyed /\ owner' = owner
            /\ chip1_tx' => chip1_tx \/ who = "VOX"
         \/ /\ ~keyed /\ keyed' /\ owner' = who
            /\ chip1_tx' => chip1_tx \/ who = "VOX" \/ vfo = "A"
  BY KeyedOn
<1>2. CASE /\ keyed' = keyed /\ owner' = owner
           /\ chip1_tx' => chip1_tx \/ who = "VOX"
  <2>1. chip1_tx' => vox_tx_active' \/ (keyed' /\ active_vfo' = "A")
    BY <1>1, <1>2 DEF OwnerInv
  <2> QED
    BY <1>2, <2>1 DEF OwnerInv
<1>3. CASE /\ ~keyed /\ keyed' /\ owner' = who
           /\ chip1_tx' => chip1_tx \/ who = "VOX" \/ vfo = "A"
  <2>1. chip1_tx' => vox_tx_active' \/ (keyed' /\ active_vfo' = "A")
    BY <1>1, <1>3 DEF OwnerInv
  <2> QED
    BY <1>3, <2>1 DEF OwnerInv
<1> QED
  BY <1>1, <1>2, <1>3

LEMMA PttInvStep == ASSUME PttInv, PttNext PROVE PttInv'
<1> USE DEF PttInv
<1>1. CASE Press
  <2>1. UNCHANGED <<voxVars, relayVars, now, vox_unpolled>> /\ ptt_down'
    BY <1>1 DEF Press
  <2>2. OwnerInv'
    BY <1>1, <2>1, OwnerAfterOn DEF Press, OwnerInv, voxVars, relayVars
  <2> QED
    BY <2>1, <2>2, VoxInvKept, RelayInvKept
<1>2. CASE LetGo \/ TimeOut
  <2>1. UNCHANGED <<voxVars, relayVars, now, vox_unpolled>>
    BY <1>2 DEF LetGo, TimeOut
  <2>2. \E who \in {"PTT", "TOT"} : radio_ptt_off(who)
    BY <1>2 DEF LetGo, TimeOut
  <2>3. OwnerInv'
    BY <2>1, <2>2, OwnerAfterOff DEF voxVars
  <2> QED
    BY <2>1, <2>3, VoxInvKept, RelayInvKept
<1>3. CASE vox_set_level /\ UNCHANGED <<relayVars, ptt_down, now, vox_unpolled>>
  <2>1. CASE vox_tx_active
    <3>1. radio_ptt_off("VOX") /\ ~vox_tx_active'
      BY <1>3, <2>1 DEF vox_set_level, VoxInv
    <3>2. OwnerInv'
      BY <1>3, <3>1, KeyedOff DEF OwnerInv
    <3>3. UNCHANGED <<vox_hang_start, unheard, now, vox_unpolled, relayVars>>
      BY <1>3 DEF vox_set_level
    <3> QED
      BY <3>1, <3>2, <3>3, RelayInvKept DEF VoxInv
  <2>2. CASE ~vox_tx_active
    <3>1. /\ UNCHANGED <<radioVars, vox_tx_active, relayVars, ptt_down>>
          /\ UNCHANGED <<vox_hang_start, unheard, now, vox_unpolled>>
      BY <1>3, <2>2 DEF vox_set_level
    <3> QED
      BY <2>2, <3>1, RelayInvKept DEF OwnerInv, VoxInv, radioVars, relayVars
  <2> QED
    BY <2>1, <2>2
<1>4. CASE vox_poll
  <2>1. vox_unpolled' = 0 /\ UNCHANGED <<vox_level, relayVars, ptt_down, now>>
    BY <1>4 DEF vox_poll
  <2>2. RelayInv'
    BY <2>1, RelayInvKept
  <2>3. CASE /\ ~vox_level \/ (keyed /\ ~vox_tx_active)
             /\ UNCHANGED <<radioVars, vox_tx_active, vox_hang_start, unheard>>
    <3>1. ~vox_tx_active
      BY <2>3 DEF VoxInv
    <3> QED
      BY <2>1, <2>2, <2>3, <3>1, PttAssumption DEF OwnerInv, VoxInv, radioVars, relayVars
  <2>4. CASE vox_level /\ VoxHears
    <3>1. /\ vox_hang_start' = now /\ unheard' = 0 /\ vox_tx_active'
          /\ UNCHANGED radioVars \/ radio_ptt_on("VOX", active_vfo)
      BY <2>4 DEF VoxHears
    <3>2. OwnerInv'
      <4>1. CASE UNCHANGED radioVars
        BY <2>1, <3>1, <4>1 DEF OwnerInv, radioVars, relayVars
      <4>2. CASE radio_ptt_on("VOX", active_vfo)
        BY <2>1, <3>1, <4>2, OwnerAfterOn DEF OwnerInv, relayVars
      <4> QED
        BY <3>1, <4>1, <4>2
    <3>3. VoxInv'
      BY <2>1, <2>4, <3>1, PttAssumption DEF VoxInv
    <3> QED
      BY <2>2, <3>2, <3>3
  <2>5. CASE VoxSilent
    <3>1. UNCHANGED <<vox_hang_start, unheard, vox_level, now>>
      BY <2>1, <2>5 DEF VoxSilent
    <3>2. CASE radio_ptt_off("VOX") /\ ~vox_tx_active'
      <4>1. OwnerInv'
        BY <2>1, <3>2, KeyedOff DEF OwnerInv
      <4>2. VoxInv'
        BY <2>1, <3>1, <3>2, PttAssumption DEF VoxInv
      <4> QED
        BY <2>2, <4>1, <4>2
    <3>3. CASE /\ ~(vox_tx_active /\ (now - vox_hang_start) % VoxTickMod >= VoxHang)
               /\ UNCHANGED <<radioVars, vox_tx_active>>
      <4>1. vox_tx_active => unheard <= VoxHang - 1
        <5> SUFFICES ASSUME vox_tx_active PROVE unheard <= VoxHang - 1
          OBVIOUS
        <5>1. unheard < VoxTickMod
          BY PttAssumption DEF VoxInv
        <5>2. (now - vox_hang_start) % VoxTickMod = unheard
          BY <5>1, HangTime DEF VoxInv
        <5> QED
          BY <3>3, <5>2, PttAssumption DEF VoxInv
      <4>2. VoxInv'
        BY <2>1, <3>1, <3>3, <4>1, PttAssumption DEF VoxInv
      <4>3. OwnerInv'
        BY <2>1, <3>3 DEF OwnerInv, radioVars, relayVars
      <4> QED
        BY <2>2, <4>2, <4>3
    <3> QED
      BY <2>5, <3>2, <3>3 DEF VoxSilent
  <2> QED
    BY <1>4, <2>3, <2>4, <2>5 DEF vox_poll
<1>5. CASE Clock
  <2>1. /\ vox_unpolled < VoxPollGap /\ vox_unpolled' = vox_unpolled + 1
        /\ now' = (now + 1) % VoxTickMod
        /\ unheard' = IF vox_tx_active /\ unheard <= VoxHang + VoxPollGap
                      THEN unheard + 1 ELSE unheard
        /\ UNCHANGED <<radioVars, vox_level, vox_tx_active, vox_hang_start, relayVars, ptt_down>>
    BY <1>5 DEF Clock
  <2>2. now' = IF now + 1 = VoxTickMod THEN 0 ELSE now + 1
    BY <2>1, NextTick DEF VoxInv
  <2>3. VoxInv'
    BY <2>1, <2>2, PttAssumption DEF VoxInv
  <2>4. OwnerInv'
    BY <2>1 DEF OwnerInv, radioVars, relayVars
  <2> QED
    BY <2>1, <2>3, <2>4, RelayInvKept
<1>6. CASE crossband_poll
  <2>1. /\ mode # "OFF"
        /\ relaying \/ ~keyed
        /\ UNCHANGED <<voxVars, mode, ptt_down, now, vox_unpolled>>
    BY <1>6 DEF crossband_poll
  <2>2. VoxInv' /\ UNCHANGED vox_tx_active
    BY <2>1, VoxInvKept DEF voxVars
  <2>3. ASSUME NEW carrier \in BOOLEAN, relaying, Relay(carrier)
        PROVE  OwnerInv' /\ RelayInv'
    <3>1. CASE EndRelay
      <4>1. OwnerInv'
        BY <2>2, <3>1, OwnerAfterOff DEF EndRelay
      <4>2. ~relaying' /\ relay_seconds' = 0
        BY <3>1 DEF EndRelay
      <4>3. hang_countdown' \in Nat /\ silent' \in Nat
        <5>1. CASE carrier
          BY <2>3, <5>1, RelayConstants DEF Relay
        <5>2. CASE ~carrier
          <6>1. /\ silent' = silent + 1
                /\ hang_countdown' = IF hang_countdown > 0 THEN hang_countdown - 1
                                     ELSE hang_countdown
            BY <2>3, <5>2 DEF Relay
          <6> QED
            BY <6>1 DEF RelayInv
        <5> QED
          BY <5>1, <5>2
      <4> QED
        BY <4>1, <4>2, <4>3 DEF RelayInv
    <3>2. CASE UNCHANGED <<radioVars, relaying>>
      <4>1. OwnerInv'
        BY <2>1, <2>2, <3>2 DEF OwnerInv, radioVars
      <4>2. RelayInv'
        BY <2>1, <2>3, <3>2, PttAssumption DEF Relay, EndRelay, RelayInv
      <4> QED
        BY <4>1, <4>2
    <3> QED
      BY <2>3, <3>1, <3>2 DEF Relay
  <2>4. ASSUME NEW vfo, ~relaying, StartRelay(vfo)
        PROVE  OwnerInv' /\ RelayInv'
    <3>1. /\ radio_ptt_on("RELAY", vfo) /\ relaying' /\ relay_seconds' = 0
          /\ hang_countdown' = HangTicks /\ silent' = 0
      BY <2>4 DEF StartRelay
    <3>2. OwnerInv'
      BY <2>1, <2>2, <2>4, <3>1, OwnerAfterOn DEF OwnerInv
    <3>3. RelayInv'
      <4>1. /\ mode' # "OFF" /\ relay_seconds' = 0
            /\ hang_countdown' = HangTicks /\ silent' = 0
        BY <2>1, <3>1
      <4>2. /\ relay_seconds' \in Nat /\ hang_countdown' \in Nat /\ silent' \in Nat
            /\ relay_seconds' < RelayTot /\ silent' + hang_countdown' = HangTicks
        BY <4>1, RelayConstants
      <4> QED
        BY <4>1, <4>2 DEF RelayInv
    <3> QED
      BY <3>2, <3>3
  <2> QED
    BY <1>6, <2>2, <2>3, <2>4 DEF crossband_poll
<1>7. CASE crossband_set_mode
  <2>1. /\ IF relaying THEN radio_ptt_off("RELAY") ELSE UNCHANGED radioVars
        /\ ~relaying' /\ relay_seconds' = 0 /\ hang_countdown' = 0 /\ silent' = 0
        /\ UNCHANGED <<voxVars, ptt_down, now, vox_unpolled>>
    BY <1>7 DEF crossband_set_mode
  <2>2. OwnerInv'
    <3>1. CASE relaying
      BY <2>1, <3>1, OwnerAfterOff DEF voxVars
    <3>2. CASE ~relaying
      BY <2>1, <3>2 DEF OwnerInv, radioVars, voxVars
    <3> QED
      BY <3>1, <3>2
  <2> QED
    BY <2>1, <2>2, VoxInvKept DEF RelayInv
<1> QED
  BY <1>1, <1>2, <1>3, <1>4, <1>5, <1>6, <1>7 DEF PttNext, Vox

LEMMA PttInvImplies == ASSUME PttInv PROVE TransmitterIsHeld
BY PttAssumption DEF PttInv, OwnerInv, VoxInv, RelayInv, TransmitterIsHeld

-----------------------------------------------------------------------------
(* The speaker. *)

(* Unless it may end at the wrap of the tick, a step that plays began due  *)
(* ticks before its end, and at the last poll it had not reached it.       *)
AudioInv ==
  /\ audio_tick \in 0 .. AudioTickMod - 1
  /\ unpolled \in 0 .. PollGap
  /\ tone_end_ms \in Int /\ age \in Nat /\ due \in Nat
  /\ steps \in Seq(tone_step_t)
  /\ tone_active <=> path = "DAC"
  /\ tone_active <=> receivers = "STANDBY"
  /\ dac => tone_active
  /\ tone_active /\ ~wraps => /\ audio_tick = tone_end_ms - due + age
                             /\ tone_end_ms + PollGap <= AudioTickMod
                             /\ age <= due - 1 + unpolled

soundVars == <<tone_active, tone_end_ms, path, receivers, dac, age, due, wraps>>

LEMMA ToneLengths ==
  ASSUME NEW s \in Sequences
  PROVE  /\ s[1].on /\ s[1].ms \in Nat \ {0}
         /\ Tail(s) \in Seq(tone_step_t)
<1>1. s # << >> /\ s \in Seq(tone_step_t) /\ s[1].on
  BY AudioAssumption
<1>2. s[1] \in tone_step_t /\ Tail(s) \in Seq(tone_step_t)
  BY <1>1
<1> QED
  BY <1>1, <1>2 DEF tone_step_t

LEMMA FirstTick ==
  ASSUME NEW a \in Int, NEW d \in Nat \ {0}, NEW u \in Nat
  PROVE  a = a + d - d + 0 /\ 0 <= d - 1 + u
OBVIOUS

(* What arming a step of any length does to the part of the invariant      *)
(* about time.                                                             *)
LEMMA ArmKeepsTime ==
  ASSUME AudioInv, NEW d \in Nat \ {0}, Arm(d), NEW u \in Nat,
         unpolled' = u, audio_tick' = audio_tick
  PROVE  /\ audio_tick' \in 0 .. AudioTickMod - 1
         /\ tone_end_ms' \in Int /\ age' \in Nat /\ due' \in Nat
         /\ ~wraps' => /\ audio_tick' = tone_end_ms' - due' + age'
                       /\ tone_end_ms' + PollGap <= AudioTickMod
                       /\ age' <= due' - 1 + unpolled'
<1>1. /\ tone_end_ms' = (audio_tick + d) % AudioTickMod
      /\ age' = 0 /\ due' = d
      /\ wraps' = (audio_tick + d + PollGap > AudioTickMod)
  BY DEF Arm
<1>2. /\ AudioTickMod \in Nat \ {0} /\ PollGap \in Nat \ {0}
      /\ audio_tick \in 0 .. AudioTickMod - 1
  BY AudioAssumption DEF AudioInv
<1>3. (audio_tick + d) % AudioTickMod \in Int
  BY <1>2
<1>4. ASSUME ~wraps' PROVE audio_tick + d + PollGap <= AudioTickMod
  <2>1. ~(audio_tick + d + PollGap > AudioTickMod)
    BY <1>1, <1>4, Zenon
  <2> QED
    BY <1>2, <2>1
<1>5. ASSUME ~wraps' PROVE (audio_tick + d) % AudioTickMod = audio_tick + d
  BY <1>2, <1>4, <1>5
<1>6. tone_end_ms' \in Int /\ age' \in Nat /\ due' \in Nat
  BY <1>1, <1>3
<1>7. ASSUME ~wraps'
      PROVE  /\ audio_tick' = tone_end_ms' - due' + age'
             /\ tone_end_ms' + PollGap <= AudioTickMod
             /\ age' <= due' - 1 + unpolled'
  <2>1. tone_end_ms' = audio_tick + d /\ age' = 0 /\ due' = d /\ audio_tick' = audio_tick
    BY <1>1, <1>5, <1>7
  <2>2. audio_tick + d + PollGap <= AudioTickMod
    BY <1>4, <1>7
  <2>3. audio_tick = audio_tick + d - d + 0 /\ 0 <= d - 1 + u
    BY <1>2, FirstTick
  <2> QED
    BY <1>2, <2>1, <2>2, <2>3
<1> QED
  BY <1>2, <1>6, <1>7

LEMMA AudioInvInit == ASSUME AudioInit PROVE AudioInv
BY AudioAssumption DEF AudioInit, AudioInv

LEMMA AudioInvStep == ASSUME AudioInv, AudioNext PROVE AudioInv'
<1>1. CASE tone_start
  <2>1. PICK d \in Beeps : Arm(d)
    BY <1>1 DEF tone_start
  <2>2. /\ Sound(TRUE) /\ steps' = << >>
        /\ audio_tick' = audio_tick /\ unpolled' = unpolled
    BY <1>1 DEF tone_start
  <2>3. d \in Nat \ {0} /\ unpolled' \in 0 .. PollGap /\ unpolled' \in Nat
    BY <2>2, AudioAssumption DEF AudioInv
  <2>4. tone_active' /\ path' = "DAC" /\ receivers' = "STANDBY"
    BY <2>1, <2>2 DEF Arm, Sound
  <2>5. steps' \in Seq(tone_step_t)
    BY <2>2
  <2> QED
    BY <2>1, <2>2, <2>3, <2>4, <2>5, ArmKeepsTime DEF AudioInv
<1>2. CASE seq_start
  <2>1. PICK s \in Sequences : Arm(s[1].ms) /\ steps' = Tail(s)
    BY <1>2 DEF seq_start
  <2>2. /\ Sound(TRUE)
        /\ audio_tick' = audio_tick /\ unpolled' = unpolled
    BY <1>2 DEF seq_start
  <2>3. unpolled' \in 0 .. PollGap /\ unpolled' \in Nat
    BY <2>2, AudioAssumption DEF AudioInv
  <2>4. tone_active' /\ path' = "DAC" /\ receivers' = "STANDBY"
    BY <2>1, <2>2 DEF Arm, Sound
  <2> QED
    BY <2>1, <2>2, <2>3, <2>4, ToneLengths, ArmKeepsTime DEF AudioInv
<1>3. CASE audio_poll
  <2>1. unpolled' = 0 /\ audio_tick' = audio_tick
    BY <1>3 DEF audio_poll
  <2>2. unpolled' \in 0 .. PollGap /\ unpolled' \in Nat
    BY <2>1, AudioAssumption
  <2>3. CASE tone_active /\ audio_tick >= tone_end_ms /\ steps # << >> /\ NextStep
    <3>1. Sound(Head(steps).on) /\ Arm(Head(steps).ms) /\ steps' = Tail(steps)
      BY <2>3 DEF NextStep
    <3>2. /\ Head(steps) \in tone_step_t /\ Tail(steps) \in Seq(tone_step_t)
      BY <2>3 DEF AudioInv
    <3>3. Head(steps).ms \in Nat \ {0}
      BY <3>2 DEF tone_step_t
    <3>4. tone_active' /\ path' = "DAC" /\ receivers' = "STANDBY"
      BY <2>3, <3>1 DEF Arm, Sound, AudioInv
    <3> QED
      BY <2>1, <2>2, <3>1, <3>2, <3>3, <3>4, ArmKeepsTime DEF AudioInv
  <2>4. CASE Release
    BY <2>1, <2>2, <2>4 DEF Release, AudioInv
  <2>5. CASE /\ ~(tone_active /\ audio_tick >= tone_end_ms)
             /\ UNCHANGED <<soundVars, steps>>
    BY <2>1, <2>2, <2>5, AudioAssumption DEF AudioInv, soundVars
  <2> QED
    BY <1>3, <2>3, <2>4, <2>5 DEF audio_poll, soundVars
<1>4. CASE AudioTick
  <2>1. /\ unpolled < PollGap /\ unpolled' = unpolled + 1
        /\ audio_tick' = (audio_tick + 1) % AudioTickMod
        /\ age' = IF tone_active /\ age < due + PollGap + 1 THEN age + 1 ELSE age
        /\ UNCHANGED <<tone_active, tone_end_ms, steps, path, receivers, dac, due, wraps>>
    BY <1>4 DEF AudioTick
  <2>2. /\ AudioTickMod \in Nat \ {0} /\ PollGap \in Nat \ {0}
        /\ audio_tick \in 0 .. AudioTickMod - 1
    BY AudioAssumption DEF AudioInv
  <2>3. audio_tick' = IF audio_tick + 1 = AudioTickMod THEN 0 ELSE audio_tick + 1
    BY <2>1, <2>2
  <2>4. audio_tick' \in 0 .. AudioTickMod - 1 /\ unpolled' \in 0 .. PollGap
    BY <2>1, <2>2, <2>3 DEF AudioInv
  <2>5. age' \in Nat
    BY <2>1 DEF AudioInv
  <2>6. ASSUME tone_active, ~wraps
        PROVE  /\ audio_tick' = tone_end_ms' - due' + age'
               /\ tone_end_ms' + PollGap <= AudioTickMod
               /\ age' <= due' - 1 + unpolled'
    <3>1. /\ audio_tick = tone_end_ms - due + age
          /\ tone_end_ms + PollGap <= AudioTickMod
          /\ age <= due - 1 + unpolled
      BY <2>6 DEF AudioInv
    <3>2. age' = age + 1
      BY <2>1, <2>2, <2>6, <3>1 DEF AudioInv
    <3>3. audio_tick + 1 < AudioTickMod
      BY <2>1, <2>2, <3>1 DEF AudioInv
    <3> QED
      BY <2>1, <2>2, <2>3, <3>1, <3>2, <3>3 DEF AudioInv
  <2> QED
    BY <2>1, <2>4, <2>5, <2>6 DEF AudioInv
<1>5. CASE SetBeep
  BY <1>5 DEF SetBeep, AudioInv
<1> QED
  BY <1>1, <1>2, <1>3, <1>4, <1>5 DEF AudioNext

LEMMA AudioInvImplies == ASSUME AudioInv PROVE RadioGetsSpeakerBack
BY AudioAssumption DEF AudioInv, RadioGetsSpeakerBack

-----------------------------------------------------------------------------
(* Dual watch. *)

(* Within a hold the polls without a signal and what is left of the hold   *)
(* add up; out of one the focus is at home; and nothing is known to be     *)
(* steady that was not polled.                                             *)
DualInv ==
  /\ dw_active \in {"A", "B"} /\ dw_rx_vfo \in {"A", "B"}
  /\ dw_signal_hold \in 0 .. HoldPolls /\ quiet_polls \in Nat
  /\ dw_signal_hold > 0 => quiet_polls + dw_signal_hold = HoldPolls
  /\ polled /\ dw_signal_hold = 0 => dw_rx_vfo = dw_active
  /\ polled /\ ~dual_watch => dw_rx_vfo = dw_active
  /\ steady => polled
  /\ steady /\ dual_watch /\ dw_signal_hold > 0 => dw_rx_vfo = Other(dw_active)

LEMMA DualInvInit == ASSUME DualInit PROVE DualInv
BY DualWatchAssumption DEF DualInit, DualInv

LEMMA DualInvStep == ASSUME DualInv, DualNext PROVE DualInv'
<1> USE DualWatchAssumption DEF DualInv
<1>1. CASE radio_dual_watch_poll
  <2> PICK open \in BOOLEAN : FocusBack \/ Holding(open) \/ Checking(open)
    BY <1>1 DEF radio_dual_watch_poll
  <2>1. polled' /\ UNCHANGED <<dw_active, dual_watch>>
    BY <1>1 DEF radio_dual_watch_poll
  <2>2. CASE FocusBack
    BY <2>1, <2>2 DEF FocusBack
  <2>3. CASE Holding(open)
    <3>1. /\ dual_watch /\ dw_signal_hold > 0
          /\ dw_signal_hold' = IF open THEN HoldPolls ELSE dw_signal_hold - 1
          /\ dw_rx_vfo' = IF dw_signal_hold' = 0 THEN dw_active ELSE dw_rx_vfo
          /\ quiet_polls' = IF open THEN 0 ELSE quiet_polls + 1
      BY <2>3 DEF Holding
    <3>2. steady' => steady \/ dw_signal_hold' = 0
      BY <2>3, Zenon DEF Holding
    <3> QED
      BY <2>1, <3>1, <3>2
  <2>4. CASE Checking(open)
    BY <2>1, <2>4 DEF Checking, Other
  <2> QED
    BY <2>2, <2>3, <2>4
<1>2. CASE radio_dtmf_decode_poll \/ Keyed \/ DwClock
  BY <1>2 DEF radio_dtmf_decode_poll, Keyed, DwClock, focusVars
<1>3. CASE Switched
  BY <1>3 DEF Switched, Other
<1> QED
  BY <1>1, <1>2, <1>3 DEF DualNext

LEMMA DualInvImplies == ASSUME DualInv PROVE FocusFollowsSignal
BY DualWatchAssumption DEF DualInv, FocusFollowsSignal

-----------------------------------------------------------------------------
(* The scanner. *)

(* Once something was tuned, the debounce counts reads of what is tuned    *)
(* now, and has been reset since it settled.                               *)
ScanInv ==
  /\ settle_counter \in Nat
  /\ squelch_debounce \in 0 .. DebounceReads /\ open_run \in 0 .. DebounceReads
  /\ tuned[1] = "FREQ" => tuned[2] \in Int
  /\ scan_mode # "OFF" /\ ~fresh /\ settle_counter = 0 =>
       squelch_debounce = DebounceReads \/ squelch_debounce <= open_run
  /\ ScanHearsWhatItShows

LEMMA ScanInvInit == ASSUME ScanInit PROVE ScanInv
BY ScannerAssumption DEF ScanInit, ScanInv, ScanHearsWhatItShows, Tuning

LEMMA TunedKeepsScan ==
  ASSUME ScanInv, NEW t, Tuned(t),
         t[1] = "FREQ" => t[2] \in Int,
         scan_mode = "MEMORY" /\ current_channel' \notin Unloadable =>
           t = Tuning("CH", current_channel'),
         scan_mode = "VFO" /\ range_on => t \in {"FREQ"} \X (RangeLo .. RangeHi),
         ~paused, UNCHANGED range_on
  PROVE  ScanInv'
<1>1. /\ tuned' = t /\ settle_counter' = SettleTicks
      /\ ~fresh' /\ open_run' = 0
      /\ UNCHANGED <<scan_mode, paused, squelch_debounce>>
  BY DEF Tuned
<1>2. SettleTicks \in Nat \ {0} /\ DebounceReads \in Nat \ {0}
  BY ScannerAssumption
<1>3. /\ ~(settle_counter' = 0) /\ settle_counter' \in Nat
      /\ squelch_debounce' \in 0 .. DebounceReads /\ open_run' \in 0 .. DebounceReads
  BY <1>1, <1>2 DEF ScanInv
<1>4. ~paused'
  BY <1>1
<1>5. /\ tuned'[1] = "FREQ" => tuned'[2] \in Int
      /\ scan_mode' = "MEMORY" /\ current_channel' \notin Unloadable =>
           tuned' = Tuning("CH", current_channel')
      /\ scan_mode' = "VFO" /\ range_on' => tuned' \in {"FREQ"} \X (RangeLo .. RangeHi)
  BY <1>1
<1> QED
  BY <1>3, <1>4, <1>5 DEF ScanInv, ScanHearsWhatItShows

LEMMA ScanInvStep == ASSUME ScanInv, ScanNext PROVE ScanInv'
<1>0. SettleTicks \in Nat \ {0} /\ DebounceReads \in Nat \ {0}
  BY ScannerAssumption
<1>1. CASE scanner_start
  BY <1>0, <1>1 DEF scanner_start, ScanInv, ScanHearsWhatItShows
<1>2. CASE scanner_stop
  BY <1>0, <1>2 DEF scanner_stop, Stopped, ScanInv, ScanHearsWhatItShows
<1>3. CASE Configure
  <2>1. /\ scan_mode' = "OFF"
        /\ UNCHANGED <<settle_counter, squelch_debounce, open_run, tuned>>
    BY <1>3 DEF Configure
  <2> QED
    BY <2>1 DEF ScanInv, ScanHearsWhatItShows
<1>4. CASE scanner_poll
  <2> PICK open \in BOOLEAN :
        CASE paused -> Hold(open)
          [] ~paused /\ settle_counter > 0 -> Settle
          [] ~paused /\ settle_counter = 0 /\ squelch_debounce < DebounceReads -> Listen(open)
          [] OTHER -> IF tick_counter + 1 < step_ticks THEN Wait ELSE StepVfo \/ StepMemory
    BY <1>4 DEF scanner_poll
  <2>0. scan_mode # "OFF" /\ UNCHANGED range_on
    BY <1>4 DEF scanner_poll
  <2>1. CASE paused /\ Hold(open)
    BY <1>0, <2>0, <2>1 DEF Hold, ScanInv, ScanHearsWhatItShows
  <2>2. CASE ~paused /\ settle_counter > 0 /\ Settle
    BY <1>0, <2>0, <2>2 DEF Settle, ScanInv, ScanHearsWhatItShows
  <2>3. CASE ~paused /\ settle_counter = 0 /\ squelch_debounce < DebounceReads /\ Listen(open)
    <3>1. /\ squelch_debounce' = IF open THEN squelch_debounce + 1 ELSE DebounceReads
          /\ open_run' = IF ~open THEN 0 ELSE IF open_run < DebounceReads THEN open_run + 1
                         ELSE open_run
          /\ listened'
          /\ UNCHANGED <<scan_mode, settle_counter, current_channel, tuned, fresh>>
      BY <2>3 DEF Listen
    <3>2. paused' => open /\ squelch_debounce' >= DebounceReads
      BY <2>3, Zenon DEF Listen
    <3>3. scan_mode # "OFF" /\ ~fresh => squelch_debounce <= open_run
      BY <1>0, <2>3 DEF ScanInv
    <3>4. scan_mode' # "OFF" /\ ~fresh' /\ paused' => open_run' >= DebounceReads
      <4> SUFFICES ASSUME scan_mode # "OFF", ~fresh, paused'
                   PROVE  open_run' >= DebounceReads
        BY <3>1
      <4>1. open /\ squelch_debounce + 1 >= DebounceReads /\ squelch_debounce <= open_run
        BY <3>1, <3>2, <3>3
      <4> QED
        BY <1>0, <3>1, <4>1 DEF ScanInv
    <3>5. /\ squelch_debounce' \in 0 .. DebounceReads /\ open_run' \in 0 .. DebounceReads
          /\ scan_mode # "OFF" /\ ~fresh =>
               squelch_debounce' = DebounceReads \/ squelch_debounce' <= open_run'
      BY <1>0, <2>3, <3>1, <3>3 DEF ScanInv
    <3> QED
      BY <2>0, <3>1, <3>4, <3>5 DEF ScanInv, ScanHearsWhatItShows
  <2>4. CASE ~paused /\ settle_counter = 0 /\ squelch_debounce = DebounceReads /\ Wait
    BY <1>0, <2>0, <2>4 DEF Wait, ScanInv, ScanHearsWhatItShows
  <2>5. CASE ~paused /\ StepVfo
    <3> DEFINE f == IF tuned[1] = "FREQ" THEN tuned[2] + 1 ELSE Band
               n == IF range_on
                    THEN IF f > RangeHi THEN RangeLo ELSE IF f < RangeLo THEN RangeHi ELSE f
                    ELSE IF f >= Band THEN 0 ELSE f
    <3>1. scan_mode = "VFO" /\ Tuned(Tuning("FREQ", n)) /\ UNCHANGED current_channel
      BY <2>5 DEF StepVfo
    <3>2. f \in Int
      BY ScannerAssumption DEF ScanInv
    <3> HIDE DEF f
    <3>3. n \in Int /\ (range_on => n \in RangeLo .. RangeHi)
      BY <3>2, ScannerAssumption
    <3> HIDE DEF n
    <3>4. /\ Tuning("FREQ", n)[1] = "FREQ" /\ Tuning("FREQ", n)[2] = n
          /\ range_on => Tuning("FREQ", n) \in {"FREQ"} \X (RangeLo .. RangeHi)
      BY <3>3 DEF Tuning
    <3> QED
      BY <2>0, <2>5, <3>1, <3>3, <3>4, TunedKeepsScan
  <2>6. CASE ~paused /\ StepMemory
    <3> DEFINE next == IF NextMem(current_channel) # NoMem THEN NextMem(current_channel)
                       ELSE NextMem(0)
    <3>1. scan_mode = "MEMORY"
      BY <2>6 DEF StepMemory
    <3>2. CASE Stopped /\ UNCHANGED <<squelch_debounce, tuned, fresh, open_run>>
      BY <1>0, <3>2 DEF Stopped, ScanInv, ScanHearsWhatItShows
    <3>3. ASSUME NEW g \in {0, Band - 1}, current_channel' = next,
                 Tuned(IF next \in Unloadable THEN Tuning("FREQ", g) ELSE Tuning("CH", next))
          PROVE  ScanInv'
      <4> HIDE DEF next
      <4> DEFINE t == IF next \in Unloadable THEN Tuning("FREQ", g) ELSE Tuning("CH", next)
      <4>1. g \in Int
        BY ScannerAssumption
      <4>2. t[1] = "FREQ" => t[2] \in Int
        BY <4>1 DEF Tuning
      <4>3. current_channel' \notin Unloadable => t = Tuning("CH", current_channel')
        BY <3>3
      <4>4. Tuned(t)
        BY <3>3
      <4> HIDE DEF t
      <4> QED
        BY <2>0, <2>6, <3>1, <4>2, <4>3, <4>4, TunedKeepsScan
    <3> QED
      BY <2>6, <3>2, <3>3 DEF StepMemory
  <2>7. CASE paused
    BY <2>1, <2>7
  <2>8. CASE ~paused /\ settle_counter > 0
    BY <2>2, <2>8
  <2>9. CASE ~paused /\ ~(settle_counter > 0)
    <3>1. settle_counter = 0
      BY <2>9 DEF ScanInv
    <3>2. CASE squelch_debounce < DebounceReads
      BY <2>3, <2>9, <3>1, <3>2
    <3>3. CASE ~(squelch_debounce < DebounceReads)
      <4>1. squelch_debounce = DebounceReads
        BY <1>0, <3>3 DEF ScanInv
      <4>2. Wait \/ StepVfo \/ StepMemory
        BY <2>9, <3>3
      <4> QED
        BY <2>4, <2>5, <2>6, <2>9, <3>1, <4>1, <4>2
    <3> QED
      BY <3>2, <3>3
  <2> QED
    BY <2>7, <2>8, <2>9
<1> QED
  BY <1>1, <1>2, <1>3, <1>4 DEF ScanNext

-----------------------------------------------------------------------------
(* The spectrum. *)

SpectrumStates ==
  [center_freq : Nat, span : SpanMin .. SpanMax, step : StepMin .. StepMax,
   mode : {"LIVE", "PEAK", "FROZEN"}, chip : Chips2, active : BOOLEAN,
   marker_bin : Bins, rssi : [Bins -> Readings], peak : [Bins -> Readings]]

(* The span around the centre is in the range of the chip.                 *)
SpanInRange(s) ==
  /\ RfMin + s.span \div 2 <= s.center_freq
  /\ s.center_freq + s.span \div 2 <= RfMax

SpectrumInv ==
  /\ spec \in SpectrumStates
  /\ spec.active => SpanInRange(spec)
  /\ SpectrumShowsItsSweep

LEMMA SpectrumConstants ==
  /\ NumBins \in Nat \ {0} /\ 0 \in Bins /\ NumBins - 1 \in Bins /\ NumBins \div 2 \in Bins
  /\ SpanMin \in Nat /\ SpanMax \in Nat /\ SpanDefault \in SpanMin .. SpanMax
  /\ StepMin \in Nat \ {0} /\ StepMax \in Nat /\ StepDefault \in StepMin .. StepMax
  /\ RfMin \in Nat /\ RfMax \in Nat /\ CenterDefault \in Nat /\ KnobSteps \in Nat
  /\ RfMin + SpanMax <= RfMax
  /\ 0 \in Readings /\ \A r \in Readings : r \in Nat
BY SpectrumAssumption DEF Bins

LEMMA ClampCenters ==
  ASSUME NEW s \in SpectrumStates
  PROVE  /\ clamp_center(s) \in SpectrumStates
         /\ SpanInRange(clamp_center(s))
         /\ clamp_center(s).chip = s.chip /\ clamp_center(s).active = s.active
<1> DEFINE half == s.span \div 2
           low == IF s.center_freq < half + RfMin THEN half + RfMin ELSE s.center_freq
           c == IF low + half > RfMax THEN RfMax - half ELSE low
<1>1. s.span \in SpanMin .. SpanMax /\ s.center_freq \in Nat
  BY DEF SpectrumStates
<1>2. half \in Nat /\ half + half <= s.span
  BY <1>1, SpectrumConstants
<1>3. clamp_center(s) = [s EXCEPT !.center_freq = c]
  BY DEF clamp_center
<1>4. RfMin + half + half <= RfMax
  BY <1>1, <1>2, SpectrumConstants
<1> HIDE DEF half
<1>5. c \in Nat /\ RfMin + half <= c /\ c + half <= RfMax
  BY <1>1, <1>2, <1>4, SpectrumConstants
<1> HIDE DEF c
<1>6. clamp_center(s) \in SpectrumStates
  BY <1>3, <1>5 DEF SpectrumStates
<1>7. /\ clamp_center(s).span = s.span /\ clamp_center(s).center_freq = c
      /\ clamp_center(s).chip = s.chip /\ clamp_center(s).active = s.active
  BY <1>3 DEF SpectrumStates
<1> QED
  BY <1>5, <1>6, <1>7 DEF SpanInRange, half

LEMMA KeysKeepRange ==
  ASSUME NEW s \in SpectrumStates, NEW k, SpanInRange(s)
  PROVE  /\ handle_keys(s, k) \in SpectrumStates
         /\ SpanInRange(handle_keys(s, k))
         /\ handle_keys(s, k).chip = s.chip /\ handle_keys(s, k).active = s.active
<1> DEFINE Good(t) == /\ t \in SpectrumStates /\ SpanInRange(t)
                      /\ t.chip = s.chip /\ t.active = s.active
<1>1. s.span \in SpanMin .. SpanMax /\ s.step \in StepMin .. StepMax
      /\ s.marker_bin \in Bins
  BY DEF SpectrumStates
<1>2. ASSUME NEW w \in SpanMin .. SpanMax
      PROVE  Good(clamp_center([s EXCEPT !.span = w]))
  <2>1. [s EXCEPT !.span = w] \in SpectrumStates
    BY DEF SpectrumStates
  <2>2. [s EXCEPT !.span = w].chip = s.chip /\ [s EXCEPT !.span = w].active = s.active
    BY DEF SpectrumStates
  <2> QED
    BY <2>1, <2>2, ClampCenters
<1>3. ASSUME NEW w \in StepMin .. StepMax PROVE Good([s EXCEPT !.step = w])
  BY DEF SpectrumStates, SpanInRange
<1>4. ASSUME NEW m \in {"LIVE", "PEAK", "FROZEN"} PROVE Good([s EXCEPT !.mode = m])
  BY DEF SpectrumStates, SpanInRange
<1>5. Good([s EXCEPT !.peak = Blank0])
  BY SpectrumConstants DEF SpectrumStates, SpanInRange, Blank0
<1>6. ASSUME NEW b \in Bins PROVE Good([s EXCEPT !.marker_bin = b])
  BY DEF SpectrumStates, SpanInRange
<1>7. Good(s)
  OBVIOUS
<1>8. s.span > SpanMin => AtLeast(s.span \div 2, SpanMin) \in SpanMin .. SpanMax
  BY <1>1, SpectrumConstants DEF AtLeast
<1>9. s.span < SpanMax => AtMost(s.span * 2, SpanMax) \in SpanMin .. SpanMax
  BY <1>1, SpectrumConstants DEF AtMost
<1>10. s.step > StepMin => AtLeast(s.step \div 2, StepMin) \in StepMin .. StepMax
  BY <1>1, SpectrumConstants DEF AtLeast
<1>11. s.step < StepMax => AtMost(s.step * 2, StepMax) \in StepMin .. StepMax
  BY <1>1, SpectrumConstants DEF AtMost
<1>12. NextMode[s.mode] \in {"LIVE", "PEAK", "FROZEN"}
  BY DEF NextMode, SpectrumStates
<1>13. s.marker_bin > 0 => s.marker_bin - 1 \in Bins
  BY <1>1, SpectrumConstants DEF Bins
<1>14. s.marker_bin < NumBins - 1 => s.marker_bin + 1 \in Bins
  BY <1>1, SpectrumConstants DEF Bins
<1> HIDE DEF Good
<1>15. Good(handle_keys(s, k))
  <2>1. CASE k = "1"
    BY <1>2, <1>7, <1>8, <2>1 DEF handle_keys
  <2>2. CASE k = "4"
    BY <1>2, <1>7, <1>9, <2>2 DEF handle_keys
  <2>3. CASE k = "2"
    BY <1>3, <1>7, <1>10, <2>3 DEF handle_keys
  <2>4. CASE k = "5"
    BY <1>3, <1>7, <1>11, <2>4 DEF handle_keys
  <2>5. CASE k = "3" \/ k = "0"
    BY <1>4, <1>5, <1>12, <2>5 DEF handle_keys
  <2>6. CASE k = "STAR"
    BY <1>6, <1>7, <1>13, <2>6 DEF handle_keys
  <2>7. CASE k = "HASH"
    BY <1>6, <1>7, <1>14, <2>7 DEF handle_keys
  <2>8. CASE k \notin {"1", "4", "2", "5", "3", "0", "STAR", "HASH"}
    BY <1>7, <2>8 DEF handle_keys
  <2> QED
    BY <2>1, <2>2, <2>3, <2>4, <2>5, <2>6, <2>7, <2>8
<1> QED
  BY <1>15 DEF Good

LEMMA KnobKeepsRange ==
  ASSUME NEW s \in SpectrumStates, NEW dir \in {-1, 0, 1}, SpanInRange(s)
  PROVE  /\ handle_encoder(s, dir) \in SpectrumStates
         /\ SpanInRange(handle_encoder(s, dir))
         /\ handle_encoder(s, dir).chip = s.chip
         /\ handle_encoder(s, dir).active = s.active
<1> DEFINE moved == s.center_freq + s.step * KnobSteps * dir
           c == IF moved < 0 THEN s.span \div 2 + RfMin ELSE moved
<1>1. CASE dir = 0
  BY <1>1 DEF handle_encoder
<1>2. CASE dir # 0
  <2>1. /\ s.center_freq \in Nat /\ s.step \in Int /\ KnobSteps \in Int /\ dir \in Int
        /\ s.span \in Nat /\ RfMin \in Nat
    BY SpectrumConstants DEF SpectrumStates
  <2>2. moved \in Int
    BY <2>1
  <2>3. s.span \div 2 + RfMin \in Nat
    BY <2>1
  <2> HIDE DEF moved
  <2>4. c \in Nat
    BY <2>2, <2>3
  <2>5. handle_encoder(s, dir) = clamp_center([s EXCEPT !.center_freq = c])
    BY <1>2 DEF handle_encoder, moved
  <2> HIDE DEF c
  <2>6. /\ [s EXCEPT !.center_freq = c] \in SpectrumStates
        /\ [s EXCEPT !.center_freq = c].chip = s.chip
        /\ [s EXCEPT !.center_freq = c].active = s.active
    BY <2>4 DEF SpectrumStates
  <2> QED
    BY <2>5, <2>6, ClampCenters
<1> QED
  BY <1>1, <1>2

(* The sweep starts and, while the step does not stretch it, ends in the   *)
(* range.                                                                  *)
LEMMA SweepInRange ==
  ASSUME NEW s \in SpectrumStates, SpanInRange(s)
  PROVE  /\ bin_freq(s, 0) >= RfMin
         /\ s.step <= s.span \div NumBins => bin_freq(s, NumBins - 1) <= RfMax
<1> DEFINE q == s.span \div NumBins
           half == s.span \div 2
<1>1. /\ s.span \in Nat /\ s.step \in Nat \ {0} /\ s.center_freq \in Nat
      /\ NumBins \in Nat \ {0} /\ RfMin \in Nat /\ RfMax \in Nat
  BY SpectrumConstants DEF SpectrumStates
<1>2. q \in Nat /\ NumBins * q <= s.span
  BY <1>1
<1>3. half \in Nat /\ s.span <= half + half + 1
  BY <1>1
<1>4. RfMin + half <= s.center_freq /\ s.center_freq + half <= RfMax
  BY DEF SpanInRange
<1>5. StepPerBin(s) = IF q < s.step THEN s.step ELSE q
  BY DEF StepPerBin
<1> HIDE DEF q
<1>6. StepPerBin(s) \in Nat
  BY <1>1, <1>2, <1>5
<1>7. bin_freq(s, 0) = s.center_freq - half + 0 * StepPerBin(s)
      /\ bin_freq(s, NumBins - 1) = s.center_freq - half + (NumBins - 1) * StepPerBin(s)
  BY DEF bin_freq
<1> HIDE DEF half
<1>8. 0 * StepPerBin(s) = 0
  BY <1>6
<1>9. bin_freq(s, 0) >= RfMin
  BY <1>1, <1>3, <1>4, <1>7, <1>8
<1>10. ASSUME s.step <= q PROVE bin_freq(s, NumBins - 1) <= RfMax
  <2>1. StepPerBin(s) = q /\ q >= 1
    BY <1>1, <1>2, <1>5, <1>10
  <2>2. (NumBins - 1) * q = NumBins * q - q
    BY <1>1, <1>2
  <2>3. NumBins * q \in Nat
    BY <1>1, <1>2
  <2> DEFINE n == NumBins * q
  <2>4. bin_freq(s, NumBins - 1) = s.center_freq - half + (n - q)
    BY <1>7, <2>1, <2>2
  <2>5. n \in Nat /\ n <= s.span
    BY <1>2, <2>3
  <2> HIDE DEF n
  <2> QED
    BY <1>1, <1>2, <1>3, <1>4, <2>1, <2>4, <2>5
<1> QED
  BY <1>9, <1>10 DEF q

LEMMA SpectrumInvInit == ASSUME SpectrumInit PROVE SpectrumInv
BY SpectrumConstants
   DEF SpectrumInit, SpectrumInv, SpectrumStates, Defaults, Blank0, Chips2,
       SpectrumShowsItsSweep

LEMMA SpectrumInvStep == ASSUME SpectrumInv, SpectrumNext PROVE SpectrumInv'
<1>1. CASE spectrum_enter
  <2>1. PICK c \in Chips2 : spec' = Defaults(c, TRUE) /\ enabled' = enabled \ {1 - c}
    BY <1>1 DEF spectrum_enter
  <2>2. spec' \in SpectrumStates
    BY <2>1, SpectrumConstants DEF SpectrumStates, Defaults, Blank0
  <2>3. SpanInRange(spec')
    BY <2>1, SpectrumAssumption DEF SpanInRange, Defaults
  <2>4. 0 \in Bins /\ heard' = [b \in Bins |-> -1]
    BY <1>1, SpectrumConstants DEF spectrum_enter
  <2>5. heard'[0] = -1 /\ spec'.mode = "LIVE" /\ spec'.chip = c
    BY <2>1, <2>4 DEF Defaults
  <2>6. 1 - spec'.chip \notin enabled'
    BY <2>1, <2>5
  <2>7. /\ bin_freq(spec', 0) >= RfMin
        /\ spec'.step <= spec'.span \div NumBins => bin_freq(spec', NumBins - 1) <= RfMax
    BY <2>2, <2>3, SweepInRange
  <2> QED
    BY <2>2, <2>3, <2>5, <2>6, <2>7 DEF SpectrumInv, SpectrumShowsItsSweep
<1>2. CASE spectrum_exit
  <2>1. spec' = [spec EXCEPT !.active = FALSE]
    BY <1>2 DEF spectrum_exit
  <2>2. spec' \in SpectrumStates /\ ~spec'.active
    BY <2>1 DEF SpectrumInv, SpectrumStates
  <2> QED
    BY <2>2 DEF SpectrumInv, SpectrumShowsItsSweep
<1>3. CASE spectrum_poll
  <2>1. PICK k \in SpectrumKeys, dir \in {-1, 0, 1} :
          LET s == handle_encoder(handle_keys(spec, k), dir)
          IN IF s.mode = "FROZEN"
             THEN spec' = s /\ UNCHANGED <<enabled, heard>>
             ELSE /\ \E raw \in [Bins -> Readings] : spec' = do_sweep(s, raw)
                  /\ enabled' = enabled \cup {s.chip}
                  /\ heard' = SweptAt(s)
    BY <1>3 DEF spectrum_poll
  <2> DEFINE s == handle_encoder(handle_keys(spec, k), dir)
  <2>2. spec \in SpectrumStates /\ spec.active /\ SpanInRange(spec)
    BY <1>3 DEF spectrum_poll, SpectrumInv
  <2>3. /\ s \in SpectrumStates /\ SpanInRange(s)
        /\ s.chip = spec.chip /\ s.active = spec.active
    <3> DEFINE t == handle_keys(spec, k)
    <3>1. /\ t \in SpectrumStates /\ SpanInRange(t)
          /\ t.chip = spec.chip /\ t.active = spec.active
      BY <2>2, KeysKeepRange
    <3> HIDE DEF t
    <3>2. s = handle_encoder(t, dir)
      BY DEF t
    <3> HIDE DEF s
    <3>3. /\ handle_encoder(t, dir) \in SpectrumStates /\ SpanInRange(handle_encoder(t, dir))
          /\ handle_encoder(t, dir).chip = t.chip /\ handle_encoder(t, dir).active = t.active
      BY <3>1, KnobKeepsRange
    <3> QED
      BY <3>1, <3>2, <3>3
  <2>4. 1 - spec.chip \notin enabled
    BY <2>2 DEF SpectrumInv, SpectrumShowsItsSweep
  <2>5. CASE s.mode = "FROZEN"
    <3>1. spec' = s /\ enabled' = enabled
      BY <2>1, <2>5
    <3> HIDE DEF s
    <3>2. /\ bin_freq(s, 0) >= RfMin
          /\ s.step <= s.span \div NumBins => bin_freq(s, NumBins - 1) <= RfMax
      BY <2>3, SweepInRange
    <3> QED
      BY <2>3, <2>4, <2>5, <3>1, <3>2 DEF SpectrumInv, SpectrumShowsItsSweep
  <2>6. CASE s.mode # "FROZEN"
    <3>1. /\ \E raw \in [Bins -> Readings] : spec' = do_sweep(s, raw)
          /\ enabled' = enabled \cup {s.chip} /\ heard' = SweptAt(s)
      BY <2>1, <2>6
    <3> HIDE DEF s
    <3>2. PICK raw \in [Bins -> Readings] : spec' = do_sweep(s, raw)
      BY <3>1
    <3>3. /\ spec' \in SpectrumStates
          /\ spec'.center_freq = s.center_freq /\ spec'.span = s.span
          /\ spec'.step = s.step /\ spec'.chip = s.chip
          /\ spec'.mode = "PEAK" => \A b \in Bins : spec'.rssi[b] <= spec'.peak[b]
      <4>1. \A b \in Bins : raw[b] \in Readings /\ s.peak[b] \in Readings
        BY <2>3 DEF SpectrumStates
      <4>2. \A b \in Bins : /\ AtLeast(s.peak[b], raw[b]) \in Readings
                             /\ raw[b] <= AtLeast(s.peak[b], raw[b])
        BY <4>1, SpectrumConstants DEF AtLeast
      <4> DEFINE pk == IF s.mode = "PEAK"
                       THEN [b \in Bins |-> AtLeast(s.peak[b], raw[b])] ELSE s.peak
      <4>3. pk \in [Bins -> Readings]
        BY <2>3, <4>2 DEF SpectrumStates
      <4>4. spec' = [s EXCEPT !.rssi = raw, !.peak = pk]
        BY <3>2 DEF do_sweep
      <4>5. s.mode = "PEAK" => \A b \in Bins : raw[b] <= pk[b]
        BY <4>2
      <4> HIDE DEF pk
      <4> QED
        BY <2>3, <4>3, <4>4, <4>5 DEF SpectrumStates
    <3>4. SpanInRange(spec')
      BY <2>3, <3>3 DEF SpanInRange
    <3>5. /\ bin_freq(spec', 0) >= RfMin
          /\ spec'.step <= spec'.span \div NumBins => bin_freq(spec', NumBins - 1) <= RfMax
      BY <3>3, <3>4, SweepInRange
    <3>6. \A b \in Bins : heard'[b] = bin_freq(spec', b)
      BY <3>1, <3>3 DEF SweptAt, bin_freq, StepPerBin
    <3>7. 1 - spec'.chip \notin enabled'
      <4>1. s.chip \in {0, 1} /\ 1 - s.chip # s.chip
        BY <2>3 DEF SpectrumStates, Chips2
      <4> QED
        BY <2>3, <2>4, <3>1, <3>3, <4>1
    <3> QED
      BY <3>3, <3>4, <3>5, <3>6, <3>7 DEF SpectrumInv, SpectrumShowsItsSweep
  <2> QED
    BY <2>5, <2>6
<1> QED
  BY <1>1, <1>2, <1>3 DEF SpectrumNext

-----------------------------------------------------------------------------
(* The VFOs and their chips. *)

VfoRecords ==
  [step : Steps, squelch : Nat, power : 0 .. 2,
   scrambler : BOOLEAN, tx : Nat, rx : Nat, dcs : Nat]
ChipRecords ==
  [squelch : 0 .. 9, scrambler : BOOLEAN,
   tone : {"NONE", "CTCSS", "DCS"} \X Nat, monitor : BOOLEAN]

ToneFits(s, tone) ==
  /\ HasNoTone(s) => tone = None
  /\ InTables(s) => tone \in Asked(s) \cup {None}

(* Chip r holds what VFO s asks for.                                       *)
Programmed(s, r) ==
  /\ s \in VfoRecords /\ r \in ChipRecords
  /\ r.squelch = IF r.monitor THEN 0 ELSE SquelchOf(s.squelch)
  /\ r.scrambler = s.scrambler
  /\ ToneFits(s, r.tone)

TonesInv ==
  /\ on_vfo \in Vfos
  /\ vfos \in [Vfos -> VfoRecords]
  /\ regs \in [Vfos -> ChipRecords]
  /\ \A v \in Vfos : Programmed(vfos[v], regs[v])

LEMMA DefaultIsSound == Default \in VfoRecords
BY TonesAssumption DEF Default, VfoRecords, NoIdx

LEMMA SanitizedIsSound ==
  ASSUME NEW r \in Records
  PROVE  Sanitized(r) \in VfoRecords
<1>1. r \in [step : Nat, squelch : Nat, power : Nat,
             scrambler : BOOLEAN, tx : Nat, rx : Nat, dcs : Nat]
  BY TonesAssumption
<1> DEFINE step == IF r.step \in Steps THEN r.step ELSE 12500
           squelch == IF r.squelch > 9 THEN 3 ELSE r.squelch
           pow == IF r.power > 2 THEN 1 ELSE r.power
<1>2. Sanitized(r) = [r EXCEPT !.step = step, !.squelch = squelch, !.power = pow]
  BY DEF Sanitized
<1>3. step \in Steps /\ squelch \in Nat /\ pow \in 0 .. 2
  BY <1>1, TonesAssumption
<1> HIDE DEF step, squelch, pow
<1> QED
  BY <1>1, <1>2, <1>3 DEF VfoRecords

LEMMA SquelchInRange == ASSUME NEW l \in Nat PROVE SquelchOf(l) \in 0 .. 9
BY DEF SquelchOf

SentTones == {"NONE", "CTCSS", "DCS"} \X Nat

LEMMA TonesOfSetters ==
  ASSUME NEW tone \in SentTones, NEW i \in Nat
  PROVE  SetCtcss(tone, i) \in SentTones /\ SetDcs(tone, i) \in SentTones /\ None \in SentTones
BY DEF SetCtcss, SetDcs, None, NoIdx, SentTones

LEMMA AppliedTone ==
  ASSUME NEW s \in VfoRecords, NEW tone \in SentTones
  PROVE  ApplyTones(s, tone) \in SentTones /\ ToneFits(s, ApplyTones(s, tone))
<1> DEFINE t1 == IF s.tx # NoIdx THEN SetCtcss(tone, s.tx) ELSE tone
           t2 == IF s.rx # NoIdx THEN SetCtcss(t1, s.rx) ELSE t1
           t3 == IF s.dcs # NoIdx THEN SetDcs(t2, s.dcs) ELSE t2
<1>0. s.tx \in Nat /\ s.rx \in Nat /\ s.dcs \in Nat
  BY DEF VfoRecords
<1>1. t1 \in SentTones
  BY <1>0, TonesOfSetters
<1>2. t2 \in SentTones
  <2> HIDE DEF t1
  <2> QED BY <1>0, <1>1, TonesOfSetters
<1>3. t3 \in SentTones
  <2> HIDE DEF t2
  <2> QED BY <1>0, <1>2, TonesOfSetters
<1>4. ApplyTones(s, tone) = IF HasNoTone(s) THEN None ELSE t3
  BY DEF ApplyTones
<1>5. InTables(s) /\ ~HasNoTone(s) => t3 \in Asked(s)
  <2> SUFFICES ASSUME InTables(s), ~HasNoTone(s) PROVE t3 \in Asked(s)
    OBVIOUS
  <2>1. CASE s.dcs # NoIdx
    <3>1. t3 = <<"DCS", s.dcs>>
      BY <2>1 DEF InTables, SetDcs
    <3> HIDE DEF t3
    <3> QED
      BY <3>1 DEF Asked
  <2>2. CASE s.dcs = NoIdx /\ s.rx # NoIdx
    <3>1. t3 = <<"CTCSS", s.rx>>
      BY <2>2 DEF InTables, SetCtcss
    <3> HIDE DEF t3
    <3> QED
      BY <3>1 DEF Asked
  <2>3. CASE s.dcs = NoIdx /\ s.rx = NoIdx
    <3>1. s.tx # NoIdx
      BY <2>3 DEF HasNoTone
    <3>2. t3 = <<"CTCSS", s.tx>>
      BY <2>3, <3>1 DEF InTables, SetCtcss
    <3> HIDE DEF t3
    <3> QED
      BY <3>2 DEF Asked
  <2> QED
    BY <2>1, <2>2, <2>3
<1> HIDE DEF t3
<1> QED
  BY <1>3, <1>4, <1>5, <1>0, TonesOfSetters DEF ToneFits

(* What a VFO puts into its chip.                                          *)
LEMMA AppliedIsProgrammed ==
  ASSUME NEW s \in VfoRecords, NEW r \in ChipRecords
  PROVE  Programmed(s, vfo_apply(s, r))
<1> DEFINE tone == ApplyTones(s, r.tone)
           sq == SquelchOf(s.squelch)
           r1 == [squelch |-> sq, scrambler |-> s.scrambler, tone |-> tone,
                  monitor |-> FALSE]
<1>1. r.tone \in SentTones /\ s.squelch \in Nat /\ s.scrambler \in BOOLEAN
  BY DEF ChipRecords, VfoRecords, SentTones
<1>2. tone \in SentTones /\ ToneFits(s, tone)
  BY <1>1, AppliedTone
<1>3. sq \in 0 .. 9
  BY <1>1, SquelchInRange
<1>4. vfo_apply(s, r) = r1
  BY DEF vfo_apply
<1> HIDE DEF tone
<1>5. r1.monitor = FALSE /\ r1.squelch = SquelchOf(s.squelch) /\ r1.scrambler = s.scrambler
      /\ r1.tone = tone
  OBVIOUS
<1> HIDE DEF sq
<1>6. r1 \in ChipRecords
  BY <1>1, <1>2, <1>3 DEF ChipRecords, SentTones
<1> HIDE DEF r1
<1> QED
  BY <1>2, <1>4, <1>5, <1>6 DEF Programmed

LEMMA ChipReset == bk4829_init \in ChipRecords
BY DEF bk4829_init, ChipRecords, None, NoIdx

(* What the setters make of a VFO and its chip.                            *)
LEMMA ToneIsSet ==
  ASSUME NEW s, NEW r, Programmed(s, r), NEW idx \in Nat,
         NEW s1 \in VfoRecords, NEW tone \in SentTones,
         s1.squelch = s.squelch, s1.scrambler = s.scrambler, ToneFits(s1, tone)
  PROVE  Programmed(s1, [r EXCEPT !.tone = tone])
<1> DEFINE r1 == [r EXCEPT !.tone = tone]
<1>1. r \in ChipRecords
  BY DEF Programmed
<1>2. /\ r1 \in ChipRecords /\ r1.tone = tone /\ r1.monitor = r.monitor
      /\ r1.squelch = r.squelch /\ r1.scrambler = r.scrambler
  BY <1>1 DEF ChipRecords, SentTones
<1> HIDE DEF r1
<1>3. Programmed(s1, r1)
  BY <1>2 DEF Programmed
<1> QED
  BY <1>3 DEF r1

LEMMA SetToneFits ==
  ASSUME NEW s \in VfoRecords, NEW idx \in Nat, NEW tone \in SentTones
  PROVE  LET ctcss == IF idx = NoIdx THEN None ELSE SetCtcss(tone, idx)
             dcs == IF idx = NoIdx THEN None ELSE SetDcs(tone, idx)
         IN /\ ToneFits([s EXCEPT !.tx = idx], ctcss)
            /\ ToneFits([s EXCEPT !.rx = idx], ctcss)
            /\ ToneFits([s EXCEPT !.dcs = idx], dcs)
<1> DEFINE ctcss == IF idx = NoIdx THEN None ELSE SetCtcss(tone, idx)
           dcs == IF idx = NoIdx THEN None ELSE SetDcs(tone, idx)
<1>1. /\ idx = NoIdx => ctcss = None /\ dcs = None
      /\ idx # NoIdx /\ idx \in DOMAIN CtcssTones => ctcss = <<"CTCSS", idx>>
      /\ idx # NoIdx /\ idx \in DOMAIN DcsCodes => dcs = <<"DCS", idx>>
  BY DEF SetCtcss, SetDcs
<1> HIDE DEF ctcss, dcs
<1>2. ASSUME NEW s1, s1.tx = idx \/ s1.rx = idx
      PROVE  ToneFits(s1, ctcss)
  <2>1. HasNoTone(s1) => idx = NoIdx
    BY <1>2 DEF HasNoTone
  <2>2. InTables(s1) /\ idx # NoIdx => ctcss \in Asked(s1)
    <3>1. InTables(s1) /\ idx # NoIdx => idx \in DOMAIN CtcssTones
      BY <1>2 DEF InTables
    <3>2. <<"CTCSS", idx>> \in Asked(s1)
      BY <1>2 DEF Asked
    <3> QED
      BY <1>1, <3>1, <3>2
  <2> QED
    BY <1>1, <2>1, <2>2 DEF ToneFits
<1>3. ASSUME NEW s1, s1.dcs = idx
      PROVE  ToneFits(s1, dcs)
  <2>1. HasNoTone(s1) => idx = NoIdx
    BY <1>3 DEF HasNoTone
  <2>2. InTables(s1) /\ idx # NoIdx => dcs \in Asked(s1)
    <3>1. InTables(s1) /\ idx # NoIdx => idx \in DOMAIN DcsCodes
      BY <1>3 DEF InTables
    <3>2. <<"DCS", idx>> \in Asked(s1)
      BY <1>3 DEF Asked
    <3> QED
      BY <1>1, <3>1, <3>2
  <2> QED
    BY <1>1, <2>1, <2>2 DEF ToneFits
<1>4. /\ [s EXCEPT !.tx = idx].tx = idx
      /\ [s EXCEPT !.rx = idx].rx = idx
      /\ [s EXCEPT !.dcs = idx].dcs = idx
  BY DEF VfoRecords
<1> QED
  BY <1>2, <1>3, <1>4 DEF ctcss, dcs

LEMMA ToneGoesOff ==
  ASSUME NEW s, NEW r, Programmed(s, r)
  PROVE  Programmed(s, [r EXCEPT !.tone = None])
<1>1. None \in SentTones /\ s \in VfoRecords /\ ToneFits(s, None)
  BY DEF Programmed, None, SentTones, NoIdx, ToneFits
<1> QED
  BY <1>1, ToneIsSet

LEMMA TonesAreCleared ==
  ASSUME NEW s, NEW r, Programmed(s, r)
  PROVE  Programmed([s EXCEPT !.tx = NoIdx, !.rx = NoIdx, !.dcs = NoIdx],
                    [r EXCEPT !.tone = None])
<1>1. s \in VfoRecords
  BY DEF Programmed
<1> DEFINE s1 == [s EXCEPT !.tx = NoIdx, !.rx = NoIdx, !.dcs = NoIdx]
<1>2. s1 \in VfoRecords /\ s1.squelch = s.squelch /\ s1.scrambler = s.scrambler
  <2>1. NoIdx \in Nat
    BY DEF NoIdx
  <2> DEFINE s2 == [s EXCEPT !.tx = NoIdx]
             s3 == [s2 EXCEPT !.rx = NoIdx]
  <2>2. s2 \in VfoRecords /\ s2.squelch = s.squelch /\ s2.scrambler = s.scrambler
    BY <1>1, <2>1 DEF VfoRecords
  <2>3. s3 \in VfoRecords /\ s3.squelch = s.squelch /\ s3.scrambler = s.scrambler
    <3> HIDE DEF s2
    <3> QED
      BY <2>1, <2>2 DEF VfoRecords
  <2>4. s1 = [s3 EXCEPT !.dcs = NoIdx]
    OBVIOUS
  <2> HIDE DEF s3, s1
  <2> QED
    BY <2>1, <2>3, <2>4 DEF VfoRecords
<1>3. None \in SentTones /\ ToneFits(s1, None)
  BY DEF None, SentTones, NoIdx, ToneFits
<1> HIDE DEF s1
<1>4. Programmed(s1, [r EXCEPT !.tone = None])
  BY <1>2, <1>3, ToneIsSet
<1> QED
  BY <1>4 DEF s1

LEMMA LevelIsSet ==
  ASSUME NEW s, NEW r, Programmed(s, r), NEW l \in Nat
  PROVE  Programmed([s EXCEPT !.squelch = l],
                    [r EXCEPT !.squelch = SquelchOf(l), !.monitor = FALSE])
<1> DEFINE sq == SquelchOf(l)
           s1 == [s EXCEPT !.squelch = l]
           r1 == [r EXCEPT !.squelch = sq, !.monitor = FALSE]
<1>1. s \in VfoRecords /\ r \in ChipRecords /\ sq \in 0 .. 9
  BY SquelchInRange DEF Programmed
<1>2. /\ s1 \in VfoRecords /\ s1.squelch = l /\ s1.scrambler = s.scrambler
      /\ s1.tx = s.tx /\ s1.rx = s.rx /\ s1.dcs = s.dcs
  BY <1>1 DEF VfoRecords
<1> HIDE DEF sq
<1>3. /\ r1 \in ChipRecords /\ r1.tone = r.tone /\ r1.monitor = FALSE
      /\ r1.squelch = sq /\ r1.scrambler = r.scrambler
  BY <1>1 DEF ChipRecords
<1>4. ToneFits(s1, r1.tone)
  BY <1>2, <1>3 DEF Programmed, ToneFits, HasNoTone, InTables, Asked
<1> HIDE DEF s1, r1
<1>5. Programmed(s1, r1)
  BY <1>2, <1>3, <1>4 DEF Programmed, sq
<1> QED
  BY <1>5 DEF s1, r1, sq

LEMMA ScramblerIsSet ==
  ASSUME NEW s, NEW r, Programmed(s, r), NEW on \in BOOLEAN
  PROVE  Programmed([s EXCEPT !.scrambler = on], [r EXCEPT !.scrambler = on])
<1>1. s \in VfoRecords /\ r \in ChipRecords
  BY DEF Programmed
<1> DEFINE s1 == [s EXCEPT !.scrambler = on]
           r1 == [r EXCEPT !.scrambler = on]
<1>2. /\ s1 \in VfoRecords /\ s1.squelch = s.squelch /\ s1.scrambler = on
      /\ s1.tx = s.tx /\ s1.rx = s.rx /\ s1.dcs = s.dcs
  BY <1>1 DEF VfoRecords
<1>3. /\ r1 \in ChipRecords /\ r1.tone = r.tone /\ r1.monitor = r.monitor
      /\ r1.squelch = r.squelch /\ r1.scrambler = on
  BY <1>1 DEF ChipRecords
<1>4. ToneFits(s1, r1.tone)
  BY <1>2, <1>3 DEF Programmed, ToneFits, HasNoTone, InTables, Asked
<1> HIDE DEF s1, r1
<1>5. Programmed(s1, r1)
  BY <1>2, <1>3, <1>4 DEF Programmed
<1> QED
  BY <1>5 DEF s1, r1

LEMMA SquelchIsOpened ==
  ASSUME NEW s, NEW r, Programmed(s, r)
  PROVE  Programmed(s, [r EXCEPT !.squelch = 0, !.monitor = TRUE])
<1> DEFINE sq == 0
           on == TRUE
           r1 == [r EXCEPT !.squelch = sq, !.monitor = on]
<1>1. r \in ChipRecords /\ sq \in 0 .. 9 /\ on \in BOOLEAN
  BY DEF Programmed
<1> HIDE DEF sq, on
<1>2. r1 \in ChipRecords
  BY <1>1 DEF ChipRecords
<1>3. /\ r1.tone = r.tone /\ r1.squelch = sq
      /\ r1.scrambler = r.scrambler
  BY <1>1 DEF ChipRecords
<1>4. r1.monitor = on
  BY <1>1 DEF ChipRecords
<1>5. s \in VfoRecords /\ r.scrambler = s.scrambler /\ ToneFits(s, r.tone)
  BY DEF Programmed
<1> HIDE DEF r1
<1>6. r1.squelch = IF r1.monitor THEN 0 ELSE SquelchOf(s.squelch)
  BY <1>3, <1>4 DEF sq, on
<1>7. r1.scrambler = s.scrambler /\ ToneFits(s, r1.tone)
  BY <1>3, <1>5
<1>8. Programmed(s, r1)
  BY <1>2, <1>5, <1>6, <1>7, Zenon DEF Programmed
<1> QED
  BY <1>8 DEF r1, sq, on

LEMMA BootedIsProgrammed ==
  ASSUME NEW w \in [Vfos -> VfoRecords], NEW active \in Vfos, Booted(w, active)
  PROVE  TonesInv'
<1>1. /\ vfos' = w /\ on_vfo' = active
      /\ regs' = [v \in Vfos |-> vfo_apply(w[v], bk4829_init)]
  BY DEF Booted
<1>2. \A v \in Vfos : Programmed(w[v], vfo_apply(w[v], bk4829_init))
  BY ChipReset, AppliedIsProgrammed
<1>3. \A v \in Vfos : Programmed(vfos'[v], regs'[v])
  BY <1>1, <1>2
<1>4. regs' \in [Vfos -> ChipRecords]
  BY <1>1, <1>2 DEF Programmed
<1> QED
  BY <1>1, <1>3, <1>4 DEF TonesInv, Programmed

LEMMA TonesInvInit == ASSUME TonesInit PROVE TonesInv
<1>1. Programmed(Default, vfo_apply(Default, bk4829_init))
  BY DefaultIsSound, ChipReset, AppliedIsProgrammed
<1>2. vfos = [v \in Vfos |-> Default]
      /\ regs = [v \in Vfos |-> vfo_apply(Default, bk4829_init)] /\ on_vfo = "A"
  BY DEF TonesInit
<1>3. Default \in VfoRecords /\ vfo_apply(Default, bk4829_init) \in ChipRecords
  BY <1>1 DEF Programmed
<1>4. \A v \in Vfos : Programmed(vfos[v], regs[v])
  BY <1>1, <1>2
<1> QED
  BY <1>2, <1>3, <1>4 DEF Vfos, TonesInv

(* A setter touches one VFO and its chip, the radio one chip.              *)
LEMMA SetKeepsTones ==
  ASSUME TonesInv, NEW v \in Vfos, NEW s, NEW r, Programmed(s, r), Set(v, s, r)
  PROVE  TonesInv'
<1>1. /\ vfos \in [Vfos -> VfoRecords] /\ regs \in [Vfos -> ChipRecords]
      /\ \A w \in Vfos : Programmed(vfos[w], regs[w])
      /\ on_vfo \in Vfos
  BY DEF TonesInv
<1>2. /\ vfos' = [vfos EXCEPT ![v] = s] /\ regs' = [regs EXCEPT ![v] = r]
      /\ on_vfo' = on_vfo
  BY DEF Set
<1>3. s \in VfoRecords /\ r \in ChipRecords
  BY DEF Programmed
<1>4. vfos' \in [Vfos -> VfoRecords] /\ regs' \in [Vfos -> ChipRecords]
  BY <1>1, <1>2, <1>3
<1>5. \A w \in Vfos : Programmed(vfos'[w], regs'[w])
  BY <1>1, <1>2
<1> QED
  BY <1>1, <1>2, <1>4, <1>5 DEF TonesInv, Programmed

LEMMA ChipKeepsTones ==
  ASSUME TonesInv, NEW v \in Vfos, NEW r, Programmed(vfos[v], r),
         regs' = [regs EXCEPT ![v] = r], vfos' = vfos, on_vfo' \in Vfos
  PROVE  TonesInv'
<1>1. /\ vfos \in [Vfos -> VfoRecords] /\ regs \in [Vfos -> ChipRecords]
      /\ \A w \in Vfos : Programmed(vfos[w], regs[w])
  BY DEF TonesInv
<1>2. r \in ChipRecords
  BY DEF Programmed
<1>3. regs' \in [Vfos -> ChipRecords]
  BY <1>1, <1>2
<1>4. \A w \in Vfos : Programmed(vfos'[w], regs'[w])
  BY <1>1
<1> QED
  BY <1>1, <1>3, <1>4 DEF TonesInv, Programmed

LEMMA TonesInvStep == ASSUME TonesInv, TonesNext PROVE TonesInv'
<1>1. /\ on_vfo \in Vfos
      /\ vfos \in [Vfos -> VfoRecords] /\ regs \in [Vfos -> ChipRecords]
      /\ \A v \in Vfos : Programmed(vfos[v], regs[v])
  BY DEF TonesInv
<1>2. CASE vfo_init
  <2>1. CASE Booted([v \in Vfos |-> Default], "A")
    <3>1. [v \in Vfos |-> Default] \in [Vfos -> VfoRecords] /\ "A" \in Vfos
      BY DefaultIsSound DEF Vfos
    <3> QED
      BY <2>1, <3>1, BootedIsProgrammed
  <2>2. ASSUME NEW a \in Records, NEW b \in Records, NEW active \in Vfos,
               Booted(vfo_load_state(a, b), active)
        PROVE  TonesInv'
    <3>1. vfo_load_state(a, b) \in [Vfos -> VfoRecords]
      <4>1. \A v \in Vfos : Sanitized(IF v = "A" THEN a ELSE b) \in VfoRecords
        BY SanitizedIsSound
      <4> QED
        BY <4>1 DEF vfo_load_state
    <3> QED
      BY <2>2, <3>1, BootedIsProgrammed
  <2> QED
    BY <1>2, <2>1, <2>2 DEF vfo_init
<1>3. CASE \E v \in Vfos, idx \in ToneIndices : SetTone(v, idx)
  <2> PICK v \in Vfos, idx \in ToneIndices : SetTone(v, idx)
    BY <1>3
  <2> DEFINE s == vfos[v]
             r == regs[v]
             ctcss == IF idx = NoIdx THEN None ELSE SetCtcss(r.tone, idx)
             dcs == IF idx = NoIdx THEN None ELSE SetDcs(r.tone, idx)
  <2>1. Programmed(s, r) /\ idx \in Nat /\ s \in VfoRecords /\ r.tone \in SentTones
    BY <1>1, TonesAssumption DEF Programmed, ChipRecords, SentTones
  <2>2. ctcss \in SentTones /\ dcs \in SentTones
    BY <2>1, TonesOfSetters
  <2>3. \/ Set(v, [s EXCEPT !.tx = idx], [r EXCEPT !.tone = ctcss])
        \/ Set(v, [s EXCEPT !.rx = idx], [r EXCEPT !.tone = ctcss])
        \/ Set(v, [s EXCEPT !.dcs = idx], [r EXCEPT !.tone = dcs])
    BY DEF SetTone
  <2>4. /\ ToneFits([s EXCEPT !.tx = idx], ctcss)
        /\ ToneFits([s EXCEPT !.rx = idx], ctcss)
        /\ ToneFits([s EXCEPT !.dcs = idx], dcs)
    <3> HIDE DEF s, r
    <3> QED
      BY <2>1, SetToneFits
  <2> HIDE DEF s, r, ctcss, dcs
  <2>5. /\ [s EXCEPT !.tx = idx] \in VfoRecords
        /\ [s EXCEPT !.tx = idx].squelch = s.squelch
        /\ [s EXCEPT !.tx = idx].scrambler = s.scrambler
    BY <2>1 DEF VfoRecords
  <2>6. /\ [s EXCEPT !.rx = idx] \in VfoRecords
        /\ [s EXCEPT !.rx = idx].squelch = s.squelch
        /\ [s EXCEPT !.rx = idx].scrambler = s.scrambler
    BY <2>1 DEF VfoRecords
  <2>7. /\ [s EXCEPT !.dcs = idx] \in VfoRecords
        /\ [s EXCEPT !.dcs = idx].squelch = s.squelch
        /\ [s EXCEPT !.dcs = idx].scrambler = s.scrambler
    BY <2>1 DEF VfoRecords
  <2>8. /\ Programmed([s EXCEPT !.tx = idx], [r EXCEPT !.tone = ctcss])
        /\ Programmed([s EXCEPT !.rx = idx], [r EXCEPT !.tone = ctcss])
        /\ Programmed([s EXCEPT !.dcs = idx], [r EXCEPT !.tone = dcs])
    <3> DEFINE st == [s EXCEPT !.tx = idx]
               sr == [s EXCEPT !.rx = idx]
               sd == [s EXCEPT !.dcs = idx]
    <3> HIDE DEF st, sr, sd
    <3>1. Programmed(st, [r EXCEPT !.tone = ctcss])
      BY <2>1, <2>2, <2>4, <2>5, ToneIsSet DEF st
    <3>2. Programmed(sr, [r EXCEPT !.tone = ctcss])
      BY <2>1, <2>2, <2>4, <2>6, ToneIsSet DEF sr
    <3>3. Programmed(sd, [r EXCEPT !.tone = dcs])
      BY <2>1, <2>2, <2>4, <2>7, ToneIsSet DEF sd
    <3> QED
      BY <3>1, <3>2, <3>3 DEF st, sr, sd
  <2> QED
    BY <2>3, <2>8, SetKeepsTones
<1>4. CASE \E v \in Vfos : SetOther(v)
  <2> PICK v \in Vfos : SetOther(v)
    BY <1>4
  <2>1. Programmed(vfos[v], regs[v])
    BY <1>1
  <2>2. ASSUME NEW l \in Levels,
               Set(v, [vfos[v] EXCEPT !.squelch = l],
                   [regs[v] EXCEPT !.squelch = SquelchOf(l), !.monitor = FALSE])
        PROVE  TonesInv'
    <3>1. l \in Nat
      BY TonesAssumption
    <3>2. Programmed([vfos[v] EXCEPT !.squelch = l],
                     [regs[v] EXCEPT !.squelch = SquelchOf(l), !.monitor = FALSE])
      BY <2>1, <3>1, LevelIsSet
    <3> QED
      BY <2>2, <3>2, SetKeepsTones
  <2>3. ASSUME NEW on \in BOOLEAN,
               Set(v, [vfos[v] EXCEPT !.scrambler = on], [regs[v] EXCEPT !.scrambler = on])
        PROVE  TonesInv'
    <3>1. Programmed([vfos[v] EXCEPT !.scrambler = on], [regs[v] EXCEPT !.scrambler = on])
      BY <2>1, ScramblerIsSet
    <3> QED
      BY <2>3, <3>1, SetKeepsTones
  <2> QED
    BY <2>2, <2>3 DEF SetOther
<1>5. CASE \E v \in Vfos : vfo_clear_tone(v)
  <2> PICK v \in Vfos : vfo_clear_tone(v)
    BY <1>5
  <2>1. Programmed([vfos[v] EXCEPT !.tx = NoIdx, !.rx = NoIdx, !.dcs = NoIdx],
                   [regs[v] EXCEPT !.tone = None])
    BY <1>1, TonesAreCleared
  <2> QED
    BY <2>1, SetKeepsTones DEF vfo_clear_tone
<1>6. CASE \E v \in Vfos : vfo_set_active(v)
  <2> PICK v \in Vfos : vfo_set_active(v)
    BY <1>6
  <2>1. Programmed(vfos[v], vfo_apply(vfos[v], regs[v]))
    BY <1>1, AppliedIsProgrammed DEF Programmed
  <2>2. /\ on_vfo' = v /\ vfos' = vfos
        /\ regs' = [regs EXCEPT ![v] = vfo_apply(vfos[v], regs[v])]
    BY DEF vfo_set_active
  <2> QED
    BY <2>1, <2>2, ChipKeepsTones
<1>7. CASE vfo_swap
  <2>1. /\ vfos' = [v \in Vfos |-> IF v = "A" THEN vfos["B"] ELSE vfos["A"]]
        /\ regs' = [v \in Vfos |-> vfo_apply(vfos'[v], regs[v])]
        /\ on_vfo' = on_vfo
    BY <1>7 DEF vfo_swap, Vfos
  <2>2. \A v \in Vfos : vfos'[v] \in VfoRecords
    BY <1>1, <2>1 DEF Programmed, Vfos
  <2>3. \A v \in Vfos : Programmed(vfos'[v], regs'[v])
    BY <1>1, <2>1, <2>2, AppliedIsProgrammed
  <2>4. vfos' \in [Vfos -> VfoRecords] /\ regs' \in [Vfos -> ChipRecords]
    BY <2>1, <2>2, <2>3 DEF Programmed
  <2> QED
    BY <1>1, <2>1, <2>3, <2>4 DEF TonesInv, Programmed
<1>8. CASE vfo_copy
  <2> PICK w \in Vfos \ {on_vfo} :
        Set(w, vfos[on_vfo], vfo_apply(vfos[on_vfo], regs[w]))
    BY <1>8 DEF vfo_copy
  <2>1. Programmed(vfos[on_vfo], vfo_apply(vfos[on_vfo], regs[w]))
    BY <1>1, AppliedIsProgrammed DEF Programmed
  <2> QED
    BY <2>1, SetKeepsTones
<1>9. CASE Monitor
  <2> DEFINE r == [regs[on_vfo] EXCEPT !.squelch = 0, !.monitor = TRUE]
  <2>1. Programmed(vfos[on_vfo], r)
    BY <1>1, SquelchIsOpened
  <2>2. regs' = [regs EXCEPT ![on_vfo] = r] /\ vfos' = vfos /\ on_vfo' = on_vfo
    BY <1>1, <1>9 DEF Monitor
  <2> HIDE DEF r
  <2> QED
    BY <1>1, <2>1, <2>2, ChipKeepsTones
<1>10. CASE EndOfTransmission
  <2>1. CASE regs' = [regs EXCEPT ![on_vfo].tone = None]
    <3> DEFINE r == [regs[on_vfo] EXCEPT !.tone = None]
    <3>1. Programmed(vfos[on_vfo], r)
      BY <1>1, ToneGoesOff
    <3>2. regs' = [regs EXCEPT ![on_vfo] = r] /\ vfos' = vfos /\ on_vfo' = on_vfo
      BY <1>10, <2>1 DEF EndOfTransmission
    <3> HIDE DEF r
    <3> QED
      BY <1>1, <3>1, <3>2, ChipKeepsTones
  <2>2. CASE UNCHANGED regs
    BY <1>1, <1>10, <2>2 DEF EndOfTransmission, TonesInv
  <2> QED
    BY <1>10, <2>1, <2>2 DEF EndOfTransmission
<1> QED
  BY <1>2, <1>3, <1>4, <1>5, <1>6, <1>7, <1>8, <1>9, <1>10 DEF TonesNext

LEMMA TonesInvImplies == ASSUME TonesInv PROVE TonesTypeOK /\ ChipFollowsVfo
<1>1. \A v \in Vfos : /\ vfos[v] \in VfoRecords /\ regs[v] \in ChipRecords
                      /\ Programmed(vfos[v], regs[v])
  BY DEF TonesInv
<1>2. TonesTypeOK
  BY <1>1 DEF TonesInv, TonesTypeOK, VfoRecords, ChipRecords
<1>3. ChipFollowsVfo
  BY <1>1 DEF ChipFollowsVfo, Programmed, ToneFits
<1> QED
  BY <1>2, <1>3

-----------------------------------------------------------------------------
(* The menu. *)

(* The list that is open has the item that is chosen.                      *)
LEMMA CategoriesAreShort ==
  \A c \in DOMAIN MenuCategories :
    /\ Len(MenuCategories[c]) \in 0 .. 13
    /\ \A n \in 1 .. Len(MenuCategories[c]) : MenuCategories[c][n] \in MenuItems
<1>1. DOMAIN MenuCategories = 1 .. 12
  BY DEF MenuCategories
<1> SUFFICES ASSUME NEW c \in 1 .. 12
             PROVE  /\ Len(MenuCategories[c]) \in 0 .. 13
                    /\ \A n \in 1 .. Len(MenuCategories[c]) :
                         MenuCategories[c][n] \in MenuItems
  BY <1>1
<1> DEFINE s == MenuCategories[c]
<1>2. CASE c \in 1 .. 4
  BY <1>2 DEF MenuCategories, MenuItems, MenuMax
<1>3. CASE c = 5
  BY <1>3 DEF MenuCategories, MenuItems, MenuMax
<1>4. CASE c \in 6 .. 9
  BY <1>4 DEF MenuCategories, MenuItems, MenuMax
<1>5. CASE c = 10
  BY <1>5 DEF MenuCategories, MenuItems, MenuMax
<1>6. CASE c \in 11 .. 12
  BY <1>6 DEF MenuCategories, MenuItems, MenuMax
<1> QED
  BY <1>2, <1>3, <1>4, <1>5, <1>6

LEMMA MaxIsByte ==
  ASSUME NEW i \in MenuItems
  PROVE  /\ MaxOf(i) \in 0 .. 255
         /\ i \in DOMAIN LastText => MaxOf(i) <= LastText[i]
         /\ i = "STEP" => MaxOf(i) <= 7
         /\ i = "APRS_SYMBOL" => MaxOf(i) <= 4
<1>1. MenuMax[i] \in 0 .. 255
  BY DEF MenuItems, MenuMax
<1>2. i \in DOMAIN LastText => MenuMax[i] <= LastText[i] /\ LastText[i] \in Nat
  BY DEF MenuItems, MenuMax, LastText
<1>3. MenuMax["STEP"] = 7 /\ MenuMax["APRS_SYMBOL"] = 4
  BY DEF MenuMax
<1> QED
  BY <1>1, <1>2, <1>3, MenuAssumption DEF MaxOf

(* What a setting holds: a byte, but for the two fields of the VFO that    *)
(* are numbers of Hz.                                                      *)
RawOf(f) == IF f \in {"STEP", "OFFSET_FREQ"} THEN Nat ELSE 0 .. 255

(* What the edit of an item shows.                                         *)
Dialled(i) == IF i = "STEP" THEN 0 .. 7
              ELSE IF i = "APRS_SYMBOL" THEN 0 .. 4 ELSE 0 .. 255

Items == MenuItems \ Fieldless

LEMMA FieldOfItem ==
  ASSUME NEW i \in Items
  PROVE  /\ Field(i) = "STEP" <=> i = "STEP"
         /\ Field(i) = "OFFSET_FREQ" <=> i = "OFFSET_FREQ"
         /\ i \in Tones => Field(i) \notin {"STEP", "OFFSET_FREQ"}
BY DEF Field, Tones

LEMMA StepsInTable ==
  /\ DOMAIN step_table = 1 .. 8
  /\ \A k \in 1 .. 8 : step_table[k] \in Nat
  /\ \A k \in 1 .. 7 : step_table[k] \in valid_steps
  /\ \A k, m \in 1 .. 8 : step_table[k] = step_table[m] => k = m
BY DEF step_table, valid_steps

LEMMA GetterInRange ==
  ASSUME NEW i \in Items, NEW raw \in RawOf(Field(i))
  PROVE  Getter(i, raw) \in Dialled(i)
<1>1. raw \in Nat /\ (i \notin {"STEP", "OFFSET_FREQ"} => raw \in 0 .. 255)
  BY FieldOfItem DEF RawOf
<1>2. i \notin Fieldless
  BY DEF Items
<1>3. CASE i \in Tones
  <2>1. Getter(i, raw) = IF raw = 255 THEN 0 ELSE (raw + 1) % 256
    BY <1>2, <1>3 DEF Getter, Tones
  <2>2. i # "STEP" /\ i # "APRS_SYMBOL"
    BY <1>3 DEF Tones
  <2> QED
    BY <1>1, <2>1, <2>2 DEF Dialled
<1>4. CASE i = "STEP"
  <2>1. Getter(i, raw) =
          IF \E k \in DOMAIN step_table : step_table[k] = raw
          THEN (CHOOSE k \in DOMAIN step_table : step_table[k] = raw) - 1 ELSE 4
    BY <1>2, <1>4 DEF Getter, Tones
  <2>2. CASE \E k \in DOMAIN step_table : step_table[k] = raw
    <3> DEFINE k == CHOOSE k \in DOMAIN step_table : step_table[k] = raw
    <3>1. k \in 1 .. 8
      BY <2>2, StepsInTable
    <3> HIDE DEF k
    <3>2. Getter(i, raw) = k - 1
      BY <2>1, <2>2 DEF k
    <3> QED
      BY <1>4, <3>1, <3>2 DEF Dialled
  <2> QED
    BY <1>4, <2>1, <2>2 DEF Dialled
<1>5. CASE i = "OFFSET_FREQ"
  <2>1. Getter(i, raw) = (raw \div 100000) % 256
    BY <1>2, <1>5 DEF Getter, Tones
  <2>2. raw \div 100000 \in Nat
    BY <1>1
  <2> QED
    BY <1>5, <2>1, <2>2 DEF Dialled
<1>6. CASE i = "APRS_SYMBOL"
  <2>1. Getter(i, raw) = IF raw < 5 THEN raw ELSE 0
    BY <1>2, <1>6 DEF Getter, Tones
  <2> QED
    BY <1>1, <1>6, <2>1 DEF Dialled
<1>7. CASE i \notin Tones \cup {"STEP", "OFFSET_FREQ", "APRS_SYMBOL"}
  <2>1. Getter(i, raw) = raw
    BY <1>2, <1>7 DEF Getter
  <2> QED
    BY <1>1, <1>7, <2>1 DEF Dialled
<1> QED
  BY <1>3, <1>4, <1>5, <1>6, <1>7

LEMMA SetterInRange ==
  ASSUME NEW i \in Items, NEW v \in Dialled(i)
  PROVE  /\ Setter(i, v) \in RawOf(Field(i))
         /\ <<i, v>> # <<"STEP", 7>> => Getter(i, Setter(i, v)) = v
<1>0. i \notin Fieldless /\ v \in 0 .. 255
  BY DEF Items, Dialled
<1>1. CASE i \in Tones
  <2>1. Setter(i, v) = IF v = 0 THEN 255 ELSE v - 1
    BY <1>1 DEF Setter, Tones
  <2>2. Setter(i, v) \in 0 .. 255
    BY <1>0, <2>1
  <2>3. Getter(i, Setter(i, v)) = IF Setter(i, v) = 255 THEN 0 ELSE (Setter(i, v) + 1) % 256
    BY <1>0, <1>1 DEF Getter, Tones
  <2>4. RawOf(Field(i)) = 0 .. 255
    BY <1>1, FieldOfItem DEF RawOf
  <2> QED
    BY <1>0, <2>1, <2>2, <2>3, <2>4
<1>2. CASE i = "STEP"
  <2>1. v \in 0 .. 7
    BY <1>2 DEF Dialled
  <2>2. Setter(i, v) = IF step_table[v + 1] \in valid_steps THEN step_table[v + 1] ELSE 12500
    BY <1>2 DEF Setter, Tones
  <2>3. RawOf(Field(i)) = Nat
    BY <1>2, FieldOfItem DEF RawOf
  <2>4. v + 1 \in 1 .. 8
    BY <2>1
  <2>5. Setter(i, v) \in RawOf(Field(i))
    BY <2>2, <2>3, <2>4, StepsInTable
  <2>6. ASSUME v # 7 PROVE Getter(i, Setter(i, v)) = v
    <3>1. v + 1 \in 1 .. 7
      BY <2>1, <2>6
    <3>2. Setter(i, v) = step_table[v + 1]
      BY <2>2, <3>1, StepsInTable
    <3> DEFINE raw == Setter(i, v)
               k == CHOOSE k \in DOMAIN step_table : step_table[k] = raw
    <3>3. k \in 1 .. 8 /\ step_table[k] = raw
      BY <2>4, <3>2, StepsInTable
    <3>4. k = v + 1
      <4> HIDE DEF k
      <4> QED
        BY <2>4, <3>2, <3>3, StepsInTable
    <3>5. Getter(i, raw) =
          IF \E m \in DOMAIN step_table : step_table[m] = raw THEN k - 1 ELSE 4
      BY <1>0, <1>2 DEF Getter, Tones
    <3>6. \E m \in DOMAIN step_table : step_table[m] = raw
      BY <3>3, StepsInTable
    <3> HIDE DEF k, raw
    <3>7. Getter(i, raw) = k - 1
      BY <3>5, <3>6
    <3>8. Getter(i, raw) = v
      BY <2>1, <3>4, <3>7
    <3> QED
      BY <3>8 DEF raw
  <2> QED
    BY <1>2, <2>5, <2>6
<1>3. CASE i = "OFFSET_FREQ"
  <2>1. Setter(i, v) = v * 100000
    BY <1>3 DEF Setter, Tones
  <2>2. Getter(i, v * 100000) = ((v * 100000) \div 100000) % 256
    BY <1>0, <1>3 DEF Getter, Tones
  <2>3. (v * 100000) \div 100000 = v
    BY <1>0
  <2>4. RawOf(Field(i)) = Nat
    BY <1>3, FieldOfItem DEF RawOf
  <2>5. v % 256 = v /\ v * 100000 \in Nat
    BY <1>0
  <2> QED
    BY <2>1, <2>2, <2>3, <2>4, <2>5
<1>4. CASE i \notin Tones \cup {"STEP", "OFFSET_FREQ"}
  <2>1. Setter(i, v) = v
    BY <1>4 DEF Setter
  <2>2. RawOf(Field(i)) = 0 .. 255
    BY <1>4, FieldOfItem DEF RawOf
  <2>3. CASE i = "APRS_SYMBOL"
    <3>1. Getter(i, v) = IF v < 5 THEN v ELSE 0
      BY <1>0, <2>3 DEF Getter, Tones
    <3>2. v < 5
      BY <2>3 DEF Dialled
    <3> QED
      BY <1>0, <2>1, <2>2, <3>1, <3>2
  <2>4. CASE i # "APRS_SYMBOL"
    <3>1. Getter(i, v) = v
      BY <1>0, <1>4, <2>4 DEF Getter
    <3> QED
      BY <1>0, <2>1, <2>2, <3>1
  <2> QED
    BY <2>3, <2>4
<1> QED
  BY <1>1, <1>2, <1>3, <1>4

(* The item that is open sets the field that is watched.                   *)
Followed(i) == i \notin Fieldless /\ Field(i) = watched

EditIsSound ==
  menu_state = "EDIT" /\ Followed(MenuItem) =>
    /\ edit_value \in Dialled(MenuItem)
    /\ HasText(MenuItem, Getter(MenuItem, stored)) => HasText(MenuItem, edit_value)

MenuPlace ==
  /\ menu_state \in {"CLOSED", "CATEGORY", "LIST", "EDIT"}
  /\ cur_category \in DOMAIN MenuCategories
  /\ cur_item_idx \in 0 .. 12 /\ list_scroll \in 0 .. 7
  /\ menu_state \in {"LIST", "EDIT"} => cur_item_idx < Len(Cat)
  /\ edit_value \in 0 .. 255

MenuValues ==
  /\ watched \in Watchable /\ stored \in RawOf(watched)
  /\ copy \in Nat /\ kept \in Nat

MenuInv == MenuPlace /\ MenuValues /\ EditIsSound /\ MenuSavesWhatItShows

LEMMA RawIsNat == \A f : RawOf(f) \subseteq Nat
BY DEF RawOf

LEMMA RawValuesInRange ==
  ASSUME NEW f \in Watchable, NEW v \in RawValues[f]
  PROVE  v \in RawOf(f)
BY MenuAssumption DEF RawOf

LEMMA MenuInvImplies == ASSUME MenuInv PROVE MenuTypeOK /\ MenuSavesWhatItShows
BY RawIsNat DEF MenuInv, MenuPlace, MenuValues, MenuTypeOK

LEMMA MenuInvInit == ASSUME MenuInit PROVE MenuInv
<1>1. 1 \in DOMAIN MenuCategories
  BY DEF MenuCategories
<1>2. MenuValues
  BY RawValuesInRange, RawIsNat DEF MenuInit, MenuValues, Unset
<1>3. MenuPlace
  BY <1>1 DEF MenuInit, MenuPlace
<1>4. EditIsSound /\ MenuSavesWhatItShows
  BY DEF MenuInit, EditIsSound, MenuSavesWhatItShows, NothingSaved
<1> QED
  BY <1>2, <1>3, <1>4 DEF MenuInv

LEMMA OpenItemExists ==
  ASSUME MenuPlace, menu_state \in {"LIST", "EDIT"}
  PROVE  MenuItem \in MenuItems /\ (MenuItem \notin Fieldless => MenuItem \in Items)
<1>1. /\ Len(Cat) \in 0 .. 13
      /\ \A n \in 1 .. Len(Cat) : Cat[n] \in MenuItems
  BY CategoriesAreShort DEF MenuPlace, Cat
<1>2. cur_item_idx + 1 \in 1 .. Len(Cat)
  BY <1>1 DEF MenuPlace
<1> QED
  BY <1>1, <1>2 DEF MenuItem, Items

(* Turning and typing.                                                     *)
LEMMA DialledOn ==
  ASSUME NEW i \in MenuItems, NEW v \in 0 .. 255, NEW n \in 0 .. 255,
         n <= MaxOf(i) \/ n <= v
  PROVE  /\ i \in Items /\ v \in Dialled(i) => n \in Dialled(i)
         /\ HasText(i, v) => HasText(i, n)
<1>1. /\ MaxOf(i) \in 0 .. 255
      /\ i \in DOMAIN LastText => MaxOf(i) <= LastText[i]
      /\ i = "STEP" => MaxOf(i) <= 7
      /\ i = "APRS_SYMBOL" => MaxOf(i) <= 4
  BY MaxIsByte
<1>2. ASSUME i \in DOMAIN LastText PROVE LastText[i] \in Nat
  BY <1>2 DEF LastText
<1>3. HasText(i, v) => HasText(i, n)
  BY <1>1, <1>2 DEF HasText
<1> QED
  BY <1>1, <1>3 DEF Dialled

LEMMA SteppedBetween ==
  ASSUME NEW v \in 0 .. 255, NEW d \in {-1, 1}, NEW hi \in 0 .. 255
  PROVE  /\ Stepped(v, d, 0, hi) \in 0 .. 255
         /\ Stepped(v, d, 0, hi) <= hi \/ Stepped(v, d, 0, hi) <= v
BY DEF Stepped

MenuUnsaved == Unedited /\ shown' = NothingSaved

LEMMA UnsavedKeeps ==
  ASSUME MenuInv, MenuUnsaved, MenuPlace', EditIsSound'
  PROVE  MenuInv'
<1>1. MenuValues'
  BY DEF MenuInv, MenuValues, MenuUnsaved, Unedited
<1>2. MenuSavesWhatItShows'
  BY DEF MenuUnsaved, NothingSaved, MenuSavesWhatItShows
<1> QED
  BY <1>1, <1>2 DEF MenuInv

LEMMA OpenItemStep ==
  ASSUME MenuInv, menu_state = "LIST", OpenItem, MenuUnsaved
  PROVE  MenuInv'
<1> DEFINE i == MenuItem
<1>1. i \in MenuItems /\ (i \notin Fieldless => i \in Items)
  BY OpenItemExists DEF MenuInv
<1>2. /\ menu_state' = "EDIT" /\ UNCHANGED <<cur_category, cur_item_idx, list_scroll>>
      /\ edit_value' \in IF i = "CH_NAME" THEN {edit_value}
                         ELSE IF i \in Fieldless THEN {0}
                         ELSE IF Field(i) = watched THEN {Getter(i, stored)}
                         ELSE {0, MaxOf(i)}
  BY DEF OpenItem
<1>3. MenuItem' = i /\ Len(Cat') = Len(Cat)
  BY <1>2 DEF MenuItem, Cat
<1>4. stored' = stored /\ watched' = watched
  BY DEF MenuUnsaved, Unedited
<1> HIDE DEF i
<1>5. edit_value \in 0 .. 255 /\ stored \in RawOf(watched)
  BY DEF MenuInv, MenuPlace, MenuValues
<1>6. ASSUME i \notin Fieldless, Field(i) = watched
      PROVE  edit_value' = Getter(i, stored) /\ Getter(i, stored) \in Dialled(i)
  <2>1. Getter(i, stored) \in Dialled(i)
    BY <1>1, <1>5, <1>6, GetterInRange
  <2>2. i # "CH_NAME"
    BY <1>6 DEF Fieldless
  <2> QED
    BY <1>2, <1>6, <2>1, <2>2
<1>7. edit_value' \in 0 .. 255
  <2>1. CASE i \notin Fieldless /\ Field(i) = watched
    BY <1>6, <2>1 DEF Dialled
  <2>2. CASE ~(i \notin Fieldless /\ Field(i) = watched)
    BY <1>1, <1>2, <1>5, <2>2, MaxIsByte
  <2> QED
    BY <2>1, <2>2
<1>8. MenuPlace'
  BY <1>2, <1>3, <1>7 DEF MenuInv, MenuPlace
<1>9. EditIsSound'
  <2> SUFFICES ASSUME i \notin Fieldless, Field(i) = watched
               PROVE  /\ edit_value' \in Dialled(i)
                      /\ HasText(i, Getter(i, stored)) => HasText(i, edit_value')
    BY <1>3, <1>4 DEF EditIsSound, Followed
  <2> QED
    BY <1>6
<1> QED
  BY <1>8, <1>9, UnsavedKeeps

LEMMA EditStep ==
  ASSUME MenuInv, menu_state = "EDIT", NEW n \in 0 .. 255,
         n <= MaxOf(MenuItem) \/ n <= edit_value,
         edit_value' = n, UNCHANGED <<menu_state, cur_category, cur_item_idx, list_scroll>>,
         MenuUnsaved
  PROVE  MenuInv'
<1> DEFINE i == MenuItem
<1>1. i \in MenuItems /\ (i \notin Fieldless => i \in Items)
  BY OpenItemExists DEF MenuInv
<1>2. MenuItem' = i /\ Len(Cat') = Len(Cat)
  BY DEF MenuItem, Cat
<1>3. stored' = stored /\ watched' = watched
  BY DEF MenuUnsaved, Unedited
<1>4. edit_value \in 0 .. 255
  BY DEF MenuInv, MenuPlace
<1>5. /\ i \in Items /\ edit_value \in Dialled(i) => n \in Dialled(i)
      /\ HasText(i, edit_value) => HasText(i, n)
  BY <1>1, <1>4, DialledOn
<1>6. Followed(i) => /\ edit_value \in Dialled(i)
                     /\ HasText(i, Getter(i, stored)) => HasText(i, edit_value)
  BY DEF MenuInv, EditIsSound
<1> HIDE DEF i
<1>7. MenuPlace'
  BY <1>2 DEF MenuInv, MenuPlace
<1>8. EditIsSound'
  <2> SUFFICES ASSUME i \notin Fieldless, Field(i) = watched
               PROVE  /\ n \in Dialled(i)
                      /\ HasText(i, Getter(i, stored)) => HasText(i, n)
    BY <1>2, <1>3 DEF EditIsSound, Followed
  <2> QED
    BY <1>1, <1>5, <1>6 DEF Followed
<1> QED
  BY <1>7, <1>8, UnsavedKeeps

(* A step that leaves the edit, or does not come to one.                   *)
LEMMA ElsewhereStep ==
  ASSUME MenuInv, MenuPlace', menu_state' # "EDIT", MenuUnsaved
  PROVE  MenuInv'
BY UnsavedKeeps DEF EditIsSound

LEMMA SaveItemStep ==
  ASSUME MenuInv, menu_state = "EDIT", SaveItem
  PROVE  MenuInv'
<1> DEFINE i == MenuItem
           v == edit_value
<1>1. i \in MenuItems /\ (i \notin Fieldless => i \in Items)
  BY OpenItemExists DEF MenuInv
<1>2. /\ menu_state' = "LIST"
      /\ UNCHANGED <<cur_category, cur_item_idx, list_scroll, edit_value, watched>>
      /\ IF i = "FACTORY_RESET" /\ v # 0 THEN FactoryReset
         ELSE IF i \notin Fieldless /\ Field(i) = watched THEN SaveField(i)
         ELSE UNCHANGED <<stored, copy, kept>>
      /\ shown' = IF i \notin Fieldless /\ Field(i) = watched
                  THEN [item |-> i, value |-> v, before |-> stored]
                  ELSE NothingSaved
  BY DEF SaveItem
<1>3. Followed(i) => /\ v \in Dialled(i)
                     /\ HasText(i, Getter(i, stored)) => HasText(i, v)
  BY DEF MenuInv, EditIsSound
<1>4. Len(Cat') = Len(Cat)
  BY <1>2 DEF Cat
<1>5. MenuPlace'
  BY <1>2, <1>4 DEF MenuInv, MenuPlace
<1>6. EditIsSound'
  BY <1>2 DEF EditIsSound
<1>7. watched \in Watchable /\ stored \in RawOf(watched) /\ copy \in Nat /\ kept \in Nat
  BY DEF MenuInv, MenuValues
<1>8. watched' = watched
  BY <1>2
<1> HIDE DEF i, v
<1>9. CASE i \notin Fieldless /\ Field(i) = watched
  <2>1. i \in Items /\ v \in Dialled(i) /\ i # "FACTORY_RESET"
    BY <1>1, <1>3, <1>9 DEF Followed, Fieldless
  <2>2. SaveField(i) /\ shown' = [item |-> i, value |-> v, before |-> stored]
    BY <1>2, <1>9, <2>1
  <2>3. /\ stored' = Setter(i, v)
        /\ kept' = IF i = "APRS_SYMBOL" THEN kept ELSE stored'
        /\ copy' = CASE i = "VOX_LEVEL" -> IF stored' > 9 THEN 9 ELSE stored'
               [] i = "AUTO_POWER_OFF" -> IF stored' < 4 THEN stored' ELSE copy
               [] i \in Copied \ {"VOX_LEVEL", "AUTO_POWER_OFF"} -> stored'
               [] OTHER -> copy
    BY <2>2 DEF SaveField, v
  <2>4. /\ stored' \in RawOf(watched) /\ stored' \in Nat
        /\ <<i, v>> # <<"STEP", 7>> => Getter(i, stored') = v
    BY <1>9, <2>1, <2>3, SetterInRange, RawIsNat
  <2>5. copy' \in Nat
    BY <1>7, <2>3, <2>4
  <2>6. kept' \in Nat
    BY <1>7, <2>3, <2>4
  <2>7. MenuValues'
    BY <1>7, <1>8, <2>4, <2>5, <2>6 DEF MenuValues
  <2>8. i \in Copied /\ HasText(i, v) => copy' = stored'
    <3>1. CASE i = "VOX_LEVEL"
      <4>1. Setter(i, v) = v
        BY <3>1 DEF Setter, Tones
      <4>2. HasText(i, v) => v <= 9
        BY <3>1 DEF HasText, LastText
      <4>3. copy' = IF stored' > 9 THEN 9 ELSE stored'
        BY <2>3, <3>1
      <4> QED
        BY <2>3, <2>4, <4>1, <4>2, <4>3
    <3>2. CASE i = "AUTO_POWER_OFF"
      <4>1. Setter(i, v) = v
        BY <3>2 DEF Setter, Tones
      <4>2. HasText(i, v) => v <= 3
        BY <3>2 DEF HasText, LastText
      <4>3. copy' = IF stored' < 4 THEN stored' ELSE copy
        BY <2>3, <3>2
      <4> QED
        BY <2>3, <2>4, <4>1, <4>2, <4>3
    <3>3. CASE i \notin {"VOX_LEVEL", "AUTO_POWER_OFF"}
      BY <2>3, <3>3
    <3> QED
      BY <3>1, <3>2, <3>3
  <2>9. HasText(i, Getter(i, stored)) => HasText(i, v)
    BY <1>3, <1>9 DEF Followed
  <2>10. /\ shown'.item = i /\ shown'.value = v /\ shown'.before = stored
    BY <2>2
  <2>11. MenuSavesWhatItShows'
    <3>1. v = Getter(i, stored) /\ Setter(i, Getter(i, stored)) = stored => stored' = stored
      BY <2>3
    <3> QED
      BY <2>3, <2>4, <2>8, <2>9, <2>10, <3>1 DEF MenuSavesWhatItShows
  <2> QED
    BY <1>5, <1>6, <2>7, <2>11 DEF MenuInv
<1>10. CASE ~(i \notin Fieldless /\ Field(i) = watched)
  <2>1. shown' = NothingSaved
    BY <1>2, <1>10
  <2>2. MenuSavesWhatItShows'
    BY <2>1 DEF MenuSavesWhatItShows, NothingSaved
  <2>3. MenuValues'
    <3>1. CASE FactoryReset
      BY <1>7, <1>8, <3>1, RawValuesInRange, RawIsNat DEF FactoryReset, MenuValues
    <3>2. CASE UNCHANGED <<stored, copy, kept>>
      BY <1>7, <1>8, <3>2 DEF MenuValues
    <3> QED
      BY <1>2, <1>10, <3>1, <3>2
  <2> QED
    BY <1>5, <1>6, <2>2, <2>3 DEF MenuInv
<1> QED
  BY <1>9, <1>10

LEMMA KeyPlace ==
  ASSUME MenuPlace, NEW k, KeyClosed(k) \/ KeyCategory(k) \/ KeyName(k)
                           \/ (KeyList(k) /\ ~OpenItem)
                           \/ (KeyEdit(k) /\ menu_state' = "LIST" /\ UNCHANGED edit_value)
  PROVE  MenuPlace' /\ menu_state' # "EDIT"
<1>1. 1 \in DOMAIN MenuCategories
  BY DEF MenuCategories
<1>2. CASE KeyClosed(k)
  BY <1>1, <1>2 DEF MenuPlace, KeyClosed
<1>3. CASE KeyCategory(k)
  <2>1. /\ cur_category' = cur_category /\ edit_value' = edit_value
        /\ menu_state' \in {"LIST", "CLOSED"}
        /\ cur_item_idx' \in 0 .. 12 /\ list_scroll' \in 0 .. 7
        /\ menu_state' = "LIST" => cur_item_idx' = 0 /\ Len(Cat) > 0
    BY <1>3 DEF MenuPlace, KeyCategory
  <2>2. Len(Cat') = Len(Cat)
    BY <2>1 DEF Cat
  <2> QED
    BY <2>1, <2>2 DEF MenuPlace
<1>4. CASE KeyName(k) \/ (KeyEdit(k) /\ menu_state' = "LIST" /\ UNCHANGED edit_value)
  <2>1. /\ menu_state = "EDIT" /\ menu_state' = "LIST"
        /\ UNCHANGED <<cur_category, cur_item_idx, list_scroll, edit_value>>
    BY <1>4 DEF KeyName, KeyEdit
  <2>2. Len(Cat') = Len(Cat)
    BY <2>1 DEF Cat
  <2> QED
    BY <2>1, <2>2 DEF MenuPlace
<1>5. CASE KeyList(k) /\ ~OpenItem
  <2>1. /\ menu_state = "LIST" /\ menu_state' = "CATEGORY"
        /\ UNCHANGED <<cur_category, cur_item_idx, list_scroll, edit_value>>
    BY <1>5 DEF KeyList
  <2> QED
    BY <2>1 DEF MenuPlace
<1> QED
  BY <1>2, <1>3, <1>4, <1>5

LEMMA MenuKeyStep == ASSUME MenuInv, menu_handle_key PROVE MenuInv'
<1> PICK k \in MenuKeys :
      \/ /\ KeyClosed(k) \/ KeyCategory(k) \/ KeyList(k) \/ KeyName(k) \/ KeyEdit(k)
         /\ MenuUnsaved
      \/ menu_state = "EDIT" /\ SaveItem
  BY DEF menu_handle_key, MenuUnsaved
<1>1. CASE menu_state = "EDIT" /\ SaveItem
  BY <1>1, SaveItemStep
<1>2. CASE (KeyList(k) /\ OpenItem) /\ MenuUnsaved
  BY <1>2, OpenItemStep DEF KeyList
<1>3. CASE KeyEdit(k) /\ ~(menu_state' = "LIST" /\ UNCHANGED edit_value) /\ MenuUnsaved
  <2>1. /\ menu_state = "EDIT" /\ k \in DOMAIN DigitOf /\ DigitOf[k] <= MaxOf(MenuItem)
        /\ edit_value' = DigitOf[k]
        /\ UNCHANGED <<menu_state, cur_category, cur_item_idx, list_scroll>>
    BY <1>3 DEF KeyEdit
  <2>2. DigitOf[k] \in 0 .. 255
    BY <2>1 DEF DigitOf
  <2> QED
    BY <1>3, <2>1, <2>2, EditStep
<1>4. CASE /\ KeyClosed(k) \/ KeyCategory(k) \/ KeyName(k) \/ (KeyList(k) /\ ~OpenItem)
                \/ (KeyEdit(k) /\ menu_state' = "LIST" /\ UNCHANGED edit_value)
           /\ MenuUnsaved
  <2>1. MenuPlace' /\ menu_state' # "EDIT"
    BY <1>4, KeyPlace DEF MenuInv
  <2> QED
    BY <1>4, <2>1, ElsewhereStep
<1> QED
  BY <1>1, <1>2, <1>3, <1>4

LEMMA MenuKnobStep == ASSUME MenuInv, menu_handle_encoder PROVE MenuInv'
<1> PICK d \in {-1, 1} :
      /\ \/ /\ menu_state = "CATEGORY"
            /\ cur_category' = Stepped(cur_category, d, 1, Len(MenuCategories))
            /\ UNCHANGED <<cur_item_idx, list_scroll, edit_value>>
         \/ /\ menu_state = "LIST"
            /\ cur_item_idx' = Stepped(cur_item_idx, d, 0, Len(Cat) - 1)
            /\ list_scroll' = IF cur_item_idx' < list_scroll THEN cur_item_idx'
                              ELSE IF cur_item_idx' >= list_scroll + 6
                                   THEN cur_item_idx' - 5
                              ELSE list_scroll
            /\ UNCHANGED <<cur_category, edit_value>>
         \/ /\ menu_state = "EDIT" /\ MenuItem # "CH_NAME"
            /\ edit_value' = Stepped(edit_value, d, 0, MaxOf(MenuItem))
            /\ UNCHANGED <<cur_category, cur_item_idx, list_scroll>>
      /\ MenuUnsaved /\ UNCHANGED menu_state
  BY DEF menu_handle_encoder, MenuUnsaved
<1>0. MenuPlace
  BY DEF MenuInv
<1>1. CASE menu_state = "CATEGORY"
  <2>1. cur_category' \in DOMAIN MenuCategories
    <3>1. DOMAIN MenuCategories = 1 .. 12 /\ Len(MenuCategories) = 12
      BY DEF MenuCategories
    <3>2. \A c \in 1 .. 12 : Stepped(c, d, 1, 12) \in 1 .. 12
      BY DEF Stepped
    <3> QED
      BY <1>0, <1>1, <3>1, <3>2 DEF MenuPlace
  <2>2. MenuPlace' /\ menu_state' # "EDIT"
    BY <1>0, <1>1, <2>1 DEF MenuPlace
  <2> QED
    BY <2>2, ElsewhereStep
<1>2. CASE menu_state = "LIST"
  <2>1. /\ Len(Cat) \in 0 .. 13 /\ Len(Cat') = Len(Cat)
    BY <1>0, <1>2, CategoriesAreShort DEF MenuPlace, Cat
  <2> DEFINE new == cur_item_idx'
  <2>2. new \in 0 .. Len(Cat) - 1
    <3>1. \A x \in 0 .. Len(Cat) - 1 : Stepped(x, d, 0, Len(Cat) - 1) \in 0 .. Len(Cat) - 1
      BY <2>1 DEF Stepped
    <3>2. cur_item_idx \in 0 .. Len(Cat) - 1
      BY <1>0, <1>2, <2>1 DEF MenuPlace
    <3> QED
      BY <1>2, <3>1, <3>2
  <2>3. list_scroll' = IF new < list_scroll THEN new
                       ELSE IF new >= list_scroll + 6 THEN new - 5 ELSE list_scroll
    BY <1>2
  <2>4. list_scroll \in 0 .. 7
    BY <1>0 DEF MenuPlace
  <2> HIDE DEF new
  <2>5. new \in 0 .. 12 /\ new < Len(Cat)
    BY SMTT(40), <2>1, <2>2
  <2>6. list_scroll' \in 0 .. 7
    BY <2>3, <2>4, <2>5
  <2>7. cur_item_idx' \in 0 .. 12 /\ cur_item_idx' < Len(Cat')
    BY <2>1, <2>5 DEF new
  <2>8. MenuPlace' /\ menu_state' # "EDIT"
    BY <1>0, <1>2, <2>6, <2>7 DEF MenuPlace
  <2> QED
    BY <2>8, ElsewhereStep
<1>3. CASE menu_state = "EDIT"
  <2>1. MenuItem \in MenuItems /\ edit_value \in 0 .. 255
    BY <1>0, <1>3, OpenItemExists DEF MenuPlace
  <2>2. MaxOf(MenuItem) \in 0 .. 255
    BY <2>1, MaxIsByte
  <2> DEFINE n == Stepped(edit_value, d, 0, MaxOf(MenuItem))
  <2>3. n \in 0 .. 255 /\ (n <= MaxOf(MenuItem) \/ n <= edit_value)
    BY <2>1, <2>2, SteppedBetween
  <2>4. edit_value' = n /\ UNCHANGED <<menu_state, cur_category, cur_item_idx, list_scroll>>
    BY <1>3
  <2> HIDE DEF n
  <2> QED
    BY <1>3, <2>3, <2>4, EditStep
<1> QED
  BY <1>1, <1>2, <1>3

LEMMA MenuInvStep == ASSUME MenuInv, MenuNext PROVE MenuInv'
BY MenuKeyStep, MenuKnobStep DEF MenuNext

-----------------------------------------------------------------------------
(* The panels. *)

(* What a confirmed name looks like: characters up to the first blank that *)
(* only blanks follow.                                                     *)
NameIsPadded ==
  /\ name \in Seq(Chars \cup {Blank}) /\ Len(name) <= TextMax
  /\ \A i, j \in 1 .. Len(name) : name[i] \notin Chars /\ i <= j => name[j] = Blank

TextTypes ==
  /\ text \in Seq(Chars) /\ cursor \in Nat
  /\ last_map_idx \in DOMAIN Rows \cup {NoRow}
  /\ tap_pos \in Nat /\ since_tap \in 0 .. TapTimeout + 1
  /\ NameIsPadded

OthersInv ==
  /\ digits \in Seq(PanelDigits)
  /\ scroll_top \in Nat
  /\ panel = "contacts" => scroll_top <= cursor /\ cursor < scroll_top + VisibleRows
  /\ entered = 0 \/ freq_in_band(entered)

PanelKinds == {"text", "freq", "zones", "contacts"}

PanelsInv ==
  /\ kind \in PanelKinds /\ panel \in {"none", kind}
  /\ TextTypes /\ TextStaysInBuffer
  /\ OthersInv

LEMMA PanelsInvInit == ASSUME PanelsInit PROVE PanelsInv
<1>1. \A S : << >> \in Seq(S) /\ Len(<< >>) = 0
  BY EmptySeq
<1>2. 0 \in 0 .. TapTimeout + 1 /\ TextMax \in Nat
  BY PanelsAssumption
<1> QED
  BY <1>1, <1>2 DEF PanelsInit, PanelsInv, PanelKinds, TextTypes, NameIsPadded,
     TextStaysInBuffer, OthersInv

LEMMA PanelsInvImplies ==
  ASSUME PanelsInv PROVE PanelsTypeOK /\ PanelsKeepTheirPlace
BY DEF PanelsInv, PanelKinds, TextTypes, NameIsPadded, OthersInv, PanelsTypeOK, PanelsKeepTheirPlace

(* Sequences cut, extended and written to.                                 *)
LEMMA Cut ==
  ASSUME NEW S, NEW s \in Seq(S), NEW n \in 0 .. Len(s)
  PROVE  /\ SubSeq(s, 1, n) \in Seq(S) /\ Len(SubSeq(s, 1, n)) = n
         /\ \A i \in 1 .. n : SubSeq(s, 1, n)[i] = s[i]
<1>1. Len(s) \in Nat /\ \A i \in 1 .. n : s[i] \in S
  BY LenProperties, ElementOfSeq
<1>2. /\ SubSeq(s, 1, n) \in Seq(S)
      /\ Len(SubSeq(s, 1, n)) = IF 1 <= n THEN n - 1 + 1 ELSE 0
      /\ \A i \in 1 .. n - 1 + 1 : SubSeq(s, 1, n)[i] = s[1 + i - 1]
  BY <1>1, SubSeqProperties
<1> QED
  BY <1>1, <1>2

LEMMA CutAndAppended ==
  ASSUME NEW S, NEW s \in Seq(S), NEW n \in 0 .. Len(s), NEW e \in S
  PROVE  /\ Append(SubSeq(s, 1, n), e) \in Seq(S)
         /\ Len(Append(SubSeq(s, 1, n), e)) = n + 1
         /\ Append(SubSeq(s, 1, n), e)[n + 1] = e
<1> DEFINE t == SubSeq(s, 1, n)
<1>1. t \in Seq(S) /\ Len(t) = n
  BY Cut
<1> HIDE DEF t
<1>2. Append(t, e) \in Seq(S) /\ Len(Append(t, e)) = Len(t) + 1 /\ Append(t, e)[Len(t) + 1] = e
  BY <1>1, AppendProperties
<1> QED
  BY <1>1, <1>2 DEF t

LEMMA LeftOut ==
  ASSUME NEW S, NEW s \in Seq(S), NEW c \in 1 .. Len(s)
  PROVE  LET t == SubSeq(s, 1, c - 1) \o SubSeq(s, c + 1, Len(s))
         IN t \in Seq(S) /\ Len(t) = Len(s) - 1
<1> DEFINE a == SubSeq(s, 1, c - 1)
           b == SubSeq(s, c + 1, Len(s))
<1>0. Len(s) \in Nat /\ \A i \in 1 .. Len(s) : s[i] \in S
  BY LenProperties, ElementOfSeq
<1>1. a \in Seq(S) /\ Len(a) = c - 1
  BY <1>0, Cut
<1>2. b \in Seq(S) /\ Len(b) = Len(s) - c
  <2>1. \A i \in c + 1 .. Len(s) : s[i] \in S
    BY <1>0
  <2>2. /\ b \in Seq(S)
        /\ Len(b) = IF c + 1 <= Len(s) THEN Len(s) - (c + 1) + 1 ELSE 0
    BY <1>0, <2>1, SubSeqProperties
  <2> QED
    BY <1>0, <2>2
<1> HIDE DEF a, b
<1>3. a \o b \in Seq(S) /\ Len(a \o b) = Len(a) + Len(b)
  BY <1>1, <1>2, ConcatProperties
<1>4. Len(a \o b) = Len(s) - 1
  BY <1>0, <1>1, <1>2, <1>3
<1> QED
  BY <1>3, <1>4 DEF a, b

LEMMA Written ==
  ASSUME NEW S, NEW s \in Seq(S), NEW c \in 0 .. Len(s) - 1, NEW e \in S
  PROVE  LET t == [i \in 1 .. (IF c + 1 > Len(s) THEN c + 1 ELSE Len(s)) |->
                     IF i = c + 1 THEN e ELSE s[i]]
         IN t \in Seq(S) /\ Len(t) = Len(s) /\ t[c + 1] = e
<1>1. Len(s) \in Nat /\ \A i \in 1 .. Len(s) : s[i] \in S
  BY LenProperties, ElementOfSeq
<1> DEFINE t == [i \in 1 .. Len(s) |-> IF i = c + 1 THEN e ELSE s[i]]
<1>2. t \in [1 .. Len(s) -> S]
  BY <1>1
<1>3. t \in Seq(S)
  BY <1>1, <1>2, SeqDef
<1>4. Len(t) = Len(s)
  BY <1>1
<1>5. t[c + 1] = e
  BY <1>1
<1>6. (IF c + 1 > Len(s) THEN c + 1 ELSE Len(s)) = Len(s)
  BY <1>1
<1> HIDE DEF t
<1> QED
  BY <1>3, <1>4, <1>5, <1>6 DEF t

(* The editor after a look at the time-out: where it is, and in which row  *)
(* a letter is pending.                                                    *)
LEMMA AfterTimeOut ==
  ASSUME PanelsInv, panel = "text"
  PROVE  LET c == IF TimedOut THEN Committed ELSE cursor
             last == IF TimedOut THEN NoRow ELSE last_map_idx
         IN /\ c \in 0 .. Len(text) /\ Committed \in 0 .. Len(text)
            /\ last \in DOMAIN Rows \cup {NoRow}
            /\ last # NoRow => /\ last = last_map_idx /\ c = cursor /\ c < Len(text)
                               /\ text[c + 1] = Rows[last][tap_pos + 1]
<1>1. /\ Len(text) \in Nat /\ cursor \in Nat /\ Len(text) <= TextMax
      /\ cursor <= Len(text) /\ TextMax \in Nat
      /\ last_map_idx \in DOMAIN Rows \cup {NoRow}
      /\ last_map_idx # NoRow => cursor < Len(text)
  BY LenProperties, PanelsAssumption DEF PanelsInv, TextTypes, TextStaysInBuffer
<1>2. Committed \in 0 .. Len(text)
  BY <1>1 DEF Committed
<1>3. last_map_idx # NoRow => text[cursor + 1] = Rows[last_map_idx][tap_pos + 1]
  BY DEF PanelsInv, TextStaysInBuffer
<1> QED
  BY <1>1, <1>2, <1>3

(* What the steps of the editor have to keep.                              *)
TextInv == /\ kind \in PanelKinds /\ panel \in {"none", kind}
           /\ TextTypes /\ TextStaysInBuffer

LEMMA TextStepKeepsOthers ==
  ASSUME PanelsInv, kind' = kind, kind = "text", OtherPanels, TextInv'
  PROVE  PanelsInv'
<1>1. panel' # "contacts"
  BY DEF TextInv
<1> QED
  BY <1>1 DEF PanelsInv, TextInv, OthersInv, OtherPanels, freq_in_band

LEMMA NameKept == ASSUME NameIsPadded, UNCHANGED name PROVE NameIsPadded'
BY DEF NameIsPadded

LEMMA TextConfirmStep ==
  ASSUME PanelsInv, panel = "text", NEW c \in Nat, NEW last,
         last # NoRow => c < Len(text), TextConfirm(c, last), kind' = kind
  PROVE  TextInv'
<1>0. /\ TextMax \in Nat /\ Len(text) \in Nat /\ Len(text) <= TextMax
      /\ \A i \in 1 .. Len(text) : text[i] \in Chars
      /\ text \in Seq(Chars)
  BY PanelsAssumption, LenProperties, ElementOfSeq DEF PanelsInv, TextTypes, TextStaysInBuffer
<1> DEFINE padded == [i \in 1 .. TextMax |-> IF i <= Len(text) THEN text[i] ELSE Blank]
<1>1. padded \in [1 .. TextMax -> Chars \cup {Blank}]
  BY <1>0
<1>2. padded \in Seq(Chars \cup {Blank})
  BY <1>0, <1>1, SeqDef
<1>3. Len(padded) = TextMax
  BY <1>0
<1>4. \A i, j \in 1 .. TextMax : padded[i] \notin Chars /\ i <= j => padded[j] = Blank
  BY <1>0
<1>5. name' = padded
  BY DEF TextConfirm
<1> HIDE DEF padded
<1>6. NameIsPadded'
  BY <1>0, <1>2, <1>3, <1>4, <1>5 DEF NameIsPadded
<1>7. cursor' \in Nat
  BY <1>0 DEF TextConfirm
<1> QED
  BY <1>6, <1>7 DEF PanelsInv, TextInv, TextTypes, TextConfirm, TextStaysInBuffer

LEMMA TextBackspaceStep ==
  ASSUME PanelsInv, panel = "text", NEW c \in 0 .. Len(text), TextBackspace(c), kind' = kind
  PROVE  TextInv'
<1>0. /\ text \in Seq(Chars) /\ Len(text) \in Nat /\ Len(text) <= TextMax /\ TextMax \in Nat
  BY PanelsAssumption, LenProperties DEF PanelsInv, TextTypes, TextStaysInBuffer
<1>1. /\ text' \in Seq(Chars) /\ Len(text') <= TextMax
      /\ cursor' \in Nat /\ cursor' <= Len(text')
  <2>1. CASE c > 0
    <3>1. c \in 1 .. Len(text)
      BY <1>0, <2>1
    <3> DEFINE t == SubSeq(text, 1, c - 1) \o SubSeq(text, c + 1, Len(text))
    <3>2. t \in Seq(Chars) /\ Len(t) = Len(text) - 1
      BY <1>0, <3>1, LeftOut
    <3>3. text' = t /\ cursor' = c - 1
      BY <2>1 DEF TextBackspace
    <3> HIDE DEF t
    <3> QED
      BY <1>0, <3>1, <3>2, <3>3
  <2>2. CASE ~(c > 0)
    BY <1>0, <2>2 DEF TextBackspace
  <2> QED
    BY <2>1, <2>2
<1>2. NameIsPadded'
  BY NameKept DEF PanelsInv, TextTypes, TextBackspace
<1> QED
  BY <1>1, <1>2 DEF PanelsInv, TextInv, TextTypes, TextBackspace, TextStaysInBuffer

LEMMA TextCaseStep ==
  ASSUME PanelsInv, panel = "text", NEW c \in 0 .. Len(text),
         NEW last \in DOMAIN Rows \cup {NoRow},
         last # NoRow => c < Len(text) /\ text[c + 1] = Rows[last][tap_pos + 1],
         TextCase(c, last), kind' = kind
  PROVE  TextInv'
<1>0. /\ text \in Seq(Chars) /\ Len(text) \in Nat /\ Len(text) <= TextMax
  BY LenProperties DEF PanelsInv, TextTypes, TextStaysInBuffer
<1>1. /\ text' \in Seq(Chars) /\ Len(text') = Len(text)
      /\ c < Len(text) => text'[c + 1] = text[c + 1]
  <2>1. CASE c > 0 /\ text[c] \in DOMAIN LowerOf
    <3>1. c \in 1 .. Len(text) /\ LowerOf[text[c]] \in Chars
      BY <1>0, <2>1, PanelsAssumption
    <3>2. text' = [text EXCEPT ![c] = LowerOf[text[c]]]
      BY <2>1 DEF TextCase
    <3>3. /\ text' \in Seq(Chars) /\ Len(text') = Len(text)
          /\ \A j \in 1 .. Len(text) : text'[j] = IF j = c THEN LowerOf[text[c]] ELSE text[j]
      BY <1>0, <3>1, <3>2, ExceptSeq
    <3> QED
      BY <1>0, <3>1, <3>3
  <2>2. CASE ~(c > 0 /\ text[c] \in DOMAIN LowerOf)
    BY <1>0, <2>2 DEF TextCase
  <2> QED
    BY <2>1, <2>2
<1>2. NameIsPadded'
  BY NameKept DEF PanelsInv, TextTypes, TextCase
<1>3. /\ cursor' = c /\ last_map_idx' = last /\ tap_pos' = tap_pos
      /\ since_tap' = since_tap /\ panel' = panel
  BY DEF TextCase
<1>4. TextStaysInBuffer'
  BY <1>0, <1>1, <1>3 DEF TextStaysInBuffer
<1> QED
  BY <1>0, <1>1, <1>2, <1>3, <1>4 DEF PanelsInv, TextInv, TextTypes

LEMMA TextLetterStep ==
  ASSUME PanelsInv, panel = "text", NEW c \in 0 .. Len(text),
         NEW last \in DOMAIN Rows \cup {NoRow},
         last # NoRow => c < Len(text) /\ text[c + 1] = Rows[last][tap_pos + 1],
         NEW k \in DOMAIN Rows, TextLetter(c, last, k), kind' = kind
  PROVE  TextInv'
<1>0. /\ text \in Seq(Chars) /\ Len(text) \in Nat /\ Len(text) <= TextMax
      /\ TextMax \in Nat /\ tap_pos \in Nat /\ TapTimeout \in Nat
      /\ since_tap \in 0 .. TapTimeout + 1
  BY LenProperties, PanelsAssumption DEF PanelsInv, TextTypes, TextStaysInBuffer
<1>1. /\ Rows[k] \in Seq(Chars) /\ Len(Rows[k]) \in Nat /\ Len(Rows[k]) > 0 /\ k # NoRow
      /\ \A n \in 1 .. Len(Rows[k]) : Rows[k][n] \in Chars
  BY PanelsAssumption, EmptySeq, ElementOfSeq
<1>2. NameIsPadded'
  BY NameKept DEF PanelsInv, TextTypes, TextLetter
<1>3. panel' = panel
  BY DEF TextLetter
<1>4. CASE k = last
  <2>1. /\ tap_pos' = (tap_pos + 1) % Len(Rows[k])
        /\ text' = SetAt(c, Rows[k][tap_pos' + 1])
        /\ since_tap' = 0 /\ cursor' = c /\ last_map_idx' = last
    BY <1>4 DEF TextLetter
  <2>2. tap_pos' \in 0 .. Len(Rows[k]) - 1
    BY <1>0, <1>1, <2>1
  <2>3. Rows[k][tap_pos' + 1] \in Chars
    BY <1>1, <2>2
  <2>4. c \in 0 .. Len(text) - 1
    BY <1>0, <1>1, <1>4
  <2>5. /\ text' \in Seq(Chars) /\ Len(text') = Len(text)
        /\ text'[c + 1] = Rows[k][tap_pos' + 1]
    BY <1>0, <2>1, <2>3, <2>4, Written DEF SetAt
  <2>6. TextStaysInBuffer'
    BY <1>0, <1>4, <2>1, <2>4, <2>5 DEF TextStaysInBuffer
  <2> QED
    BY <1>0, <1>2, <1>3, <2>1, <2>2, <2>4, <2>5, <2>6 DEF PanelsInv, TextInv, TextTypes
<1>5. CASE k # last
  <2> DEFINE at == IF last # NoRow /\ c < TextMax THEN c + 1 ELSE c
  <2>1. at \in 0 .. Len(text)
    BY <1>0
  <2>2. /\ cursor' = at
        /\ IF at >= TextMax
           THEN last_map_idx' = NoRow /\ UNCHANGED <<text, tap_pos, since_tap>>
           ELSE /\ last_map_idx' = k /\ tap_pos' = 0 /\ since_tap' = 0
                /\ text' = Append(SubSeq(text, 1, at), Rows[k][1])
    BY <1>5 DEF TextLetter
  <2> HIDE DEF at
  <2>3. CASE at >= TextMax
    BY <1>0, <1>2, <1>3, <2>1, <2>2, <2>3 DEF PanelsInv, TextInv, TextTypes, TextStaysInBuffer
  <2>4. CASE ~(at >= TextMax)
    <3>1. Rows[k][1] \in Chars
      BY <1>1
    <3>2. text' = Append(SubSeq(text, 1, at), Rows[k][1])
      BY <2>2, <2>4
    <3>3. text' \in Seq(Chars) /\ Len(text') = at + 1 /\ text'[at + 1] = Rows[k][1]
      BY <1>0, <2>1, <3>1, <3>2, CutAndAppended
    <3>4. TextStaysInBuffer'
      BY <1>0, <2>1, <2>2, <2>4, <3>3 DEF TextStaysInBuffer
    <3> QED
      BY <1>0, <1>2, <1>3, <2>1, <2>2, <2>4, <3>3, <3>4 DEF PanelsInv, TextInv, TextTypes
  <2> QED
    BY <2>3, <2>4
<1> QED
  BY <1>4, <1>5

LEMMA TextStartStep ==
  ASSUME PanelsInv, TextStart, kind' = kind
  PROVE  TextInv'
<1> PICK n \in 0 .. Len(name) :
       /\ \A i \in n + 1 .. Len(name) : name[i] = Blank
       /\ n > 0 => name[n] # Blank
       /\ text' = SubSeq(name, 1, n) /\ cursor' = n
  BY DEF TextStart
<1>0. /\ name \in Seq(Chars \cup {Blank}) /\ Len(name) \in Nat /\ Len(name) <= TextMax
      /\ \A i, j \in 1 .. Len(name) : name[i] \notin Chars /\ i <= j => name[j] = Blank
      /\ TextMax \in Nat /\ TapTimeout \in Nat
  BY LenProperties, PanelsAssumption DEF PanelsInv, TextTypes, NameIsPadded
<1>1. \A i \in 1 .. n : name[i] \in Chars
  BY <1>0
<1>2. /\ SubSeq(name, 1, n) \in Seq(Chars)
      /\ Len(SubSeq(name, 1, n)) = IF 1 <= n THEN n - 1 + 1 ELSE 0
  BY <1>0, <1>1, SubSeqProperties
<1>3. Len(text') = n /\ text' \in Seq(Chars)
  BY <1>0, <1>2
<1>4. NameIsPadded'
  BY NameKept DEF PanelsInv, TextTypes, TextStart
<1>5. /\ last_map_idx' = NoRow /\ tap_pos' = 0 /\ since_tap' = 0 /\ panel' = kind
  BY DEF TextStart
<1>6. TextStaysInBuffer'
  BY <1>0, <1>3, <1>5 DEF TextStaysInBuffer
<1> QED
  BY <1>0, <1>3, <1>4, <1>5, <1>6 DEF PanelsInv, TextInv, TextTypes, TextStart

LEMMA TextStepsKeepText ==
  ASSUME PanelsInv, kind' = kind,
         TextStart \/ text_input_handle_key \/ TextEncoder \/ TextDraw \/ TapTick
  PROVE  PanelsInv'
<1>1. kind = "text" /\ OtherPanels
  BY DEF PanelsInv, PanelKinds, TextStart, text_input_handle_key, TextEncoder, TextDraw, TapTick
<1>2. CASE TextStart
  BY <1>1, <1>2, TextStartStep, TextStepKeepsOthers
<1>3. CASE text_input_handle_key
  <2> DEFINE c == IF TimedOut THEN Committed ELSE cursor
             last == IF TimedOut THEN NoRow ELSE last_map_idx
  <2>1. /\ c \in 0 .. Len(text) /\ last \in DOMAIN Rows \cup {NoRow}
        /\ last # NoRow => c < Len(text) /\ text[c + 1] = Rows[last][tap_pos + 1]
        /\ panel = "text"
    BY <1>3, AfterTimeOut DEF text_input_handle_key
  <2>2. \/ TextConfirm(c, last)
        \/ TextCancel(c, last)
        \/ TextBackspace(c)
        \/ TextCase(c, last)
        \/ \E k \in DOMAIN Rows : TextLetter(c, last, k)
    BY <1>3 DEF text_input_handle_key
  <2> HIDE DEF c, last
  <2>3. c \in Nat
    BY <2>1
  <2>4. CASE TextConfirm(c, last)
    BY <2>1, <2>3, <2>4, TextConfirmStep, <1>1, TextStepKeepsOthers
  <2>5. CASE TextCancel(c, last)
    <3>1. NameIsPadded'
      BY <2>5, NameKept DEF PanelsInv, TextTypes, TextCancel
    <3>2. TextInv'
      BY <2>1, <2>3, <2>5, <3>1 DEF PanelsInv, TextInv, TextTypes, TextCancel, TextStaysInBuffer
    <3> QED
      BY <3>2, <1>1, TextStepKeepsOthers
  <2>6. CASE TextBackspace(c)
    BY <2>1, <2>6, TextBackspaceStep, <1>1, TextStepKeepsOthers
  <2>7. CASE TextCase(c, last)
    BY <2>1, <2>7, TextCaseStep, <1>1, TextStepKeepsOthers
  <2>8. CASE \E k \in DOMAIN Rows : TextLetter(c, last, k)
    BY <2>1, <2>8, TextLetterStep, <1>1, TextStepKeepsOthers
  <2> QED
    BY <2>2, <2>4, <2>5, <2>6, <2>7, <2>8
<1>4. CASE TextEncoder
  <2>1. Committed \in 0 .. Len(text) /\ Len(text) \in Nat
    BY <1>4, AfterTimeOut, LenProperties DEF TextEncoder, PanelsInv, TextTypes
  <2>2. cursor' \in 0 .. Len(text)
    BY <1>4, <2>1 DEF TextEncoder
  <2>3. NameIsPadded'
    BY <1>4, NameKept DEF PanelsInv, TextTypes, TextEncoder
  <2>4. TextInv'
    BY <1>4, <2>1, <2>2, <2>3 DEF PanelsInv, TextInv, TextTypes, TextEncoder, TextStaysInBuffer
  <2> QED
    BY <2>4, <1>1, TextStepKeepsOthers
<1>5. CASE TextDraw
  <2>1. Committed \in 0 .. Len(text) /\ Len(text) \in Nat
    BY <1>5, AfterTimeOut, LenProperties DEF TextDraw, PanelsInv, TextTypes
  <2>3. NameIsPadded'
    BY <1>5, NameKept DEF PanelsInv, TextTypes, TextDraw
  <2>4. TextInv'
    BY <1>5, <2>1, <2>3 DEF PanelsInv, TextInv, TextTypes, TextDraw, TextStaysInBuffer
  <2> QED
    BY <2>4, <1>1, TextStepKeepsOthers
<1>6. CASE TapTick
  <2>1. since_tap' \in 0 .. TapTimeout + 1
    BY <1>6, PanelsAssumption DEF TapTick, PanelsInv, TextTypes
  <2>3. NameIsPadded'
    BY <1>6, NameKept DEF PanelsInv, TextTypes, TapTick
  <2>4. TextInv'
    BY <1>6, <2>1, <2>3 DEF PanelsInv, TextInv, TextTypes, TapTick, TextStaysInBuffer
  <2> QED
    BY <2>4, <1>1, TextStepKeepsOthers
<1> QED
  BY <1>2, <1>3, <1>4, <1>5, <1>6

(* The entry gives a frequency away only when it is in a band.             *)
LEMMA FreqConfirmed ==
  ASSUME NEW d, FreqConfirm(d), entered = 0 \/ freq_in_band(entered),
         kind = "freq", panel \in {"none", kind}
  PROVE  (entered' = 0 \/ freq_in_band(entered')) /\ panel' \in {"none", kind}
BY DEF FreqConfirm

LEMMA FreqStepsKeep ==
  ASSUME PanelsInv, kind' = kind,
         FreqStart \/ FreqDigit \/ FreqHash \/ FreqBackspace \/ FreqCancel
  PROVE  PanelsInv'
<1>1. kind = "freq" /\ FreqUnused
  BY DEF PanelsInv, PanelKinds, FreqStart, FreqDigit, FreqHash, FreqBackspace, FreqCancel
<1>2. TextTypes'
  BY <1>1, NameKept DEF FreqUnused, TapState, PanelsInv, TextTypes
<1>3. scroll_top' \in Nat
  BY <1>1 DEF FreqUnused, PanelsInv, OthersInv
<1>4. SUFFICES /\ digits' \in Seq(PanelDigits) /\ panel' \in {"none", kind}
               /\ entered' = 0 \/ freq_in_band(entered')
  BY <1>1, <1>2, <1>3 DEF PanelsInv, OthersInv, TextStaysInBuffer, freq_in_band
<1>5. /\ digits \in Seq(PanelDigits) /\ panel \in {"none", kind}
      /\ entered = 0 \/ freq_in_band(entered)
  BY DEF PanelsInv, OthersInv
<1>6. CASE FreqStart
  <2>1. \A d \in PanelDigits : <<d>> \in Seq(PanelDigits)
    OBVIOUS
  <2> QED
    BY <1>5, <1>6, <2>1 DEF FreqStart
<1>7. CASE FreqDigit
  <2> PICK d \in PanelDigits :
        /\ digits' = Append(digits, d)
        /\ IF Len(digits') = 6 THEN FreqConfirm(digits') ELSE UNCHANGED <<entered, panel>>
    BY <1>7 DEF FreqDigit
  <2>1. digits' \in Seq(PanelDigits)
    BY <1>5, AppendProperties
  <2>2. CASE FreqConfirm(digits')
    BY <1>1, <1>5, <2>1, <2>2, FreqConfirmed
  <2>3. CASE UNCHANGED <<entered, panel>>
    BY <1>5, <2>1, <2>3
  <2> QED
    BY <2>2, <2>3
<1>8. CASE FreqHash
  BY <1>1, <1>5, <1>8, FreqConfirmed DEF FreqHash
<1>9. CASE FreqBackspace
  <2>1. Len(digits) - 1 \in 0 .. Len(digits)
    BY <1>5, <1>9, EmptySeq DEF FreqBackspace
  <2>2. digits' \in Seq(PanelDigits)
    BY <1>5, <1>9, <2>1, Cut DEF FreqBackspace
  <2> QED
    BY <1>5, <1>9, <2>2 DEF FreqBackspace
<1>10. CASE FreqCancel
  BY <1>5, <1>10, EmptySeq DEF FreqCancel
<1> QED
  BY <1>6, <1>7, <1>8, <1>9, <1>10

LEMMA BrowserStepsKeep ==
  ASSUME PanelsInv, kind' = kind,
         BrowserOpen \/ BrowserTake \/ BrowserBack \/ BrowserEncoder
  PROVE  PanelsInv'
<1>1. kind \in {"zones", "contacts"} /\ BrowserUnused /\ panel' \in {"none", kind}
  BY DEF PanelsInv, PanelKinds, BrowserOpen, BrowserTake, BrowserBack, BrowserEncoder
<1>2. /\ cursor \in Nat /\ scroll_top \in Nat
      /\ panel = "contacts" => scroll_top <= cursor /\ cursor < scroll_top + VisibleRows
      /\ VisibleRows \in Nat \ {0} /\ Zones \in Nat \ {0} /\ Contacts \in Nat \ {0}
  BY PanelsAssumption DEF PanelsInv, TextTypes, OthersInv
<1>3. /\ cursor' \in Nat /\ scroll_top' \in Nat
      /\ panel' = "contacts" => scroll_top' <= cursor' /\ cursor' < scroll_top' + VisibleRows
  <2>1. CASE BrowserOpen
    BY <1>2, <2>1 DEF BrowserOpen
  <2>2. CASE BrowserTake \/ BrowserBack
    BY <1>2, <2>2 DEF BrowserTake, BrowserBack
  <2>3. CASE BrowserEncoder
    <3>1. cursor' \in Nat /\ cursor' \in cursor - 1 .. cursor + 1
      BY <1>2, <2>3 DEF BrowserEncoder
    <3>2. /\ panel' = panel
          /\ scroll_top' = IF panel = "zones" THEN scroll_top
                   ELSE IF cursor' < scroll_top THEN cursor'
                   ELSE IF cursor' >= scroll_top + VisibleRows
                        THEN cursor' - VisibleRows + 1 ELSE scroll_top
      BY <2>3 DEF BrowserEncoder
    <3>3. CASE panel = "zones"
      BY <1>2, <3>1, <3>2, <3>3
    <3>4. CASE panel # "zones"
      <4>1. panel = "contacts"
        BY <2>3, <3>4 DEF BrowserEncoder
      <4>2. scroll_top' = IF cursor' < scroll_top THEN cursor'
                          ELSE IF cursor' >= scroll_top + VisibleRows
                               THEN cursor' - VisibleRows + 1 ELSE scroll_top
        BY <3>2, <3>4
      <4> DEFINE new == cursor'
                 top == scroll_top'
      <4>3. /\ new \in Nat /\ scroll_top \in Nat /\ VisibleRows \in Nat \ {0}
            /\ top = IF new < scroll_top THEN new
                     ELSE IF new >= scroll_top + VisibleRows
                          THEN new - VisibleRows + 1 ELSE scroll_top
        BY <1>2, <3>1, <4>2
      <4> HIDE DEF new, top
      <4>4. top \in Nat /\ top <= new /\ new < top + VisibleRows
        BY <4>3
      <4> QED
        BY <3>1, <4>4 DEF new, top
    <3> QED
      BY <3>3, <3>4
  <2> QED
    BY <2>1, <2>2, <2>3
<1>4. TextTypes'
  BY <1>1, <1>3, NameKept DEF BrowserUnused, TapState, PanelsInv, TextTypes
<1>5. digits' = digits /\ entered' = entered
  BY <1>1 DEF BrowserUnused
<1>6. OthersInv'
  BY <1>3, <1>5 DEF PanelsInv, OthersInv, freq_in_band
<1> QED
  BY <1>1, <1>4, <1>6 DEF PanelsInv, TextStaysInBuffer

LEMMA PanelsInvStep == ASSUME PanelsInv, PanelsNext PROVE PanelsInv'
BY TextStepsKeepText, FreqStepsKeep, BrowserStepsKeep DEF PanelsNext

-----------------------------------------------------------------------------
(* The channels. *)

(* The powers of 100.                                                      *)
LEMMA Pow100Def ==
  /\ Pow100 \in [Nat -> Nat \ {0}]
  /\ Pow100[0] = 1
  /\ \A n \in Nat \ {0} : Pow100[n] = 100 * Pow100[n - 1]
<1> DEFINE Body(g) == [n \in Nat |-> IF n = 0 THEN 1 ELSE 100 * g[n - 1]]
           step == [p \in Nat \X (Nat \ {0}) |-> 100 * p[2]]
<1>1. step \in [Nat \X (Nat \ {0}) -> Nat \ {0}]
  OBVIOUS
<1>2. \A n \in Nat, x \in Nat \ {0} : step[<<n, x>>] = 100 * x
  OBVIOUS
<1> HIDE DEF step
<1>3. PICK f : Unfolds(f, Nat \ {0}, 1, step)
  <2>1. 1 \in Nat \ {0}
    OBVIOUS
  <2> QED
    BY <1>1, <2>1, Recursion
<1>4. \A n \in Nat \ {0} : f[n] = 100 * f[n - 1]
  <2> SUFFICES ASSUME NEW n \in Nat \ {0} PROVE f[n] = 100 * f[n - 1]
    OBVIOUS
  <2>1. n - 1 \in Nat /\ n \in Nat
    OBVIOUS
  <2>2. f[n - 1] \in Nat \ {0}
    BY <1>3, <2>1 DEF Unfolds
  <2> QED
    BY <1>2, <1>3, <2>1, <2>2 DEF Unfolds
<1>5. f = Body(f)
  <2>1. f = [n \in Nat |-> f[n]]
    BY <1>3 DEF Unfolds
  <2>2. ASSUME NEW n \in Nat PROVE f[n] = IF n = 0 THEN 1 ELSE 100 * f[n - 1]
    BY <1>3, <1>4 DEF Unfolds
  <2> QED
    BY <2>1, <2>2
<1>6. Pow100 = CHOOSE g : g = Body(g)
  BY DEF Pow100
<1>7. Pow100 = Body(Pow100)
  <2> HIDE DEF Body
  <2> QED
    BY <1>5, <1>6
<1>8. \A n \in Nat : Pow100[n] = IF n = 0 THEN 1 ELSE 100 * Pow100[n - 1]
  BY <1>7
<1>9. DOMAIN Pow100 = Nat /\ Pow100 = [n \in Nat |-> Pow100[n]]
  BY <1>7
<1>10. ASSUME NEW n \in Nat PROVE Pow100[n] \in Nat \ {0}
  <2> DEFINE S == {k \in Nat : Pow100[k] \in Nat \ {0}}
  <2>1. 0 \in S
    BY <1>8
  <2>2. \A i \in 1 .. n : i - 1 \in S => i \in S
    <3> SUFFICES ASSUME NEW i \in 1 .. n, i - 1 \in S PROVE i \in S
      OBVIOUS
    <3> DEFINE x == Pow100[i - 1]
    <3>1. x \in Nat \ {0} /\ Pow100[i] = 100 * x
      BY <1>8
    <3> HIDE DEF x
    <3>2. 100 * x \in Nat \ {0}
      BY <3>1
    <3> QED
      BY <3>1, <3>2
  <2> HIDE DEF S
  <2>3. 0 .. n \subseteq S
    BY <2>1, <2>2, Climb
  <2>4. n \in S
    BY <2>3
  <2> QED
    BY <2>4 DEF S
<1> QED
  BY <1>8, <1>9, <1>10

(* A byte of packed BCD holds the two figures put into it.                 *)
LEMMA PairBack ==
  ASSUME NEW pair \in 0 .. 99
  PROVE  LET b == 16 * (pair \div 10) + (pair % 10)
         IN b \in 0 .. 153 /\ BcdPair(b) = pair
<1> DEFINE q == pair \div 10
           r == pair % 10
           b == 16 * q + r
<1>1. q \in 0 .. 9 /\ r \in 0 .. 9 /\ pair = 10 * q + r
  OBVIOUS
<1> HIDE DEF q, r
<1>2. b \in 0 .. 153 /\ b \div 16 = q /\ b % 16 = r
  BY <1>1
<1> QED
  BY <1>1, <1>2 DEF BcdPair, q, r

(* The value of a row of bytes, unfolded.                                  *)
LEMMA BcdUnfolds ==
  ASSUME NEW bcd \in [1 .. BcdBytes -> Nat]
  PROVE  \E v : /\ v \in [0 .. BcdBytes -> Nat] /\ v[0] = 0
                /\ \A i \in 1 .. BcdBytes : v[i] = v[i - 1] * 100 + BcdPair(bcd[i])
                /\ BcdValue(bcd) = v[BcdBytes]
<1> DEFINE Body(g) == [i \in 0 .. BcdBytes |->
                         IF i = 0 THEN 0 ELSE g[i - 1] * 100 + BcdPair(bcd[i])]
           step == [p \in (1 .. BcdBytes) \X Nat |-> p[2] * 100 + BcdPair(bcd[p[1]])]
           v == CHOOSE g : g = Body(g)
<1>1. BcdBytes \in Nat \ {0}
  BY ChannelAssumption
<1>2. \A i \in 1 .. BcdBytes : BcdPair(bcd[i]) \in Nat
  BY DEF BcdPair
<1>3. step \in [(1 .. BcdBytes) \X Nat -> Nat]
  <2> SUFFICES ASSUME NEW i \in 1 .. BcdBytes, NEW x \in Nat
               PROVE  x * 100 + BcdPair(bcd[i]) \in Nat
    OBVIOUS
  <2> QED
    BY <1>2
<1>4. \A i \in 1 .. BcdBytes, x \in Nat : step[<<i, x>>] = x * 100 + BcdPair(bcd[i])
  OBVIOUS
<1> HIDE DEF step
<1>5. PICK f : UnfoldsTo(BcdBytes, f, Nat, 0, step)
  BY <1>1, <1>3, BoundedRecursion
<1>6. f = Body(f)
  <2>1. f = [i \in 0 .. BcdBytes |-> f[i]]
    BY <1>5 DEF UnfoldsTo
  <2>2. ASSUME NEW i \in 0 .. BcdBytes
        PROVE  f[i] = IF i = 0 THEN 0 ELSE f[i - 1] * 100 + BcdPair(bcd[i])
    <3>1. CASE i = 0
      BY <1>5, <3>1 DEF UnfoldsTo
    <3>2. CASE i # 0
      <4>1. i \in 1 .. BcdBytes /\ i - 1 \in 0 .. BcdBytes
        BY <1>1, <3>2
      <4>2. f[i - 1] \in Nat /\ f[i] = step[<<i, f[i - 1]>>]
        BY <1>5, <4>1 DEF UnfoldsTo
      <4> QED
        BY <1>4, <3>2, <4>1, <4>2
    <3> QED
      BY <3>1, <3>2
  <2> QED
    BY <2>1, <2>2
<1>7. v = Body(v)
  <2> HIDE DEF Body
  <2> QED
    BY <1>6
<1>8. BcdValue(bcd) = v[BcdBytes]
  BY DEF BcdValue
<1> HIDE DEF v
<1>9. DOMAIN v = 0 .. BcdBytes /\ v = [i \in 0 .. BcdBytes |-> v[i]]
  BY <1>7
<1>10. v[0] = 0
  BY <1>1, <1>7
<1>11. \A i \in 1 .. BcdBytes : v[i] = v[i - 1] * 100 + BcdPair(bcd[i])
  BY <1>1, <1>7
<1>12. \A i \in 0 .. BcdBytes : v[i] \in Nat
  <2> DEFINE S == {i \in 0 .. BcdBytes : v[i] \in Nat}
  <2>1. 0 \in S
    BY <1>1, <1>10
  <2>2. ASSUME NEW i \in 1 .. BcdBytes, i - 1 \in S PROVE i \in S
    <3> DEFINE x == v[i - 1]
               y == BcdPair(bcd[i])
    <3>1. x \in Nat /\ y \in Nat /\ v[i] = x * 100 + y
      BY <1>2, <1>11, <2>2
    <3> HIDE DEF x, y
    <3>2. x * 100 + y \in Nat
      BY <3>1
    <3> QED
      BY <1>1, <3>1, <3>2
  <2> HIDE DEF S
  <2>3. 0 .. BcdBytes \subseteq S
    BY <1>1, <2>1, <2>2, Climb
  <2> QED
    BY <2>3 DEF S
<1> QED
  BY <1>8, <1>9, <1>10, <1>11, <1>12

(* A frequency that fits the digits is read back to 10 Hz, and its first   *)
(* byte is not that of an erased record.                                   *)
LEMMA BcdBack ==
  ASSUME NEW hz \in Nat, hz \div 10 < Pow100[BcdBytes]
  PROVE  /\ hz_to_bcd(hz) \in [1 .. BcdBytes -> 0 .. 153]
         /\ bcd_to_hz(hz_to_bcd(hz)) = 10 * (hz \div 10)
<1> DEFINE n == hz \div 10
           P(i) == Pow100[BcdBytes - i]
           pair(i) == (n \div P(i)) % 100
           bcd == hz_to_bcd(hz)
<1>1. BcdBytes \in Nat \ {0}
  BY ChannelAssumption
<1>2. n \in Nat
  OBVIOUS
<1>3. n < Pow100[BcdBytes]
  OBVIOUS
<1>4. bcd = [i \in 1 .. BcdBytes |-> 16 * (pair(i) \div 10) + (pair(i) % 10)]
  BY DEF hz_to_bcd
<1> HIDE DEF n, bcd
<1>5. \A i \in 0 .. BcdBytes : P(i) \in Nat \ {0}
  BY <1>1, Pow100Def
<1>6. \A i \in 0 .. BcdBytes : n \div P(i) \in Nat
  <2> SUFFICES ASSUME NEW i \in 0 .. BcdBytes PROVE n \div P(i) \in Nat
    OBVIOUS
  <2> DEFINE p == P(i)
  <2>1. p \in Nat \ {0}
    BY <1>5
  <2> HIDE DEF p
  <2>2. n \div p \in Nat
    BY <1>2, <2>1
  <2> QED
    BY <2>2 DEF p
<1>7. \A i \in 1 .. BcdBytes : pair(i) \in 0 .. 99
  <2> SUFFICES ASSUME NEW i \in 1 .. BcdBytes PROVE pair(i) \in 0 .. 99
    OBVIOUS
  <2> DEFINE x == n \div P(i)
  <2>1. x \in Nat
    BY <1>6
  <2> HIDE DEF x
  <2>2. x % 100 \in 0 .. 99
    BY <2>1
  <2> QED
    BY <2>2 DEF x
<1>8. \A i \in 1 .. BcdBytes : bcd[i] \in 0 .. 153 /\ BcdPair(bcd[i]) = pair(i)
  <2> SUFFICES ASSUME NEW i \in 1 .. BcdBytes
               PROVE  bcd[i] \in 0 .. 153 /\ BcdPair(bcd[i]) = pair(i)
    OBVIOUS
  <2>1. bcd[i] = 16 * (pair(i) \div 10) + (pair(i) % 10)
    BY <1>4
  <2>2. pair(i) \in 0 .. 99
    BY <1>7
  <2> HIDE DEF pair
  <2> QED
    BY <2>1, <2>2, PairBack
<1>9. bcd \in [1 .. BcdBytes -> 0 .. 153]
  BY <1>4, <1>8
<1>10. PICK v : /\ v \in [0 .. BcdBytes -> Nat] /\ v[0] = 0
                /\ \A i \in 1 .. BcdBytes : v[i] = v[i - 1] * 100 + BcdPair(bcd[i])
                /\ BcdValue(bcd) = v[BcdBytes]
  <2>1. bcd \in [1 .. BcdBytes -> Nat]
    <3>1. (0 .. 153) \subseteq Nat
      OBVIOUS
    <3> QED
      BY <1>9, <3>1
  <2> QED
    BY <2>1, BcdUnfolds
<1> DEFINE S == {i \in 0 .. BcdBytes : v[i] = n \div P(i)}
<1>11. 0 \in S
  <2> DEFINE p == Pow100[BcdBytes]
  <2>1. p \in Nat \ {0} /\ P(0) = p
    BY <1>1, Pow100Def
  <2>2. n < p
    BY <1>3
  <2> HIDE DEF p
  <2>3. n \div p = 0
    <3>1. n = p * 0 + n /\ n \in 0 .. p - 1
      BY <1>2, <2>1, <2>2
    <3> QED
      BY <1>2, <2>1, <3>1, DivUnique
  <2> QED
    BY <1>1, <1>10, <2>1, <2>3
<1>12. ASSUME NEW i \in 1 .. BcdBytes, i - 1 \in S PROVE i \in S
  <2> DEFINE p == P(i)
             x == n \div p
  <2>1. p \in Nat \ {0}
    BY <1>5
  <2>2. P(i - 1) = 100 * p
    <3> DEFINE k == BcdBytes - (i - 1)
    <3>1. k \in Nat \ {0} /\ k - 1 = BcdBytes - i
      BY <1>1
    <3>2. Pow100[k] = 100 * Pow100[k - 1]
      BY <3>1, Pow100Def
    <3> QED
      BY <3>1, <3>2
  <2>3. v[i - 1] = n \div P(i - 1)
    BY <1>12
  <2>4. x \in Nat
    BY <1>6
  <2>5. v[i] = v[i - 1] * 100 + pair(i) /\ pair(i) = x % 100
    BY <1>8, <1>10
  <2> HIDE DEF p, pair
  <2>6. v[i - 1] = x \div 100
    <3>1. 100 \in Nat \ {0}
      OBVIOUS
    <3>2. n \div (100 * p) = (n \div p) \div 100
      BY <1>2, <2>1, <3>1, DivTwice
    <3>3. P(i - 1) = 100 * p
      BY <2>2
    <3>4. v[i - 1] = n \div (100 * p)
      BY <2>3, <3>3
    <3> QED
      BY <3>2, <3>4
  <2> HIDE DEF x
  <2>7. (x \div 100) * 100 + (x % 100) = x
    BY <2>4
  <2>8. v[i] = x
    BY <2>5, <2>6, <2>7
  <2> QED
    BY <2>8 DEF x, p
<1>13. BcdBytes \in S
  <2> HIDE DEF S
  <2>1. 0 .. BcdBytes \subseteq S
    BY <1>1, <1>11, <1>12, Climb
  <2> QED
    BY <1>1, <2>1
<1>14. v[BcdBytes] = n
  <2>1. P(BcdBytes) = 1
    BY <1>1, Pow100Def
  <2>2. v[BcdBytes] = n \div 1
    BY <1>13, <2>1
  <2> QED
    BY <1>2, <2>2
<1>15. bcd_to_hz(bcd) = 10 * n
  BY <1>10, <1>14 DEF bcd_to_hz
<1> QED
  BY <1>9, <1>15 DEF bcd, n

(* A VFO that was saved and recalled.                                      *)
LEMMA VfoComesBack == VfoSurvives
<1> SUFFICES ASSUME NEW s \in VfoStates
             PROVE  /\ Recalled(s).freq = 10 * (s.freq \div 10)
                    /\ [Recalled(s) EXCEPT !.freq = s.freq] =
                         [s EXCEPT !.dcs = IF s.ctcss_tx # NoTone /\ s.ctcss_rx # NoTone
                                           THEN NoTone ELSE @]
  BY DEF VfoSurvives
<1> DEFINE ch == channel_from_vfo(s)
           raw == Pack(ch)
<1>1. s \in [freq : Nat, power : 0 .. 3, squelch : 0 .. 15, ctcss_tx : 0 .. NoTone,
             ctcss_rx : 0 .. NoTone, dcs : 0 .. NoTone]
      /\ s.freq \div 10 < Pow100[BcdBytes]
  <2>1. Pow100[BcdBytes] \in Nat
    BY ChannelAssumption, Pow100Def
  <2> QED
    BY <2>1, VfoStatesAssumption
<1>2. bcd_to_hz(hz_to_bcd(s.freq)) = 10 * (s.freq \div 10)
  BY <1>1, BcdBack
<1>3. raw.rx = hz_to_bcd(s.freq) /\ raw.power = s.power % 4 /\ raw.squelch = s.squelch % 16
      /\ raw.txtone = PackTone(s.ctcss_tx, s.dcs) /\ raw.rxtone = PackTone(s.ctcss_rx, s.dcs)
  BY DEF Pack, channel_from_vfo
<1>4. raw.power = s.power /\ raw.squelch = s.squelch
  BY <1>1, <1>3
<1>5. Recalled(s) = [freq |-> bcd_to_hz(raw.rx), power |-> raw.power, squelch |-> raw.squelch,
                     ctcss_tx |-> ToneOf("CTCSS", raw.txtone),
                     ctcss_rx |-> ToneOf("CTCSS", raw.rxtone),
                     dcs |-> IF ToneOf("DCS", raw.txtone) # NoTone
                             THEN ToneOf("DCS", raw.txtone) ELSE ToneOf("DCS", raw.rxtone)]
  <2> HIDE DEF raw
  <2> QED
    BY DEF Recalled, channel_to_vfo, Unpack, raw
<1> HIDE DEF raw
<1>6. \A c, d \in 0 .. NoTone :
        /\ ToneOf("CTCSS", PackTone(c, d)) = c
        /\ ToneOf("DCS", PackTone(c, d)) = IF c # NoTone THEN NoTone ELSE d
  BY DEF ToneOf, PackTone, NoTone
<1>7. /\ ToneOf("CTCSS", raw.txtone) = s.ctcss_tx
      /\ ToneOf("CTCSS", raw.rxtone) = s.ctcss_rx
      /\ ToneOf("DCS", raw.txtone) = IF s.ctcss_tx # NoTone THEN NoTone ELSE s.dcs
      /\ ToneOf("DCS", raw.rxtone) = IF s.ctcss_rx # NoTone THEN NoTone ELSE s.dcs
  BY <1>1, <1>3, <1>6
<1> DEFINE d == IF s.ctcss_tx # NoTone /\ s.ctcss_rx # NoTone THEN NoTone ELSE s.dcs
<1>8. Recalled(s) = [freq |-> 10 * (s.freq \div 10), power |-> s.power, squelch |-> s.squelch,
                     ctcss_tx |-> s.ctcss_tx, ctcss_rx |-> s.ctcss_rx, dcs |-> d]
  BY <1>2, <1>3, <1>4, <1>5, <1>7
<1>9. s = [freq |-> s.freq, power |-> s.power, squelch |-> s.squelch,
           ctcss_tx |-> s.ctcss_tx, ctcss_rx |-> s.ctcss_rx, dcs |-> s.dcs]
  BY <1>1
<1> QED
  BY <1>8, <1>9

(* Where the walk from a channel is after i steps.                         *)
Wrapped(start, dir, i) == (start + dir * i) % ChannelCount
Ahead(start, dir, c) == (dir * (c - start) - 1) % ChannelCount

LEMMA WalkIs ==
  ASSUME NEW start \in Channels, NEW dir \in {-1, 1}
  PROVE  Walk(start, dir) = [i \in 0 .. ChannelCount |-> Wrapped(start, dir, i)]
<1> DEFINE N == ChannelCount
           Body(g) == [i \in 0 .. N |-> IF i = 0 THEN start ELSE Step(g[i - 1], dir)]
           f == [i \in 0 .. N |-> Wrapped(start, dir, i)]
           w == CHOOSE g : g = Body(g)
<1>1. N \in Nat \ {0} /\ start \in 0 .. N - 1
  BY ChannelAssumption DEF Channels
<1> HIDE DEF N
<1>2. Wrapped(start, dir, 0) = start
  <2>1. start % N = start
    <3>1. start = N * 0 + start
      BY <1>1
    <3> QED
      BY <1>1, <3>1, DivUnique
  <2>2. start + dir * 0 = start
    BY <1>1
  <2> QED
    BY <2>1, <2>2 DEF Wrapped, N
<1>3. ASSUME NEW i \in 1 .. N
      PROVE  Wrapped(start, dir, i) = Step(Wrapped(start, dir, i - 1), dir)
  <2> DEFINE a == start + dir * (i - 1)
             q == a \div N
             r == a % N
  <2>1. a \in Int /\ start + dir * i = a + dir
    BY <1>1
  <2> HIDE DEF a
  <2>2. q \in Int /\ r \in 0 .. N - 1 /\ a = (N * q) + r
    BY <1>1, <2>1, DivMod
  <2> HIDE DEF q, r
  <2>3. CASE dir = 1
    <3>1. CASE r = N - 1
      <4>1. a + 1 = N * (q + 1) + 0 /\ r + 1 = N * 1 + 0
        BY <1>1, <2>2, <3>1
      <4>2. 0 \in 0 .. N - 1 /\ a + 1 \in Int /\ q + 1 \in Int /\ r + 1 \in Int /\ 1 \in Int
        BY <1>1, <2>1, <2>2
      <4>3. (a + 1) % N = 0 /\ (r + 1) % N = 0
        BY <1>1, <4>1, <4>2, DivUnique
      <4> QED
        BY <2>1, <2>3, <4>3 DEF Wrapped, Step, a, r, N
    <3>2. CASE r # N - 1
      <4>1. a + 1 = N * q + (r + 1) /\ r + 1 = N * 0 + (r + 1)
        BY <1>1, <2>2, <3>2
      <4>2. r + 1 \in 0 .. N - 1 /\ a + 1 \in Int /\ r + 1 \in Int /\ 0 \in Int
        BY <1>1, <2>1, <2>2, <3>2
      <4>3. (a + 1) % N = r + 1 /\ (r + 1) % N = r + 1
        BY <1>1, <2>2, <4>1, <4>2, DivUnique
      <4> QED
        BY <2>1, <2>3, <4>3 DEF Wrapped, Step, a, r, N
    <3> QED
      BY <3>1, <3>2
  <2>4. CASE dir = -1
    <3>1. CASE r = 0
      <4>1. a + dir = N * (q - 1) + (N - 1)
        BY <1>1, <2>2, <2>4, <3>1
      <4>2. N - 1 \in 0 .. N - 1 /\ a + dir \in Int /\ q - 1 \in Int
        BY <1>1, <2>1, <2>2
      <4>3. (a + dir) % N = N - 1
        BY <1>1, <4>1, <4>2, DivUnique
      <4>4. Step(r, dir) = N - 1
        BY <2>4, <3>1 DEF Step, N
      <4> QED
        BY <2>1, <4>3, <4>4 DEF Wrapped, a, r, N
    <3>2. CASE r # 0
      <4>1. a + dir = N * q + (r - 1)
        BY <1>1, <2>2, <2>4
      <4>2. r - 1 \in 0 .. N - 1 /\ a + dir \in Int
        BY <1>1, <2>1, <2>2, <3>2
      <4>3. (a + dir) % N = r - 1
        BY <1>1, <2>2, <4>1, <4>2, DivUnique
      <4>4. Step(r, dir) = r - 1
        BY <2>4, <3>2 DEF Step
      <4> QED
        BY <2>1, <4>3, <4>4 DEF Wrapped, a, r, N
    <3> QED
      BY <3>1, <3>2
  <2> QED
    BY <2>3, <2>4
<1>4. f = Body(f)
  <2>1. ASSUME NEW i \in 0 .. N PROVE f[i] = IF i = 0 THEN start ELSE Step(f[i - 1], dir)
    <3>1. CASE i = 0
      BY <1>1, <1>2, <3>1
    <3>2. CASE i # 0
      <4>1. i \in 1 .. N /\ i - 1 \in 0 .. N
        BY <1>1, <3>2
      <4>2. f[i - 1] = Wrapped(start, dir, i - 1) /\ f[i] = Wrapped(start, dir, i)
        BY <4>1
      <4> QED
        BY <1>3, <3>2, <4>1, <4>2
    <3> QED
      BY <3>1, <3>2
  <2> QED
    BY <2>1
<1>5. w = Body(w)
  <2> HIDE DEF Body
  <2> QED
    BY <1>4
<1>6. Walk(start, dir) = w
  BY DEF Walk, N
<1> HIDE DEF w
<1>7. DOMAIN w = 0 .. N /\ w = [i \in 0 .. N |-> w[i]]
  BY <1>5
<1>8. w[0] = start /\ \A i \in 1 .. N : w[i] = Step(w[i - 1], dir)
  BY <1>1, <1>5
<1> DEFINE S == {i \in 0 .. N : w[i] = Wrapped(start, dir, i)}
<1>9. 0 \in S
  BY <1>1, <1>2, <1>8
<1>10. ASSUME NEW i \in 1 .. N, i - 1 \in S PROVE i \in S
  BY <1>1, <1>3, <1>8, <1>10
<1>11. 0 .. N \subseteq S
  <2> HIDE DEF S
  <2> QED
    BY <1>1, <1>9, <1>10, Climb
<1>12. \A i \in 0 .. N : w[i] = Wrapped(start, dir, i)
  BY <1>11
<1> QED
  BY <1>6, <1>7, <1>12 DEF N

(* The walk meets every channel once, each as far ahead as it is.          *)
LEMMA WalkMeetsAll ==
  ASSUME NEW start \in Channels, NEW dir \in {-1, 1}
  PROVE  /\ \A i \in 1 .. ChannelCount :
              /\ Wrapped(start, dir, i) \in Channels
              /\ Ahead(start, dir, Wrapped(start, dir, i)) = i - 1
         /\ \A c \in Channels :
              /\ Ahead(start, dir, c) \in 0 .. ChannelCount - 1
              /\ Wrapped(start, dir, Ahead(start, dir, c) + 1) = c
<1> DEFINE N == ChannelCount
<1>1. N \in Nat \ {0} /\ start \in 0 .. N - 1
  BY ChannelAssumption DEF Channels
<1>2. dir \in Int /\ \A x \in Int : dir * (dir * x) = x
  OBVIOUS
<1> HIDE DEF N
<1>3. ASSUME NEW i \in 1 .. N
      PROVE  /\ Wrapped(start, dir, i) \in 0 .. N - 1
             /\ Ahead(start, dir, Wrapped(start, dir, i)) = i - 1
  <2> DEFINE a == start + dir * i
             q == a \div N
             r == a % N
  <2>1. a \in Int
    BY <1>1, <1>2
  <2>2. q \in Int /\ r \in 0 .. N - 1 /\ a = (N * q) + r
    BY <1>1, <2>1, DivMod
  <2>3. Wrapped(start, dir, i) = r
    BY DEF Wrapped, N
  <2> HIDE DEF q, r
  <2>4. dir * (r - start) - 1 = N * (-(dir * q)) + (i - 1)
    <3>1. CASE dir = 1
      BY <1>1, <2>2, <3>1
    <3>2. CASE dir = -1
      BY <1>1, <2>2, <3>2
    <3> QED
      BY <3>1, <3>2
  <2>5. i - 1 \in 0 .. N - 1 /\ dir * (r - start) - 1 \in Int /\ -(dir * q) \in Int
    BY <1>1, <1>2, <2>2
  <2>6. (dir * (r - start) - 1) % N = i - 1
    BY <1>1, <2>4, <2>5, DivUnique
  <2> QED
    BY <2>2, <2>3, <2>6 DEF Ahead, N
<1>4. ASSUME NEW c \in 0 .. N - 1
      PROVE  /\ Ahead(start, dir, c) \in 0 .. N - 1
             /\ Wrapped(start, dir, Ahead(start, dir, c) + 1) = c
  <2> DEFINE a == dir * (c - start) - 1
             q == a \div N
             r == a % N
  <2>1. a \in Int
    BY <1>1, <1>2
  <2>2. q \in Int /\ r \in 0 .. N - 1 /\ a = (N * q) + r
    BY <1>1, <2>1, DivMod
  <2>3. Ahead(start, dir, c) = r
    BY DEF Ahead, N
  <2> HIDE DEF q, r
  <2>4. start + dir * (r + 1) = N * (-(dir * q)) + c
    <3>1. CASE dir = 1
      BY <1>1, <2>2, <3>1
    <3>2. CASE dir = -1
      BY <1>1, <2>2, <3>2
    <3> QED
      BY <3>1, <3>2
  <2>5. start + dir * (r + 1) \in Int /\ -(dir * q) \in Int
    BY <1>1, <1>2, <2>2
  <2>6. (start + dir * (r + 1)) % N = c
    BY <1>1, <2>4, <2>5, DivUnique
  <2> QED
    BY <2>2, <2>3, <2>6 DEF Wrapped, N
<1> QED
  BY <1>3, <1>4 DEF Channels, N

(* The search returns a good channel that none is nearer than, and         *)
(* NoChannel only when there is none.                                      *)
LEMMA NearestIsFound ==
  ASSUME NEW start \in Channels, NEW dir \in {-1, 1}, NEW good \in SUBSET Channels
  PROVE  LET found == FirstOf(start, dir, good)
         IN /\ good = {} => found = NoChannel
            /\ good # {} => /\ found \in good /\ found # NoChannel
                            /\ \A c \in good : Ahead(start, dir, found) <= Ahead(start, dir, c)
<1> DEFINE w == Walk(start, dir)
           hits == {i \in 1 .. ChannelCount : w[i] \in good}
           first == CHOOSE i \in hits : \A j \in hits : i <= j
           found == FirstOf(start, dir, good)
<1>1. ChannelCount \in Nat \ {0} /\ NoChannel \notin Channels
  BY ChannelAssumption DEF Channels
<1>2. \A i \in 1 .. ChannelCount : w[i] = Wrapped(start, dir, i)
  <2>1. 1 .. ChannelCount \subseteq 0 .. ChannelCount
    OBVIOUS
  <2> QED
    BY <2>1, WalkIs
<1>3. found = IF hits = {} THEN NoChannel ELSE w[first]
  <2>1. dir # 0
    OBVIOUS
  <2> HIDE DEF w
  <2> QED
    BY <2>1 DEF FirstOf, w
<1> HIDE DEF w, found
<1>4. CASE good = {}
  BY <1>3, <1>4 DEF found
<1>5. CASE good # {}
  <2>1. \A c \in good : Ahead(start, dir, c) + 1 \in hits
    <3> SUFFICES ASSUME NEW c \in good PROVE Ahead(start, dir, c) + 1 \in hits
      OBVIOUS
    <3> DEFINE a == Ahead(start, dir, c)
    <3>1. a \in 0 .. ChannelCount - 1 /\ Wrapped(start, dir, a + 1) = c
      BY WalkMeetsAll
    <3> HIDE DEF a
    <3>2. a + 1 \in 1 .. ChannelCount
      BY <1>1, <3>1
    <3>3. w[a + 1] = c
      BY <1>2, <3>1, <3>2
    <3> QED
      BY <3>2, <3>3 DEF a
  <2>2. hits # {}
    BY <1>5, <2>1
  <2>3. hits \subseteq Nat
    OBVIOUS
  <2>4. \A i \in hits : i \in 1 .. ChannelCount /\ w[i] \in good
    OBVIOUS
  <2> HIDE DEF hits
  <2>5. first \in hits /\ \A j \in hits : first <= j
    BY <2>2, <2>3, LeastNatural
  <2> HIDE DEF first
  <2>6. found \in good /\ found = Wrapped(start, dir, first) /\ first \in 1 .. ChannelCount
    BY <1>2, <1>3, <2>2, <2>4, <2>5
  <2>7. Ahead(start, dir, found) = first - 1
    BY <2>6, WalkMeetsAll
  <2>8. ASSUME NEW c \in good PROVE Ahead(start, dir, found) <= Ahead(start, dir, c)
    <3> DEFINE a == Ahead(start, dir, c)
    <3>1. a \in 0 .. ChannelCount - 1 /\ first <= a + 1
      BY <2>1, <2>5, WalkMeetsAll
    <3> HIDE DEF a
    <3>2. first - 1 <= a
      BY <1>1, <2>6, <3>1
    <3> QED
      BY <2>7, <3>2 DEF a
  <2> QED
    BY <1>1, <1>5, <2>6, <2>8 DEF found
<1> QED
  BY <1>4, <1>5

(* What channel_load makes of a raw record.                                *)
Reads(raw) == IF raw.first = 255 THEN Empty
              ELSE IF bcd_to_hz(raw.rx) = 0 THEN Empty ELSE Unpack(raw)

(* The records channel_save builds, and the others a slot may hold.        *)
Packed ==
  {r \in [first : 0 .. 153, rx : [1 .. BcdBytes -> Nat], tx : [1 .. BcdBytes -> Nat],
          rxtone : {"CTCSS", "DCS", "OFF"} \X Nat, txtone : {"CTCSS", "DCS", "OFF"} \X Nat,
          power : Nat, squelch : Nat, scan : {1}, name : Names \cup {""}] :
     bcd_to_hz(r.rx) # 0}
Raw == Packed \cup {Erased, Torn}

ReadsAs(raw, want) == raw # Torn /\ Reads(raw) = want

(* A job holds what its sector is to be; the pages before next hold it.    *)
JobOK(j, f) ==
  /\ j = [sector |-> j.sector, next |-> j.next, image |-> j.image]
  /\ \E ch \in Channels : Sector(ch) = j.sector
  /\ j.next \in {0} \cup Pages(j.sector)
  /\ j.image \in [InSector(j.sector) -> Raw]
  /\ j.next # 0 => \A c \in InSector(j.sector) : Page(c) < j.next => f[c] = j.image[c]

StoreInv ==
  /\ flash \in [Channels -> Raw]
  /\ DOMAIN expect = Channels
  /\ exposed \subseteq Channels
  /\ job # NoJob => JobOK(job, flash)
  /\ \A ch \in Channels \ exposed :
       IF job # NoJob /\ Sector(ch) = job.sector
       THEN ReadsAs(job.image[ch], expect[ch]) ELSE ReadsAs(flash[ch], expect[ch])

(* A page of a sector that is not the first has one before it.             *)
LEMMA PagesAreARow ==
  ASSUME NEW ch \in Channels, NEW k \in Nat, k < Page(ch)
  PROVE  k + 1 \in Pages(Sector(ch))
<1> DEFINE o == ch % PerSector
           s == ch \div PerSector
           p == o \div PerPage
           m == o % PerPage
           c == (PerSector * s) + (k * PerPage)
<1>1. PerSector \in Nat \ {0} /\ PerPage \in Nat \ {0} /\ ChannelCount \in Nat \ {0}
      /\ ch \in 0 .. ChannelCount - 1
  BY ChannelAssumption DEF Channels
<1>2. ch \in Int
  BY <1>1
<1>3. s \in Int /\ o \in 0 .. PerSector - 1 /\ ch = (PerSector * s) + o
  BY <1>1, <1>2, DivMod
<1>4. o \in Int
  BY <1>1, <1>3
<1>5. p \in Int /\ m \in 0 .. PerPage - 1 /\ o = (PerPage * p) + m
  BY <1>1, <1>4, DivMod
<1>6. Page(ch) = 1 + p /\ Sector(ch) = s
  BY DEF Page, Sector
<1> HIDE DEF o, s, p, m
<1>7. k <= p
  BY <1>1, <1>5, <1>6
<1>8. PerPage * k <= PerPage * p
  BY <1>1, <1>5, <1>7, TimesMonotone
<1> DEFINE e == k * PerPage
<1>9. e = PerPage * k /\ e \in Nat
  BY <1>1
<1>10. PerPage * p \in Int
  BY <1>1, <1>5
<1> HIDE DEF e
<1>11. e \in 0 .. PerSector - 1 /\ e <= o
  BY <1>1, <1>3, <1>5, <1>8, <1>9, <1>10
<1>12. s >= 0
  <2> SUFFICES ASSUME s + 1 <= 0 PROVE FALSE
    BY <1>3
  <2>1. PerSector * (s + 1) <= PerSector * 0
    BY <1>1, <1>3, TimesMonotone
  <2>2. PerSector * (s + 1) = PerSector * s + PerSector
    BY <1>1, <1>3
  <2> QED
    BY <1>1, <1>3, <2>1, <2>2
<1>13. PerSector * 0 <= PerSector * s
  BY <1>1, <1>3, <1>12, TimesMonotone
<1>14. PerSector * s \in Int /\ c = PerSector * s + e
  BY <1>1, <1>3 DEF e
<1>15. c \in 0 .. ChannelCount - 1
  BY <1>1, <1>3, <1>11, <1>13, <1>14
<1>16. c \div PerSector = s /\ c % PerSector = e
  <2>1. c \in Int
    BY <1>15
  <2> QED
    BY <1>1, <1>3, <1>11, <1>14, <2>1, DivUnique
<1>17. e \div PerPage = k
  <2>1. e \in Int /\ 0 \in 0 .. PerPage - 1 /\ e = PerPage * k + 0 /\ k \in Int
    BY <1>1, <1>9
  <2> QED
    BY <1>1, <2>1, DivUnique
<1>18. c \in InSector(s) /\ Page(c) = 1 + k
  BY <1>15, <1>16, <1>17 DEF InSector, Channels, Sector, Page
<1> QED
  BY <1>6, <1>18 DEF Pages

LEMMA PageIsPositive == \A ch \in Channels : Page(ch) \in Nat \ {0}
<1> SUFFICES ASSUME NEW ch \in Channels PROVE Page(ch) \in Nat \ {0}
  OBVIOUS
<1> DEFINE o == ch % PerSector
<1>1. PerSector \in Nat \ {0} /\ PerPage \in Nat \ {0} /\ ch \in Nat
  BY ChannelAssumption DEF Channels
<1>2. o \in Nat
  BY <1>1
<1> HIDE DEF o
<1>3. o \div PerPage \in Nat
  BY <1>1, <1>2
<1> QED
  BY <1>3 DEF Page, o

(* Writing to no place but this one.                                       *)
LEMMA ErasedReadsEmpty == Erased # Torn /\ ReadsAs(Erased, Empty) /\ Erased \in Raw /\ Torn \in Raw
<1>1. Erased.first = 255 /\ Torn.first = 0
  BY DEF Erased, Torn
<1> QED
  BY <1>1 DEF ReadsAs, Reads, Raw

LEMMA PackedReads ==
  ASSUME NEW r \in Packed
  PROVE  r # Erased /\ r # Torn /\ ReadsAs(r, Unpack(r)) /\ r.first # 255 /\ r.scan = 1
         /\ Unpack(r) # Empty
<1>1. r.first \in 0 .. 153 /\ r.scan = 1 /\ bcd_to_hz(r.rx) # 0 /\ "scan" \in DOMAIN r
  BY DEF Packed
<1>2. "scan" \notin DOMAIN Erased /\ "scan" \notin DOMAIN Torn
  BY DEF Erased, Torn
<1>3. r # Erased /\ r # Torn /\ r.first # 255
  BY <1>1, <1>2
<1>4. Unpack(r).rx = bcd_to_hz(r.rx) /\ Empty.rx = 0
  BY DEF Unpack, Empty
<1> QED
  BY <1>1, <1>3, <1>4 DEF ReadsAs, Reads

LEMMA SavedIsPacked ==
  ASSUME NEW s \in VfoStates
  PROVE  Pack(channel_from_vfo(s)) \in Packed
<1> DEFINE r == Pack(channel_from_vfo(s))
           bcd == hz_to_bcd(s.freq)
<1>1. BcdBytes \in Nat \ {0} /\ Pow100[BcdBytes] \in Nat
  BY ChannelAssumption, Pow100Def
<1>2. s \in [freq : Nat, power : 0 .. 3, squelch : 0 .. 15, ctcss_tx : 0 .. NoTone,
             ctcss_rx : 0 .. NoTone, dcs : 0 .. NoTone]
      /\ s.freq \div 10 < Pow100[BcdBytes] /\ s.freq \div 10 \in Nat \ {0}
  BY <1>1, VfoStatesAssumption
<1>3. bcd \in [1 .. BcdBytes -> 0 .. 153] /\ bcd_to_hz(bcd) = 10 * (s.freq \div 10)
  BY <1>2, BcdBack
<1>4. bcd_to_hz(bcd) # 0
  BY <1>2, <1>3
<1>5. r = [first |-> bcd[1], rx |-> bcd, tx |-> bcd,
           rxtone |-> PackTone(s.ctcss_rx, s.dcs), txtone |-> PackTone(s.ctcss_tx, s.dcs),
           power |-> s.power % 4, squelch |-> s.squelch % 16, scan |-> 1, name |-> ""]
  BY DEF Pack, channel_from_vfo
<1>6. \A c, d \in 0 .. NoTone : PackTone(c, d) \in {"CTCSS", "DCS", "OFF"} \X Nat
  BY DEF PackTone, NoTone
<1>7. s.power % 4 \in Nat /\ s.squelch % 16 \in Nat
  BY <1>2
<1>8. bcd[1] \in 0 .. 153 /\ bcd \in [1 .. BcdBytes -> Nat]
  <2>1. 1 \in 1 .. BcdBytes /\ (0 .. 153) \subseteq Nat
    BY <1>1
  <2> QED
    BY <1>3, <2>1
<1>9. PackTone(s.ctcss_rx, s.dcs) \in {"CTCSS", "DCS", "OFF"} \X Nat
      /\ PackTone(s.ctcss_tx, s.dcs) \in {"CTCSS", "DCS", "OFF"} \X Nat
  BY <1>2, <1>6
<1> HIDE DEF r, bcd
<1>10. r.rx = bcd
  BY <1>5
<1>11. r \in [first : 0 .. 153, rx : [1 .. BcdBytes -> Nat], tx : [1 .. BcdBytes -> Nat],
          rxtone : {"CTCSS", "DCS", "OFF"} \X Nat, txtone : {"CTCSS", "DCS", "OFF"} \X Nat,
          power : Nat, squelch : Nat, scan : {1}, name : Names \cup {""}]
  BY <1>5, <1>7, <1>8, <1>9
<1> QED
  BY <1>4, <1>10, <1>11 DEF Packed, r

LEMMA RenamedIsPacked ==
  ASSUME NEW r \in Packed, NEW n \in Names
  PROVE  [r EXCEPT !.name = n] \in Packed
<1> DEFINE B == [1 .. BcdBytes -> Nat]
           T == {"CTCSS", "DCS", "OFF"} \X Nat
<1>1. r.rx \in B /\ bcd_to_hz(r.rx) # 0
  BY DEF Packed
<1>2. r \in [first : 0 .. 153, rx : B, tx : B, rxtone : T, txtone : T, power : Nat,
             squelch : Nat, scan : {1}, name : Names \cup {""}]
  BY DEF Packed
<1> HIDE DEF B, T
<1>3. [r EXCEPT !.name = n].rx = r.rx
  BY <1>2
<1>4. [r EXCEPT !.name = n] \in
        [first : 0 .. 153, rx : B, tx : B, rxtone : T, txtone : T, power : Nat,
         squelch : Nat, scan : {1}, name : Names \cup {""}]
  BY <1>2
<1> QED
  BY <1>1, <1>3, <1>4 DEF Packed, B, T

LEMMA StoreInvInit == ASSUME ChannelInit PROVE StoreInv
<1> USE DEF ChannelInit
<1>1. flash \in [Channels -> Raw] /\ job = NoJob
  BY ErasedReadsEmpty
<1>2. \A ch \in Channels : ReadsAs(flash[ch], expect[ch])
  BY ErasedReadsEmpty
<1> QED
  BY <1>1, <1>2 DEF StoreInv

(* A record is handed over: the job's image holds it and what was there.   *)
LEMMA WriteRawKeeps ==
  ASSUME StoreInv, NEW ch \in Channels, NEW raw \in Raw, NEW want, ReadsAs(raw, want),
         WriteRaw(ch, raw),
         expect' = [expect EXCEPT ![ch] = want], exposed' = exposed \ {ch}
  PROVE  StoreInv'
<1> DEFINE sec == Sector(ch)
           image == [c \in InSector(sec) |-> IF c = ch THEN raw ELSE flash[c]]
<1>1. job = NoJob /\ job' = [sector |-> sec, next |-> 0, image |-> image] /\ flash' = flash
  BY DEF WriteRaw
<1>2. flash \in [Channels -> Raw] /\ DOMAIN expect = Channels /\ exposed \subseteq Channels
      /\ \A c \in Channels \ exposed : ReadsAs(flash[c], expect[c])
  BY <1>1 DEF StoreInv
<1>3. job' # NoJob
  <2>1. "next" \in DOMAIN job' /\ "next" \notin DOMAIN NoJob
    BY <1>1 DEF NoJob
  <2> QED
    BY <2>1
<1>4. image \in [InSector(sec) -> Raw]
  BY <1>2 DEF InSector
<1> HIDE DEF image, sec
<1>5. job'.sector = sec /\ job'.next = 0 /\ job'.image = image
  BY <1>1
<1>6. JobOK(job', flash')
  BY <1>1, <1>4, <1>5 DEF JobOK, sec
<1>7. \A c \in Channels : expect'[c] = IF c = ch THEN want ELSE expect[c]
  BY <1>2
<1>8. \A c \in InSector(sec) : image[c] = IF c = ch THEN raw ELSE flash[c]
  BY DEF image
<1>9. ch \in InSector(sec) /\ \A c \in Channels : c \in InSector(sec) <=> Sector(c) = sec
  BY DEF InSector, sec
<1>10. ASSUME NEW c \in Channels \ exposed'
       PROVE  IF Sector(c) = sec THEN ReadsAs(image[c], expect'[c]) ELSE ReadsAs(flash[c], expect'[c])
  <2>1. CASE c = ch
    BY <1>7, <1>8, <1>9, <2>1
  <2>2. CASE c # ch
    <3>1. c \in Channels \ exposed
      BY <2>2
    <3>2. ReadsAs(flash[c], expect'[c])
      BY <1>2, <1>7, <2>2, <3>1
    <3> QED
      BY <1>8, <1>9, <2>2, <3>2
  <2> QED
    BY <2>1, <2>2
<1>11. DOMAIN expect' = Channels /\ exposed' \subseteq Channels
  BY <1>2
<1> QED
  BY <1>1, <1>2, <1>3, <1>5, <1>6, <1>10, <1>11 DEF StoreInv

LEMMA EraseKeeps == StoreInv /\ Erase => StoreInv'
<1> SUFFICES ASSUME StoreInv, Erase PROVE StoreInv'
  OBVIOUS
<1> DEFINE sec == job.sector
           image == job.image
<1>1. job # NoJob /\ job.next = 0 /\ JobOK(job, flash)
      /\ flash' = [c \in Channels |-> IF Sector(c) = sec THEN Erased ELSE flash[c]]
      /\ job' = [job EXCEPT !.next = 1] /\ expect' = expect /\ exposed' = exposed
  BY DEF StoreInv, Erase
<1>2. job = [sector |-> sec, next |-> job.next, image |-> image]
      /\ image \in [InSector(sec) -> Raw]
  BY <1>1 DEF JobOK
<1>3. flash \in [Channels -> Raw] /\ DOMAIN expect = Channels /\ exposed \subseteq Channels
      /\ \A c \in Channels \ exposed :
           IF Sector(c) = sec THEN ReadsAs(image[c], expect[c]) ELSE ReadsAs(flash[c], expect[c])
  BY <1>1 DEF StoreInv
<1>4. PICK ch \in Channels : Sector(ch) = sec
  BY <1>1 DEF JobOK
<1>5. 1 \in Pages(sec)
  <2>1. 0 \in Nat /\ 0 < Page(ch) /\ 0 + 1 = 1
    BY PageIsPositive
  <2> QED
    BY <1>4, <2>1, PagesAreARow
<1> HIDE DEF sec, image
<1>6. job' = [sector |-> sec, next |-> 1, image |-> image]
  BY <1>1, <1>2
<1>7. job'.sector = sec /\ job'.next = 1 /\ job'.image = image
  BY <1>6
<1>8. job' # NoJob
  <2>1. "next" \in DOMAIN job' /\ "next" \notin DOMAIN NoJob
    BY <1>6 DEF NoJob
  <2> QED
    BY <2>1
<1>9. flash' \in [Channels -> Raw]
  BY <1>1, <1>3, ErasedReadsEmpty
<1>10. \A c \in InSector(sec) : ~(Page(c) < 1)
  BY PageIsPositive DEF InSector
<1>11. JobOK(job', flash')
  BY <1>2, <1>4, <1>5, <1>6, <1>7, <1>10 DEF JobOK
<1>12. \A c \in Channels \ exposed' :
         IF Sector(c) = sec THEN ReadsAs(image[c], expect'[c]) ELSE ReadsAs(flash'[c], expect'[c])
  BY <1>1, <1>3
<1> QED
  BY <1>1, <1>3, <1>7, <1>8, <1>9, <1>11, <1>12 DEF StoreInv

LEMMA WritePageKeeps == StoreInv /\ WritePage => StoreInv'
<1> SUFFICES ASSUME StoreInv, WritePage PROVE StoreInv'
  OBVIOUS
<1> DEFINE sec == job.sector
           image == job.image
           n == job.next
<1>1. job # NoJob /\ n > 0 /\ JobOK(job, flash)
      /\ flash' = [c \in Channels |->
           IF Sector(c) = sec /\ Page(c) = n THEN image[c] ELSE flash[c]]
      /\ job' = (IF n + 1 \in Pages(sec) THEN [job EXCEPT !.next = n + 1] ELSE NoJob)
      /\ expect' = expect /\ exposed' = exposed
  BY DEF StoreInv, WritePage
<1>2. job = [sector |-> sec, next |-> n, image |-> image]
      /\ image \in [InSector(sec) -> Raw] /\ n \in {0} \cup Pages(sec)
  BY <1>1 DEF JobOK
<1>3. flash \in [Channels -> Raw] /\ DOMAIN expect = Channels /\ exposed \subseteq Channels
      /\ \A c \in Channels \ exposed :
           IF Sector(c) = sec THEN ReadsAs(image[c], expect[c]) ELSE ReadsAs(flash[c], expect[c])
  BY <1>1 DEF StoreInv
<1>4. (\E c \in Channels : Sector(c) = sec)
      /\ (n # 0 => \A c \in InSector(sec) : Page(c) < n => flash[c] = image[c])
  BY <1>1 DEF JobOK
<1>5. \A c \in Channels : c \in InSector(sec) <=> Sector(c) = sec
  BY DEF InSector
<1>6. n \in Nat \ {0}
  <2>1. Pages(sec) \subseteq Nat
    BY PageIsPositive DEF Pages, InSector
  <2> HIDE DEF n
  <2> QED
    BY <1>1, <1>2, <2>1
<1>7. flash' \in [Channels -> Raw]
  <2>1. \A c \in Channels : Sector(c) = sec => image[c] \in Raw
    BY <1>2, <1>5
  <2> HIDE DEF sec, image, n
  <2> QED
    BY <1>1, <1>3, <2>1
<1> HIDE DEF sec, image, n
<1>8. ASSUME NEW c \in Channels, Sector(c) = sec, Page(c) < n + 1
      PROVE  flash'[c] = image[c]
  <2>1. Page(c) < n \/ Page(c) = n
    BY <1>6, <1>8, PageIsPositive
  <2> QED
    BY <1>1, <1>4, <1>5, <1>6, <1>8, <2>1
<1>9. \A c \in Channels : Sector(c) # sec => flash'[c] = flash[c]
  BY <1>1
<1>10. CASE n + 1 \in Pages(sec)
  <2>1. job' = [sector |-> sec, next |-> n + 1, image |-> image]
    BY <1>1, <1>2, <1>10
  <2>2. job'.sector = sec /\ job'.next = n + 1 /\ job'.image = image
    BY <2>1
  <2>3. job' # NoJob
    <3>1. "next" \in DOMAIN job' /\ "next" \notin DOMAIN NoJob
      BY <2>1 DEF NoJob
    <3> QED
      BY <3>1
  <2>4. \A c \in InSector(sec) : Page(c) < n + 1 => flash'[c] = image[c]
    BY <1>8 DEF InSector
  <2>5. JobOK(job', flash')
    BY <1>2, <1>4, <1>10, <2>1, <2>2, <2>4 DEF JobOK
  <2>6. \A c \in Channels \ exposed' :
          IF Sector(c) = sec THEN ReadsAs(image[c], expect'[c]) ELSE ReadsAs(flash'[c], expect'[c])
    BY <1>1, <1>3, <1>9
  <2> QED
    BY <1>1, <1>3, <1>7, <2>2, <2>3, <2>5, <2>6 DEF StoreInv
<1>11. CASE n + 1 \notin Pages(sec)
  <2>1. job' = NoJob
    BY <1>1, <1>11
  <2>2. ASSUME NEW c \in Channels, Sector(c) = sec PROVE Page(c) < n + 1
    <3>1. Page(c) \in Nat
      BY PageIsPositive
    <3>2. ~(n < Page(c))
      BY <1>6, <1>11, <2>2, PagesAreARow
    <3> QED
      BY <1>6, <3>1, <3>2
  <2>3. \A c \in Channels \ exposed' : ReadsAs(flash'[c], expect'[c])
    BY <1>1, <1>3, <1>8, <1>9, <2>2
  <2> QED
    BY <1>1, <1>3, <1>7, <2>1, <2>3 DEF StoreInv
<1> QED
  BY <1>10, <1>11

LEMMA OutageKeeps == StoreInv /\ Outage => StoreInv'
<1> SUFFICES ASSUME StoreInv, Outage PROVE StoreInv'
  OBVIOUS
<1> DEFINE sec == job.sector
           image == job.image
           n == job.next
           hit == {c \in InSector(sec) : n = 0 \/ Page(c) = n}
<1>1. job # NoJob /\ JobOK(job, flash)
      /\ exposed' = exposed \cup {c \in InSector(sec) : Page(c) >= n}
      /\ job' = NoJob /\ expect' = expect
  BY DEF StoreInv, Outage
<1>2. PICK torn \in BOOLEAN : flash' =
        [c \in Channels |-> IF torn /\ c \in hit THEN Torn ELSE flash[c]]
  BY DEF Outage
<1>3. flash \in [Channels -> Raw] /\ DOMAIN expect = Channels /\ exposed \subseteq Channels
      /\ \A c \in Channels \ exposed :
           IF Sector(c) = sec THEN ReadsAs(image[c], expect[c]) ELSE ReadsAs(flash[c], expect[c])
  BY <1>1 DEF StoreInv
<1>4. n \in {0} \cup Pages(sec)
      /\ (n # 0 => \A c \in InSector(sec) : Page(c) < n => flash[c] = image[c])
  BY <1>1 DEF JobOK
<1>5. \A c \in Channels : c \in InSector(sec) <=> Sector(c) = sec
  BY DEF InSector
<1>6. n \in Nat
  <2>1. Pages(sec) \subseteq Nat
    BY PageIsPositive DEF Pages, InSector
  <2> HIDE DEF n
  <2> QED
    BY <1>4, <2>1
<1>7. flash' \in [Channels -> Raw]
  <2> HIDE DEF hit
  <2> QED
    BY <1>2, <1>3, ErasedReadsEmpty
<1> HIDE DEF sec, image, n
<1>8. ASSUME NEW c \in Channels \ exposed' PROVE ReadsAs(flash'[c], expect'[c])
  <2>1. c \in Channels \ exposed
    BY <1>1
  <2>2. CASE Sector(c) = sec
    <3>1. Page(c) \in Nat \ {0} /\ ~(Page(c) >= n)
      BY <1>1, <1>5, <2>2, PageIsPositive
    <3>2. Page(c) < n /\ n # 0 /\ Page(c) # n
      BY <1>6, <3>1
    <3>3. flash'[c] = image[c]
      BY <1>2, <1>4, <1>5, <2>2, <3>2
    <3> QED
      BY <1>1, <1>3, <2>1, <2>2, <3>3
  <2>3. CASE Sector(c) # sec
    <3>1. flash'[c] = flash[c]
      BY <1>2, <1>5, <2>3
    <3> QED
      BY <1>1, <1>3, <2>1, <2>3, <3>1
  <2> QED
    BY <2>2, <2>3
<1>9. exposed' \subseteq Channels
  BY <1>1, <1>3 DEF InSector
<1> QED
  BY <1>1, <1>3, <1>7, <1>8, <1>9 DEF StoreInv

LEMMA StoreInvStep == ASSUME StoreInv, ChannelNext PROVE StoreInv'
<1>1. CASE channel_save
  <2>1. PICK ch \in Channels, s \in VfoStates :
          /\ WriteRaw(ch, Pack(channel_from_vfo(s)))
          /\ expect' = [expect EXCEPT ![ch] = Unpack(Pack(channel_from_vfo(s)))]
          /\ exposed' = exposed \ {ch}
    BY <1>1 DEF channel_save
  <2> DEFINE r == Pack(channel_from_vfo(s))
  <2>2. r \in Packed
    BY SavedIsPacked
  <2> HIDE DEF r
  <2>3. r \in Raw /\ ReadsAs(r, Unpack(r))
    BY <2>2, PackedReads DEF Raw
  <2>4. WriteRaw(ch, r) /\ expect' = [expect EXCEPT ![ch] = Unpack(r)] /\ exposed' = exposed \ {ch}
    BY <2>1 DEF r
  <2> QED
    BY <2>3, <2>4, WriteRawKeeps
<1>2. CASE channel_delete
  <2>1. PICK ch \in Channels :
          /\ WriteRaw(ch, Erased)
          /\ expect' = [expect EXCEPT ![ch] = Empty]
          /\ exposed' = exposed \ {ch}
    BY <1>2 DEF channel_delete
  <2> QED
    BY <2>1, ErasedReadsEmpty, WriteRawKeeps
<1>3. CASE Rename
  <2>1. PICK ch \in Channels, n \in Names :
          /\ flash[ch] \notin {Erased, Torn}
          /\ WriteRaw(ch, [flash[ch] EXCEPT !.name = n])
          /\ expect' = [expect EXCEPT ![ch] = Unpack([flash[ch] EXCEPT !.name = n])]
          /\ exposed' = exposed \ {ch}
    BY <1>3 DEF Rename
  <2> DEFINE r == [flash[ch] EXCEPT !.name = n]
  <2>2. flash[ch] \in Packed
    BY <2>1 DEF StoreInv, Raw
  <2>3. r \in Packed
    BY <2>2, RenamedIsPacked
  <2> HIDE DEF r
  <2>4. r \in Raw /\ ReadsAs(r, Unpack(r))
    BY <2>3, PackedReads DEF Raw
  <2>5. WriteRaw(ch, r) /\ expect' = [expect EXCEPT ![ch] = Unpack(r)] /\ exposed' = exposed \ {ch}
    BY <2>1 DEF r
  <2> QED
    BY <2>4, <2>5, WriteRawKeeps
<1> QED
  BY <1>1, <1>2, <1>3, EraseKeeps, WritePageKeeps, OutageKeeps DEF ChannelNext

(* Between two writes a channel that no outage took reads as expected, and *)
(* the search meets those in use.                                          *)
LEMMA StoreInvImplies == StoreInv => ChannelsSurvive
<1> SUFFICES ASSUME StoreInv PROVE ChannelsSurvive
  OBVIOUS
<1>1. flash \in [Channels -> Raw]
  BY DEF StoreInv
<1>2. ASSUME job = NoJob, NEW ch \in Channels \ exposed
      PROVE  channel_load(ch) = expect[ch] /\ flash[ch] # Torn
  <2>1. ReadsAs(flash[ch], expect[ch])
    BY <1>2 DEF StoreInv
  <2> QED
    BY <2>1 DEF ReadsAs, Reads, channel_load, channel_is_valid
<1>3. ASSUME job = NoJob, exposed = {}, NEW start \in Channels, NEW dir \in {-1, 1}
      PROVE  LET found == channel_find_next(start, dir)
             IN /\ found = NoChannel <=> channel_count_used = 0
                /\ found # NoChannel => channel_load(found) # Empty
                /\ \A c \in Used : Ahead(start, dir, found) <= Ahead(start, dir, c)
                /\ found = channel_find_next_scannable(start, dir)
  <2> DEFINE found == channel_find_next(start, dir)
  <2>1. \A c \in Channels : flash[c] # Torn
    BY <1>2, <1>3
  <2>2. ASSUME NEW c \in Used PROVE c \in Channels /\ flash[c] \in Packed
    <3>1. c \in Channels /\ flash[c].first # 255
      BY DEF Used, channel_is_valid
    <3>2. Erased.first = 255
      BY DEF Erased
    <3> QED
      BY <1>1, <2>1, <3>1, <3>2 DEF Raw
  <2>3. ASSUME NEW c \in Used
        PROVE  /\ channel_load(c) # Empty
               /\ flash[c].scan = 1
    <3> DEFINE r == flash[c]
    <3>1. r \in Packed
      BY <2>2
    <3>2. bcd_to_hz(r.rx) # 0
      BY <3>1 DEF Packed
    <3>3. channel_is_valid(c)
      BY DEF Used
    <3>4. channel_load(c) = Unpack(r)
      BY <3>2, <3>3 DEF channel_load
    <3> HIDE DEF r
    <3>5. Unpack(r) # Empty /\ r.scan = 1
      BY <3>1, PackedReads
    <3> QED
      BY <3>4, <3>5 DEF r
  <2>4. Used \in SUBSET Channels
    BY DEF Used
  <2>5. {c \in Used : flash[c].scan = 1} = Used
    BY <2>3
  <2>6. channel_find_next_scannable(start, dir) = FirstOf(start, dir, Used)
    BY <2>5 DEF channel_find_next_scannable
  <2>7. found = FirstOf(start, dir, Used)
    BY DEF channel_find_next
  <2>8. channel_count_used = 0 <=> Used = {}
    <3>1. IsFiniteSet(Channels)
      BY FS_Interval, ChannelAssumption DEF Channels
    <3>2. IsFiniteSet(Used)
      BY <2>4, <3>1, FS_Subset
    <3> QED
      BY <3>2, FS_EmptySet DEF channel_count_used
  <2> HIDE DEF found
  <2>9. Used = {} => found = NoChannel
    BY <2>4, <2>7, NearestIsFound
  <2>10. Used # {} => /\ found \in Used /\ found # NoChannel
                      /\ \A c \in Used : Ahead(start, dir, found) <= Ahead(start, dir, c)
    BY <2>4, <2>7, NearestIsFound
  <2> QED
    BY <2>3, <2>6, <2>7, <2>8, <2>9, <2>10 DEF found
<1> QED
  BY <1>2, <1>3, VfoComesBack DEF ChannelsSurvive, Ahead

-----------------------------------------------------------------------------
(* The types. *)

(* The scan of the matrix reads a key of the keypad, or none.              *)
LEMMA ScanFindsAKey == ASSUME NEW down \in SUBSET Keys PROVE keypad_scan(down) \in Keys \cup {NoKey}
<1> DEFINE single == {c \in Columns : Cardinality(LowRows(c, down)) = 1}
           first == IF Undriven \in single THEN Undriven
                    ELSE CHOOSE c \in single : \A d \in single : c <= d
           found == {k \in DOMAIN Matrix : /\ Matrix[k].col = first
                                           /\ Matrix[k].row \in LowRows(first, down)}
<1>1. found \subseteq Keys
  BY DEF Keys
<1>2. found # {} => (CHOOSE k \in found : TRUE) \in found
  OBVIOUS
<1>3. keypad_scan(down) = CASE "SIDE1" \in down -> "SIDE1"
                            [] "SIDE1" \notin down /\ "SIDE4" \in down -> "SIDE4"
                            [] OTHER -> IF single = {} \/ found = {} THEN NoKey
                                        ELSE CHOOSE k \in found : TRUE
  BY DEF keypad_scan
<1> HIDE DEF found, single
<1> QED
  BY <1>1, <1>2, <1>3 DEF Keys

(* The keypad stays in its type.                                           *)
LEMMA KeypadTypeStep == ASSUME KeypadTypeOK, KeypadInv, KeypadNext, KeypadInv' PROVE KeypadTypeOK'
<1> PICK down \in SUBSET Keys : keypad_get_event(keypad_scan(down))
  BY DEF KeypadNext, KeypadPoll
<1> DEFINE raw == keypad_scan(down)
<1>1. raw \in Keys \cup {NoKey}
  BY ScanFindsAKey
<1>2. keypad_get_event(raw)
  OBVIOUS
<1> HIDE DEF raw
<1>3. prev_key' \in Keys \cup {NoKey}
  BY <1>1, <1>2 DEF keypad_get_event, Held, Differs, Accept, Idle, KeypadTypeOK
<1>4. hold_count' \in 0 .. HoldMod - 1
  BY <1>2, KeypadAssumption DEF keypad_get_event, Held, Differs, Accept, Idle, KeypadTypeOK
<1>5. db_count' \in 0 .. DebounceCount - 1 /\ pressed' \subseteq Keys
  BY <1>3 DEF KeypadInv
<1> QED
  BY <1>3, <1>4, <1>5 DEF KeypadTypeOK

(* The levels of the shaft are two bits.                                   *)
LEMMA GrayIn == ASSUME NEW p \in Int PROVE Gray(p) \in 0 .. 3
BY DEF Gray

(* The knob stays in its type.                                             *)
LEMMA EncoderTypeStep == ASSUME EncoderTypeOK, EncoderInv, EncoderNext, EncoderInv' PROVE EncoderTypeOK'
<1>1. CASE Turn
  BY <1>1 DEF Turn, EncoderTypeOK
<1>2. CASE encoder_poll
  <2> PICK p \in {shaft, settled} : Bounced(p) \/ Stable(p)
    BY <1>2 DEF encoder_poll
  <2>1. Gray(p) \in 0 .. 3
    BY GrayIn DEF EncoderInv
  <2>2. prev_state' \in 0 .. 3 /\ debounce_state' \in 0 .. 3 /\ debounce_count' \in 0 .. Threshold
    BY <2>1 DEF Bounced, Stable, EncoderTypeOK, Threshold
  <2> QED
    BY <2>2 DEF EncoderInv, EncoderTypeOK
<1> QED
  BY <1>1, <1>2 DEF EncoderNext

(* A tone ends at a reading of the tick.                                   *)
LEMMA ArmTyped ==
  ASSUME AudioTypeOK, NEW d \in Nat, Arm(d)
  PROVE  /\ tone_end_ms' \in 0 .. AudioTickMod - 1
         /\ tone_active' \in BOOLEAN /\ wraps' \in BOOLEAN
BY AudioAssumption DEF AudioTypeOK, Arm

(* The path and the receivers follow the sound.                            *)
LEMMA SoundTyped ==
  ASSUME AudioTypeOK, NEW on \in BOOLEAN, Sound(on)
  PROVE  /\ dac' \in BOOLEAN
         /\ path' \in {"RADIO", "DAC"} /\ receivers' \in {"RX", "STANDBY"}
BY DEF AudioTypeOK, Sound

(* The tones stay in their type.                                           *)
LEMMA AudioTypeStep == ASSUME AudioTypeOK, AudioInv, AudioNext, AudioInv' PROVE AudioTypeOK'
<1>0. audio_tick' \in 0 .. AudioTickMod - 1 /\ unpolled' \in 0 .. PollGap
  BY DEF AudioInv
<1>1. CASE tone_start
  <2> PICK d \in Beeps : Arm(d)
    BY <1>1 DEF tone_start
  <2>1. d \in Nat /\ TRUE \in BOOLEAN /\ Sound(TRUE) /\ beep_on' = beep_on
    BY <1>1, AudioAssumption DEF tone_start
  <2> QED
    BY <1>0, <2>1, ArmTyped, SoundTyped DEF AudioTypeOK
<1>2. CASE seq_start
  <2> PICK s \in Sequences : Arm(s[1].ms)
    BY <1>2 DEF seq_start
  <2>1. s[1].ms \in Nat
    BY ToneLengths
  <2>2. TRUE \in BOOLEAN /\ Sound(TRUE) /\ beep_on' = beep_on
    BY <1>2 DEF seq_start
  <2> QED
    BY <1>0, <2>1, <2>2, ArmTyped, SoundTyped DEF AudioTypeOK
<1>3. CASE audio_poll /\ NextStep /\ steps # << >>
  <2>1. Head(steps) \in tone_step_t
    BY <1>3 DEF AudioInv
  <2>2. Head(steps).on \in BOOLEAN /\ Head(steps).ms \in Nat
    BY <2>1 DEF tone_step_t
  <2>3. beep_on' = beep_on /\ Sound(Head(steps).on) /\ Arm(Head(steps).ms)
    BY <1>3 DEF audio_poll, NextStep
  <2> QED
    BY <1>0, <2>2, <2>3, ArmTyped, SoundTyped DEF AudioTypeOK
<1>4. CASE audio_poll /\ Release
  BY <1>0, <1>4 DEF audio_poll, Release, AudioTypeOK
<1>5. CASE audio_poll /\ UNCHANGED <<tone_active, tone_end_ms, path, receivers, dac, wraps>>
  BY <1>0, <1>5 DEF audio_poll, AudioTypeOK
<1>6. CASE AudioTick
  BY <1>0, <1>6 DEF AudioTick, AudioTypeOK
<1>7. CASE SetBeep
  BY <1>0, <1>7 DEF SetBeep, AudioTypeOK
<1> QED
  BY <1>1, <1>2, <1>3, <1>4, <1>5, <1>6, <1>7 DEF AudioNext, audio_poll

(* The switch is polled only while the radio is on, which goes off at the  *)
(* limit of the count.                                                     *)
PowerTypes == PowerTypeOK /\ (power = "ON" => held_count < LongPress)

(* The modes and the Boolean variables.                                    *)
PowerFlags ==
  /\ power \in {"ON", "RELEASED", "STOP", "CUT"}
  /\ {switch_on, auto_lock, keypad_lock, backlight, wake_pending, turned_on} \subseteq BOOLEAN

LEMMA PowerFlagsStep == ASSUME PowerFlags, PowerNext PROVE PowerFlags'
<1> USE DEF PowerFlags, timerVars
<1>1. CASE power_button_poll
  <2>1. UNCHANGED <<switch_on, auto_lock, keypad_lock, wake_pending, turned_on>>
    BY <1>1 DEF power_button_poll
  <2>2. power' \in {"ON", "RELEASED", "STOP", "CUT"} /\ backlight' \in BOOLEAN
    BY <1>1 DEF power_button_poll, SwitchOnRead, SwitchOffRead, StaysOn, power_off
  <2> QED
    BY <2>1, <2>2
<1>2. CASE power_poll
  <2>1. UNCHANGED <<switch_on, auto_lock, wake_pending, turned_on>>
    BY <1>2 DEF power_poll
  <2>2. power' \in {"ON", "RELEASED", "STOP", "CUT"} /\ backlight' \in BOOLEAN
    BY <1>2 DEF power_poll, StaysOn, power_off
  <2>3. keypad_lock' = keypad_lock
        \/ keypad_lock' = (keypad_lock \/ ((auto_lock /\ ~keypad_lock)
                                             /\ keylock_idle' >= KeylockSeconds))
    BY <1>2 DEF power_poll
  <2>4. keypad_lock' \in BOOLEAN
    BY <2>3
  <2> QED
    BY <2>1, <2>2, <2>4
<1>3. CASE Activity
  BY <1>3 DEF Activity
<1>4. CASE RailDrops \/ ArmWakeUp
  BY <1>4 DEF RailDrops, ArmWakeUp
<1>5. CASE Wfi \/ PowerUp \/ Watchdog
  BY <1>5 DEF Wfi, PowerUp, Watchdog, Boot
<1>6. CASE Switch
  BY <1>6 DEF Switch
<1> QED
  BY <1>1, <1>2, <1>3, <1>4, <1>5, <1>6 DEF PowerNext

(* The power stays in its type: its two times of rest by what OffOnlyWhen- *)
(* Asked says of them, the counts of the switch and of the battery here.   *)
LEMMA PowerTypesStep ==
  ASSUME PowerTypes, PowerInv, PowerNext, PowerInv' PROVE PowerTypes'
<1>1. PowerFlags /\ PowerFlags'
  <2>1. PowerFlags
    BY DEF PowerTypes, PowerTypeOK, PowerFlags
  <2> QED
    BY <2>1, PowerFlagsStep
<1>2. idle_seconds' \in 0 .. MaxQuiet /\ keylock_idle' \in 0 .. MaxQuiet
  BY PowerAssumption DEF PowerInv, OffOnlyWhenAsked
<1>3. /\ held_count' \in 0 .. LongPress
      /\ power' = "ON" => held_count' < LongPress
  <2> USE PowerAssumption DEF PowerTypes, PowerTypeOK, timerVars
  <2>1. CASE power_button_poll
    BY <2>1 DEF power_button_poll, SwitchOnRead, SwitchOffRead, StaysOn, power_off
  <2>2. CASE power_poll \/ Activity \/ RailDrops \/ ArmWakeUp \/ Switch
    BY <2>2 DEF power_poll, Activity, RailDrops, ArmWakeUp, Switch
  <2>3. CASE Wfi \/ PowerUp \/ Watchdog
    BY <2>3 DEF Wfi, PowerUp, Watchdog, Boot
  <2> QED
    BY <2>1, <2>2, <2>3 DEF PowerNext
<1>4. low_batt_counter' \in 0 .. LowBattBeep - 1
  <2>1. /\ low_batt_counter \in 0 .. LowBattBeep - 1
        /\ LowBattBeep \in Nat \ {0}
    BY PowerAssumption DEF PowerTypes, PowerTypeOK
  <2>2. (low_batt_counter + 1) % LowBattBeep \in 0 .. LowBattBeep - 1
    BY <2>1
  <2>3. low_batt_counter' \in {low_batt_counter, (low_batt_counter + 1) % LowBattBeep, 0}
    <3>1. CASE power_poll
      BY <3>1 DEF power_poll
    <3>2. CASE ~power_poll
      BY <3>2 DEF PowerNext, power_button_poll, Activity, RailDrops, ArmWakeUp, Switch,
         Wfi, PowerUp, Watchdog, Boot, timerVars
    <3> QED
      BY <3>1, <3>2
  <2> QED
    BY <2>1, <2>2, <2>3
<1> QED
  BY <1>1, <1>2, <1>3, <1>4 DEF PowerInv, PowerFlags, PowerTypes, PowerTypeOK

(* Of the owners of the transmitter: the Boolean variables, the VFO and the*)
(* mode.                                                                   *)
PttFlags ==
  /\ keyed \in BOOLEAN /\ chip1_tx \in BOOLEAN /\ ptt_down \in BOOLEAN
  /\ vox_level \in BOOLEAN /\ vox_tx_active \in BOOLEAN /\ relaying \in BOOLEAN
  /\ active_vfo \in {"A", "B"} /\ mode \in Modes

LEMMA KeyedOnTyped ==
  ASSUME keyed \in BOOLEAN, chip1_tx \in BOOLEAN, NEW who, NEW vfo \in {"A", "B"},
         radio_ptt_on(who, vfo)
  PROVE  keyed' \in BOOLEAN /\ chip1_tx' \in BOOLEAN /\ active_vfo' \in {"A", "B"}
BY DEF radio_ptt_on

LEMMA KeyedOffTyped ==
  ASSUME active_vfo \in {"A", "B"}, NEW who, radio_ptt_off(who)
  PROVE  keyed' \in BOOLEAN /\ chip1_tx' \in BOOLEAN /\ active_vfo' \in {"A", "B"}
BY DEF radio_ptt_off

(* What a step may do with the radio.                                      *)
RadioMoves ==
  \/ UNCHANGED radioVars
  \/ \E who \in {"PTT", "VOX", "RELAY"}, vfo \in {"A", "B"} : radio_ptt_on(who, vfo)
  \/ \E who \in {"PTT", "VOX", "RELAY", "TOT"} : radio_ptt_off(who)

LEMMA RadioMovesTyped ==
  ASSUME PttFlags, RadioMoves
  PROVE  keyed' \in BOOLEAN /\ chip1_tx' \in BOOLEAN /\ active_vfo' \in {"A", "B"}
<1>1. CASE UNCHANGED radioVars
  BY <1>1 DEF radioVars, PttFlags
<1> QED
  BY <1>1, KeyedOnTyped, KeyedOffTyped DEF RadioMoves, PttFlags

(* A relay goes out on a VFO.                                              *)
LEMMA DirectionsTyped ==
  ASSUME NEW open, NEW d \in RxTx(open) PROVE d[2] \in {"A", "B"}
BY DEF RxTx

LEMMA PttFlagsStep == ASSUME PttFlags, PttNext PROVE PttFlags'
<1> USE DEF PttFlags
<1>0. /\ "PTT" \in {"PTT", "VOX", "RELAY"} /\ "PTT" \in {"PTT", "VOX", "RELAY", "TOT"}
      /\ active_vfo \in {"A", "B"}
  OBVIOUS
<1>1. CASE Press
  BY <1>0, <1>1, RadioMovesTyped DEF Press, RadioMoves, voxVars, relayVars
<1>2. CASE LetGo \/ TimeOut
  BY <1>2, RadioMovesTyped DEF LetGo, TimeOut, RadioMoves, voxVars, relayVars
<1>3. CASE vox_set_level /\ UNCHANGED <<relayVars, ptt_down, now, vox_unpolled>>
  <2>1. RadioMoves
    BY <1>3 DEF vox_set_level, RadioMoves
  <2>2. vox_level' = ~vox_level /\ (vox_tx_active' = FALSE \/ vox_tx_active' = vox_tx_active)
    BY <1>3 DEF vox_set_level
  <2> QED
    BY <1>3, <2>1, <2>2, RadioMovesTyped DEF relayVars
<1>4. CASE vox_poll
  <2>1. RadioMoves /\ vox_tx_active' \in {TRUE, FALSE, vox_tx_active}
    BY <1>4 DEF vox_poll, VoxHears, VoxSilent, RadioMoves
  <2> QED
    BY <1>4, <2>1, RadioMovesTyped DEF vox_poll, relayVars
<1>5. CASE Clock
  BY <1>5 DEF Clock, radioVars, relayVars
<1>6. CASE crossband_poll
  <2> PICK open \in SUBSET {"A", "B"} :
         \/ \E carrier \in BOOLEAN : Relay(carrier)
         \/ \E d \in RxTx(open) : StartRelay(d[2])
    BY <1>6 DEF crossband_poll
  <2>1. RadioMoves /\ relaying' \in {TRUE, FALSE, relaying}
    <3>1. ASSUME NEW carrier, Relay(carrier)
          PROVE  RadioMoves /\ relaying' \in {TRUE, FALSE, relaying}
      BY <3>1 DEF Relay, EndRelay, RadioMoves
    <3>2. ASSUME NEW d \in RxTx(open), StartRelay(d[2])
          PROVE  RadioMoves /\ relaying' \in {TRUE, FALSE, relaying}
      BY <3>2, DirectionsTyped DEF StartRelay, RadioMoves
    <3> QED
      BY <3>1, <3>2
  <2>2. UNCHANGED <<vox_level, vox_tx_active, mode, ptt_down>>
    BY <1>6 DEF crossband_poll, voxVars
  <2> QED
    BY <2>1, <2>2, RadioMovesTyped
<1>7. CASE crossband_set_mode
  <2>1. RadioMoves /\ mode' \in Modes /\ relaying' = FALSE
        /\ UNCHANGED <<vox_level, vox_tx_active, ptt_down>>
    BY <1>7 DEF crossband_set_mode, RadioMoves, voxVars
  <2> QED
    BY <2>1, RadioMovesTyped
<1> QED
  BY <1>1, <1>2, <1>3, <1>4, <1>5, <1>6, <1>7 DEF PttNext, Vox

(* The owners stay in their type: the times of VOX and the owner by PttInv,*)
(* the times of the relay here.                                            *)
LEMMA PttTypeStep == ASSUME PttTypeOK, PttInv, PttNext, PttInv' PROVE PttTypeOK'
<1>1. PttFlags'
  <2>1. PttFlags
    BY DEF PttTypeOK, PttFlags
  <2> QED
    BY <2>1, PttFlagsStep
<1>2. /\ vox_hang_start' \in 0 .. VoxTickMod - 1 /\ now' \in 0 .. VoxTickMod - 1
      /\ owner' \in {"NONE", "PTT", "VOX", "RELAY"}
  BY DEF PttInv, VoxInv, OwnerInv
<1>3. relay_seconds' \in 0 .. RelayTot /\ hang_countdown' \in 0 .. HangTicks
  <2> USE RelayConstants DEF PttTypeOK
  <2>1. CASE UNCHANGED relayVars
    BY <2>1 DEF relayVars
  <2>2. CASE crossband_set_mode
    BY <2>2 DEF crossband_set_mode
  <2>3. CASE crossband_poll
    <3>1. ASSUME NEW carrier, relaying, Relay(carrier)
          PROVE  relay_seconds' \in 0 .. RelayTot /\ hang_countdown' \in 0 .. HangTicks
      <4>1. relay_seconds \in Nat /\ relay_seconds < RelayTot /\ hang_countdown \in 0 .. HangTicks
        BY <3>1 DEF PttInv, RelayInv
      <4>2. /\ relay_seconds' \in {0, relay_seconds, relay_seconds + 1}
            /\ \/ hang_countdown' \in {HangTicks, hang_countdown}
               \/ hang_countdown > 0 /\ hang_countdown' = hang_countdown - 1
        BY <3>1 DEF Relay, EndRelay
      <4> QED
        BY <4>1, <4>2
    <3>2. ASSUME NEW vfo, StartRelay(vfo)
          PROVE  relay_seconds' \in 0 .. RelayTot /\ hang_countdown' \in 0 .. HangTicks
      BY <3>2 DEF StartRelay
    <3> QED
      BY <2>3, <3>1, <3>2 DEF crossband_poll
  <2>4. PttNext => UNCHANGED relayVars \/ crossband_poll \/ crossband_set_mode
    BY DEF PttNext, Press, LetGo, TimeOut, Vox, vox_poll, Clock
  <2> QED
    BY <2>1, <2>2, <2>3, <2>4
<1> QED
  BY <1>1, <1>2, <1>3 DEF PttFlags, PttTypeOK

(* The digits that dual watch keeps are those of VFOs.                     *)
DualTypes == DualTypeOK /\ dtmf_dec_buf \in Seq({"A", "B"})

LEMMA DualTypesStep == ASSUME DualTypes, DualNext, DualInv' PROVE DualTypes'
<1> USE DEF DualTypes, DualTypeOK, focusVars, dtmfVars
<1>1. /\ dw_active' \in {"A", "B"} /\ dw_rx_vfo' \in {"A", "B"}
      /\ dw_signal_hold' \in 0 .. HoldPolls
  BY DEF DualInv
<1>2. /\ dual_watch' \in BOOLEAN /\ on_air' \in BOOLEAN /\ steady' \in BOOLEAN
      /\ polled' \in BOOLEAN
  <2>1. CASE radio_dual_watch_poll
    BY <2>1 DEF radio_dual_watch_poll, FocusBack, Holding, Checking
  <2>2. CASE ~radio_dual_watch_poll
    BY <2>2 DEF DualNext, radio_dtmf_decode_poll, Switched, Keyed, DwClock
  <2> QED
    BY <2>1, <2>2
<1>3. dtmf_dec_buf' \in Seq({"A", "B"}) /\ Len(dtmf_dec_buf') <= DtmfMax
  <2>1. CASE radio_dtmf_decode_poll
    <3> DEFINE decoded == IF on_air \/ Expired THEN << >> ELSE dtmf_dec_buf
    <3>1. decoded \in Seq({"A", "B"}) /\ Len(decoded) <= DtmfMax
      BY DualWatchAssumption
    <3>2. \/ Len(decoded) < DtmfMax /\ dtmf_dec_buf' = Append(decoded, dw_rx_vfo)
          \/ dtmf_dec_buf' = decoded
      BY <2>1 DEF radio_dtmf_decode_poll
    <3> HIDE DEF decoded
    <3>3. CASE Len(decoded) < DtmfMax /\ dtmf_dec_buf' = Append(decoded, dw_rx_vfo)
      <4>1. dw_rx_vfo \in {"A", "B"} /\ DtmfMax \in Nat
        BY DualWatchAssumption
      <4>2. /\ Append(decoded, dw_rx_vfo) \in Seq({"A", "B"})
            /\ Len(Append(decoded, dw_rx_vfo)) = Len(decoded) + 1 /\ Len(decoded) \in Nat
        BY <3>1, <4>1
      <4> QED
        BY <3>3, <4>1, <4>2
    <3> QED
      BY <3>1, <3>2, <3>3
  <2>2. CASE ~radio_dtmf_decode_poll
    BY <2>2 DEF DualNext, radio_dual_watch_poll, Switched, Keyed, DwClock
  <2> QED
    BY <2>1, <2>2
<1> QED
  BY <1>1, <1>2, <1>3

(* The modes and the Boolean variables of the scanner, and its counts: a   *)
(* settling that is polled has ticks left, so it never runs below 0.       *)
ScanFlags ==
  /\ scan_mode \in ScanModes /\ resume_mode \in Resumes
  /\ paused \in BOOLEAN /\ range_on \in BOOLEAN
  /\ fresh \in BOOLEAN /\ listened \in BOOLEAN

ScanCounts ==
  /\ settle_counter \in Nat /\ settle_counter <= SettleTicks
  /\ tick_counter \in Nat /\ resume_countdown \in Nat
  /\ current_channel \in (0 .. MemChannels - 1) \cup {NoMem}

(* The next memory channel to scan is one, or there is none.               *)
LEMMA NextMemTyped ==
  ASSUME NEW start \in Int
  PROVE  NextMem(start) \in (0 .. MemChannels - 1) \cup {NoMem}
<1> DEFINE w == [i \in 1 .. MemChannels |-> (start + i) % MemChannels]
           hits == {i \in 1 .. MemChannels : w[i] \in scan_list}
<1>1. \A i \in 1 .. MemChannels : w[i] \in 0 .. MemChannels - 1
  BY ScannerAssumption
<1>2. NextMem(start) = IF hits = {} THEN NoMem
                       ELSE w[CHOOSE i \in hits : \A j \in hits : i <= j]
  BY DEF NextMem
<1>3. hits \subseteq 1 .. MemChannels /\ hits \subseteq Nat
  BY ScannerAssumption
<1> HIDE DEF w, hits
<1>4. hits # {} => (CHOOSE i \in hits : \A j \in hits : i <= j) \in hits
  BY <1>3, LeastNatural
<1> QED
  BY <1>1, <1>2, <1>3, <1>4

LEMMA ScanConstants ==
  /\ SettleTicks \in Nat /\ DebounceReads \in Nat
  /\ HoldoffTicks \in Nat /\ ResumeTicks \in Nat
BY ScannerAssumption

(* What a poll of the scanner does.                                        *)
LEMMA PollCases ==
  ASSUME ScanCounts, scanner_poll
  PROVE  /\ UNCHANGED resume_mode /\ UNCHANGED range_on
         /\ \E open \in BOOLEAN :
              \/ Hold(open) \/ Listen(open) \/ Wait \/ StepVfo \/ StepMemory
              \/ settle_counter > 0 /\ Settle
BY DEF scanner_poll

LEMMA ScanFlagsStep == ASSUME ScanFlags, ScanCounts, ScanNext PROVE ScanFlags'
<1> USE DEF ScanFlags, ScanModes, Resumes
<1>1. CASE scanner_start
  BY <1>1 DEF scanner_start
<1>2. CASE scanner_stop
  BY <1>2 DEF scanner_stop, Stopped
<1>3. CASE Configure
  BY <1>3 DEF Configure
<1>4. CASE scanner_poll
  <2>0. UNCHANGED resume_mode /\ UNCHANGED range_on
    BY <1>4, PollCases
  <2>1. ASSUME NEW open \in BOOLEAN, Hold(open) PROVE ScanFlags'
    <3>1. paused' \in BOOLEAN
      BY <2>1 DEF Hold
    <3>2. scan_mode' = scan_mode /\ fresh' \in BOOLEAN /\ listened' \in BOOLEAN
      BY <2>1 DEF Hold
    <3> QED
      BY <2>0, <3>1, <3>2
  <2>2. ASSUME NEW open \in BOOLEAN, Listen(open) PROVE ScanFlags'
    BY <2>0, <2>2 DEF Listen
  <2>3. CASE Wait \/ Settle
    BY <2>0, <2>3 DEF Wait, Settle
  <2>4. ASSUME NEW t, Tuned(t) PROVE ScanFlags'
    BY <2>0, <2>4 DEF Tuned
  <2>5. CASE StepVfo \/ StepMemory
    <3>1. (\E t : Tuned(t)) \/ (Stopped /\ UNCHANGED fresh /\ UNCHANGED listened)
      BY <2>5 DEF StepVfo, StepMemory
    <3> QED
      BY <2>0, <2>4, <3>1 DEF Stopped
  <2> QED
    BY <1>4, <2>1, <2>2, <2>3, <2>5, PollCases
<1> QED
  BY <1>1, <1>2, <1>3, <1>4 DEF ScanNext

LEMMA ScanCountsStep == ASSUME ScanCounts, ScanNext PROVE ScanCounts'
<1> USE ScanConstants DEF ScanCounts
<1>0. current_channel \in Int
  BY ScannerAssumption DEF NoMem
<1>1. CASE scanner_start
  <2>1. NextMem(current_channel) \in (0 .. MemChannels - 1) \cup {NoMem}
    BY <1>0, NextMemTyped
  <2>2. current_channel' \in {NextMem(current_channel), current_channel}
    BY <1>1 DEF scanner_start
  <2>3. tick_counter' = 0 /\ settle_counter' = 0 /\ resume_countdown' = resume_countdown
    BY <1>1 DEF scanner_start
  <2> QED
    BY <2>1, <2>2, <2>3
<1>2. CASE scanner_stop
  BY <1>2 DEF scanner_stop, Stopped
<1>3. CASE Configure
  BY <1>3 DEF Configure
<1>4. CASE scanner_poll
  <2>1. ASSUME NEW open \in BOOLEAN, Hold(open) PROVE ScanCounts'
    <3>1. resume_countdown' \in Nat
      BY <2>1 DEF Hold
    <3> QED
      BY <2>1, <3>1 DEF Hold
  <2>2. ASSUME NEW open \in BOOLEAN, Listen(open) PROVE ScanCounts'
    BY <2>2 DEF Listen
  <2>3. CASE Wait \/ (settle_counter > 0 /\ Settle)
    BY <2>3 DEF Wait, Settle
  <2>4. ASSUME NEW t, Tuned(t)
        PROVE  settle_counter' = SettleTicks /\ tick_counter' = 0
               /\ resume_countdown' = resume_countdown
    BY <2>4 DEF Tuned
  <2>5. CASE StepVfo
    BY <2>4, <2>5 DEF StepVfo
  <2>6. CASE StepMemory
    <3> DEFINE next == IF NextMem(current_channel) # NoMem THEN NextMem(current_channel)
                       ELSE NextMem(0)
    <3>1. next \in (0 .. MemChannels - 1) \cup {NoMem}
      BY <1>0, NextMemTyped
    <3> HIDE DEF next
    <3>2. \/ /\ tick_counter' = 0 /\ settle_counter' = 0
             /\ resume_countdown' = resume_countdown /\ current_channel' = current_channel
          \/ current_channel' = next /\ \E t : Tuned(t)
      BY <2>6 DEF StepMemory, Stopped, next
    <3> QED
      BY <2>4, <3>1, <3>2
  <2> QED
    BY <1>4, <2>1, <2>2, <2>3, <2>5, <2>6, PollCases
<1> QED
  BY <1>1, <1>2, <1>3, <1>4 DEF ScanNext

LEMMA ScanTypesImply == ASSUME ScanFlags, ScanCounts, ScanInv PROVE ScanTypeOK
BY ScanConstants DEF ScanFlags, ScanCounts, ScanInv, ScanTypeOK

(* The spectrum stays in its type; its keys and knob never change the chip.*)
LEMMA SpectrumTypeStep ==
  ASSUME SpectrumTypeOK, SpectrumInv, SpectrumNext, SpectrumInv' PROVE SpectrumTypeOK'
<1>1. spec \in SpectrumStates /\ spec' \in SpectrumStates
  BY DEF SpectrumInv
<1>2. enabled' \subseteq Chips2
  <2>1. CASE spectrum_poll
    <3>1. \E k \in SpectrumKeys, dir \in {-1, 0, 1} :
            enabled' \in {enabled, enabled \cup {handle_encoder(handle_keys(spec, k), dir).chip}}
      BY <2>1 DEF spectrum_poll
    <3>2. \A k \in SpectrumKeys, dir \in {-1, 0, 1} :
            handle_encoder(handle_keys(spec, k), dir).chip = spec.chip
      <4>1. SpanInRange(spec)
        BY <2>1 DEF spectrum_poll, SpectrumInv
      <4> TAKE k \in SpectrumKeys, dir \in {-1, 0, 1}
      <4>2. /\ handle_keys(spec, k) \in SpectrumStates /\ SpanInRange(handle_keys(spec, k))
            /\ handle_keys(spec, k).chip = spec.chip
        BY <1>1, <4>1, KeysKeepRange
      <4> QED
        BY <4>2, KnobKeepsRange
    <3> QED
      BY <3>1, <3>2 DEF SpectrumTypeOK
  <2>2. CASE ~spectrum_poll
    BY <2>2 DEF SpectrumNext, spectrum_enter, spectrum_exit, SpectrumTypeOK, Chips2
  <2> QED
    BY <2>1, <2>2
<1> QED
  BY <1>1, <1>2 DEF SpectrumStates, SpectrumTypeOK

(* Of the parts whose invariant is their type already.                     *)
LEMMA TonesInvTypes == ASSUME TonesInv PROVE TonesTypeOK
BY TonesInvImplies

LEMMA StoreInvTypes == ASSUME StoreInv PROVE ChannelTypeOK
<1> SUFFICES ASSUME job # NoJob
             PROVE  /\ job.sector \in {Sector(c) : c \in Channels}
                    /\ job.next \in 0 .. PerSector
  BY DEF StoreInv, ChannelTypeOK
<1>1. /\ \E ch \in Channels : Sector(ch) = job.sector
      /\ job.next \in {0} \cup Pages(job.sector)
  BY DEF StoreInv, JobOK
<1>2. ASSUME NEW ch \in Channels PROVE Page(ch) \in 0 .. PerSector
  <2>1. /\ ch % PerSector \in 0 .. PerSector - 1 /\ PerSector \in Nat
        /\ PerPage \in Nat \ {0}
    BY ChannelAssumption DEF Channels
  <2>2. \A m \in Nat : m \div PerPage \in 0 .. m
    BY <2>1
  <2> QED
    BY <2>1, <2>2 DEF Page
<1> QED
  BY <1>1, <1>2, ChannelAssumption DEF Pages, InSector

LEMMA BroadcastInvTypes == ASSUME BroadcastInv PROVE BroadcastTypeOK
<1>1. chip \in ChipStates /\ fm \in FmStates /\ am \in AmStates /\ InBand(am)
      /\ noaa \in NoaaStates
  BY DEF BroadcastInv, ReceiverTypes
<1>2. chip.func \in {"OFF", "FM", "AM", "WB"}
  BY <1>1 DEF ChipStates, ChipFuncs
<1>3. fm.active \in Slots /\ fm.freq \in 0 .. FmMax
  BY <1>1 DEF FmStates
<1>4. am.band \in Bands /\ am.filter \in 1 .. Filters /\ am.bfo \in -BfoMax .. BfoMax
  BY <1>1 DEF AmStates
<1>5. noaa.channel \in 0 .. NoaaChannels - 1
  BY <1>1 DEF NoaaStates
<1> QED
  BY <1>1, <1>2, <1>3, <1>4, <1>5 DEF BroadcastTypeOK, InBand

(* Every part starts in its type.                                          *)
LEMMA TypesInitInputs ==
  ASSUME KeypadInit, EncoderInit, AudioInit, PowerInit
  PROVE  KeypadTypeOK /\ EncoderTypeOK /\ AudioTypeOK /\ PowerTypes
<1>1. KeypadTypeOK
  BY KeypadAssumption DEF KeypadInit, KeypadTypeOK
<1>2. EncoderTypeOK
  <2>1. Gray(0) \in 0 .. 3
    BY GrayIn
  <2> QED
    BY <2>1, EncoderAssumption DEF EncoderInit, EncoderTypeOK, Threshold
<1>3. AudioTypeOK
  <2>1. {tone_active, dac, beep_on, wraps} \subseteq BOOLEAN
    BY DEF AudioInit
  <2>2. /\ audio_tick \in 0 .. AudioTickMod - 1 /\ tone_end_ms \in 0 .. AudioTickMod - 1
        /\ unpolled \in 0 .. PollGap
        /\ path \in {"RADIO", "DAC"} /\ receivers \in {"RX", "STANDBY"}
    BY AudioAssumption DEF AudioInit
  <2> QED
    BY <2>1, <2>2 DEF AudioTypeOK
<1>4. PowerTypes
  <2>1. PowerFlags
    BY DEF PowerInit, PowerFlags
  <2>2. /\ held_count \in 0 .. LongPress /\ held_count < LongPress
        /\ idle_seconds \in 0 .. MaxQuiet /\ keylock_idle \in 0 .. MaxQuiet
        /\ auto_off_minutes \in AutoOffMinutes \cup {0}
        /\ low_batt_counter \in 0 .. LowBattBeep - 1
    BY PowerAssumption DEF PowerInit
  <2> QED
    BY <2>1, <2>2 DEF PowerFlags, PowerTypes, PowerTypeOK
<1> QED
  BY <1>1, <1>2, <1>3, <1>4

LEMMA TypesInitRadio ==
  ASSUME PttInit, DualInit, ScanInit, SpectrumInit, SpectrumInv
  PROVE  PttTypeOK /\ DualTypes /\ ScanFlags /\ ScanCounts /\ SpectrumTypeOK
<1>1. PttTypeOK
  <2>1. PttFlags
    BY DEF PttInit, PttFlags, Modes
  <2>2. /\ vox_hang_start \in 0 .. VoxTickMod - 1 /\ now \in 0 .. VoxTickMod - 1
        /\ relay_seconds \in 0 .. RelayTot /\ hang_countdown \in 0 .. HangTicks
        /\ owner \in {"NONE", "PTT", "VOX", "RELAY"}
    BY PttAssumption DEF PttInit
  <2> QED
    BY <2>1, <2>2 DEF PttFlags, PttTypeOK
<1>2. DualTypes
  <2>1. {dual_watch, on_air, steady, polled} \subseteq BOOLEAN
    BY DEF DualInit
  <2>2. /\ {dw_active, dw_rx_vfo} \subseteq {"A", "B"}
        /\ dw_signal_hold \in 0 .. HoldPolls
        /\ dtmf_dec_buf \in Seq({"A", "B"}) /\ Len(dtmf_dec_buf) <= DtmfMax
    BY DualWatchAssumption DEF DualInit
  <2> QED
    BY <2>1, <2>2 DEF DualTypes, DualTypeOK
<1>3. ScanFlags
  BY DEF ScanInit, ScanFlags, ScanModes, Resumes
<1>4. ScanCounts
  BY ScannerAssumption DEF ScanInit, ScanCounts
<1>5. SpectrumTypeOK
  <2>1. spec \in SpectrumStates
    BY DEF SpectrumInv
  <2>2. enabled = Chips2
    BY DEF SpectrumInit
  <2> QED
    BY <2>1, <2>2 DEF SpectrumStates, SpectrumTypeOK
<1> QED
  BY <1>1, <1>2, <1>3, <1>4, <1>5

(* A step of another part leaves them.                                     *)
LEMMA KeypadTypesKept == ASSUME KeypadTypeOK, UNCHANGED keypadVars PROVE KeypadTypeOK'
BY DEF KeypadTypeOK, keypadVars

LEMMA EncoderTypesKept == ASSUME EncoderTypeOK, UNCHANGED encoderVars PROVE EncoderTypeOK'
BY DEF EncoderTypeOK, encoderVars

LEMMA AudioTypesKept == ASSUME AudioTypeOK, UNCHANGED audioVars PROVE AudioTypeOK'
BY DEF AudioTypeOK, audioVars

LEMMA PowerTypesKept == ASSUME PowerTypes, UNCHANGED powerVars PROVE PowerTypes'
BY DEF PowerTypes, PowerTypeOK, powerVars, timerVars

LEMMA PttTypesKept == ASSUME PttTypeOK, UNCHANGED pttVars PROVE PttTypeOK'
BY DEF PttTypeOK, pttVars, radioVars, voxVars, relayVars

LEMMA DualTypesKept == ASSUME DualTypes, UNCHANGED dualVars PROVE DualTypes'
BY DEF DualTypes, DualTypeOK, dualVars

LEMMA ScanTypesKept ==
  ASSUME ScanFlags, ScanCounts, UNCHANGED scanVars PROVE ScanFlags' /\ ScanCounts'
BY DEF ScanFlags, ScanCounts, scanVars

LEMMA SpectrumTypesKept == ASSUME SpectrumTypeOK, UNCHANGED spectrumVars PROVE SpectrumTypeOK'
BY DEF SpectrumTypeOK, spectrumVars

-----------------------------------------------------------------------------
(* The device. *)

(* What is in a first state of the device.                                 *)
LEMMA FirstStates ==
  ASSUME DeviceInit
  PROVE  /\ KeypadInit /\ EncoderInit /\ PowerInit
         /\ PttInit /\ AudioInit /\ DualInit
         /\ ScanInit /\ SpectrumInit
         /\ TonesInit
         /\ MenuInit /\ PanelsInit
         /\ ChannelInit
         /\ BroadcastInit /\ AprsInit
         /\ SerialInit /\ GpsInit
BY DEF DeviceInit

(* A step of the device is one of a part's own or leaves it alone.         *)
LEMMA PartSteps ==
  ASSUME DeviceNext \/ UNCHANGED deviceVars
  PROVE  /\ KeypadNext \/ UNCHANGED keypadVars
         /\ EncoderNext \/ UNCHANGED encoderVars
         /\ PowerNext \/ UNCHANGED powerVars
         /\ AudioNext \/ UNCHANGED audioVars
         /\ PttNext \/ UNCHANGED pttVars
         /\ DualNext \/ UNCHANGED dualVars
         /\ ScanNext \/ UNCHANGED scanVars
         /\ SpectrumNext \/ UNCHANGED spectrumVars
         /\ TonesNext \/ UNCHANGED tonesVars
         /\ MenuNext \/ UNCHANGED menuVars
         /\ PanelsNext \/ UNCHANGED panelsVars
         /\ ChannelNext \/ UNCHANGED channelVars
         /\ BroadcastNext \/ UNCHANGED broadcastVars
         /\ AprsNext \/ UNCHANGED aprsVars
         /\ SerialNext \/ UNCHANGED serialVars
         /\ GpsNext \/ UNCHANGED gpsVars
<1>1. CASE UNCHANGED deviceVars
  BY <1>1 DEF deviceVars, inputVars, radioPartVars, panelPartVars, linkVars
<1>2. CASE InputStep
  BY <1>2 DEF InputStep, radioPartVars, panelPartVars, linkVars
<1>3. CASE RadioStep
  BY <1>3 DEF RadioStep, inputVars, panelPartVars, linkVars
<1>4. CASE PanelStep
  BY <1>4 DEF PanelStep, inputVars, radioPartVars, panelPartVars, linkVars
<1>5. CASE LinkStep
  BY <1>5 DEF LinkStep, inputVars, radioPartVars, panelPartVars
<1> QED
  BY <1>1, <1>2, <1>3, <1>4, <1>5 DEF DeviceNext

LEMMA KeypadInvKept == ASSUME KeypadInv, UNCHANGED keypadVars PROVE KeypadInv'
BY DEF KeypadInv, keypadVars

LEMMA EncoderInvKept == ASSUME EncoderInv, UNCHANGED encoderVars PROVE EncoderInv'
BY DEF EncoderInv, DetentsFollowShaft, encoderVars

LEMMA PowerInvKept == ASSUME PowerInv, UNCHANGED powerVars PROVE PowerInv'
BY DEF PowerInv, OffOnlyWhenAsked, powerVars, timerVars

LEMMA PttInvKept == ASSUME PttInv, UNCHANGED pttVars PROVE PttInv'
BY RelayInvKept, VoxInvKept DEF PttInv, OwnerInv, pttVars, radioVars, voxVars, relayVars

LEMMA AudioInvKept == ASSUME AudioInv, UNCHANGED audioVars PROVE AudioInv'
BY DEF AudioInv, audioVars

LEMMA ScanInvKept == ASSUME ScanInv, UNCHANGED scanVars PROVE ScanInv'
BY DEF ScanInv, ScanHearsWhatItShows, scanVars

LEMMA SpectrumInvKept == ASSUME SpectrumInv, UNCHANGED spectrumVars PROVE SpectrumInv'
BY DEF SpectrumInv, SpectrumShowsItsSweep, spectrumVars

LEMMA DualInvKept == ASSUME DualInv, UNCHANGED dualVars PROVE DualInv'
BY DEF DualInv, dualVars

LEMMA TonesInvKept == ASSUME TonesInv, UNCHANGED tonesVars PROVE TonesInv'
BY DEF TonesInv, tonesVars

LEMMA MenuInvKept == ASSUME MenuInv, UNCHANGED menuVars PROVE MenuInv'
<1>1. MenuItem' = MenuItem /\ Len(Cat') = Len(Cat)
  BY DEF menuVars, MenuItem, Cat
<1>2. MenuPlace' /\ MenuValues'
  BY <1>1 DEF MenuInv, MenuPlace, MenuValues, menuVars
<1>3. EditIsSound' /\ MenuSavesWhatItShows'
  BY <1>1 DEF MenuInv, EditIsSound, Followed, MenuSavesWhatItShows, menuVars
<1> QED
  BY <1>2, <1>3 DEF MenuInv

LEMMA PanelsInvKept == ASSUME PanelsInv, UNCHANGED panelsVars PROVE PanelsInv'
BY DEF PanelsInv, TextTypes, NameIsPadded, TextStaysInBuffer, OthersInv, freq_in_band, panelsVars

LEMMA StoreInvKept == ASSUME StoreInv, UNCHANGED channelVars PROVE StoreInv'
BY DEF StoreInv, JobOK, channelVars

LEMMA BroadcastInvKept == ASSUME BroadcastInv, UNCHANGED broadcastVars PROVE BroadcastInv'
BY DEF BroadcastInv, ReceiverTypes, OneIsOn, ChipShows, NoneOn, OneAlert, InBand, FmAgrees,
       AmAgrees, NoaaAgrees, Waits, broadcastVars

LEMMA AprsInvKept == ASSUME AprsInv, UNCHANGED aprsVars PROVE AprsInv'
<1>1. UNCHANGED <<config, air, last_pkt, state, countdown, fix, ptt_holder, fsk, sent_frames,
                  idle_polls, period>>
  BY DEF aprsVars
<1>2. AirIsFrame' /\ PacketIsFrame' /\ ConfigTyped' /\ Interval' = Interval
  BY <1>1, AprsKept
<1> QED
  BY <1>1, <1>2 DEF AprsInv, AprsTypeOK, BeaconKeepsTime

(* Whatever is typed and turned, a key that is reported pressed is         *)
(* reported released, and the detents and the fraction that is kept add up *)
(* to where the shaft is while the poll keeps up (keypad.c, encoder.c).    *)
THEOREM InputsCorrect == DeviceSpec => []InputsMatchHands
<1>1. DeviceInit => KeypadInv /\ EncoderInv
  BY FirstStates, KeypadInvInit, EncoderInvInit
<1>2. KeypadInv /\ EncoderInv /\ [DeviceNext]_deviceVars => (KeypadInv /\ EncoderInv)'
  BY PartSteps, KeypadInvStep, KeypadInvKept, EncoderInvStep, EncoderInvKept
<1>3. KeypadInv /\ EncoderInv => InputsMatchHands
  BY KeypadInvImplies DEF EncoderInv, InputsMatchHands
<1> QED
  BY <1>1, <1>2, <1>3, PTL DEF DeviceSpec

(* The power goes off only after the switch has read OFF for the long      *)
(* press or nothing was touched for the auto-off time, the idle counts     *)
(* never run ahead of how long the radio was left alone, and a switch      *)
(* turned on in STOP has its wake-up pending (power.c).                    *)
THEOREM PowerCorrect == DeviceSpec => []OffOnlyWhenAsked
<1>1. DeviceInit => PowerInv
  BY FirstStates, PowerInvInit
<1>2. PowerInv /\ [DeviceNext]_deviceVars => PowerInv'
  BY PartSteps, PowerInvStep, PowerInvKept
<1>3. PowerInv => OffOnlyWhenAsked
  BY DEF PowerInv
<1> QED
  BY <1>1, <1>2, <1>3, PTL DEF DeviceSpec

(* What keyed the transmitter - the PTT, VOX or the relay - still holds it *)
(* and will let go (vox.c, crossband.c, radio.c).                          *)
THEOREM PttCorrect == DeviceSpec => []TransmitterIsHeld
<1>1. DeviceInit => PttInv
  BY FirstStates, PttInvInit
<1>2. PttInv /\ [DeviceNext]_deviceVars => PttInv'
  BY PartSteps, PttInvStep, PttInvKept
<1>3. PttInv => TransmitterIsHeld
  BY PttInvImplies
<1> QED
  BY <1>1, <1>2, <1>3, PTL DEF DeviceSpec

(* The speaker and both receivers are the radio's exactly while no tone    *)
(* plays, and a step of a sequence ends at the first poll after its time,  *)
(* unless that is at the wrap of the tick (audio.c).                       *)
THEOREM SpeakerReturned == DeviceSpec => []RadioGetsSpeakerBack
<1>1. DeviceInit => AudioInv
  BY FirstStates, AudioInvInit
<1>2. AudioInv /\ [DeviceNext]_deviceVars => AudioInv'
  BY PartSteps, AudioInvStep, AudioInvKept
<1>3. AudioInv => RadioGetsSpeakerBack
  BY AudioInvImplies
<1> QED
  BY <1>1, <1>2, <1>3, PTL DEF DeviceSpec

(* The focus of reception leaves the active VFO only within the hold of a  *)
(* signal heard on the other, and comes back with it (radio.c).            *)
THEOREM FocusCorrect == DeviceSpec => []FocusFollowsSignal
<1>1. DeviceInit => DualInv
  BY FirstStates, DualInvInit
<1>2. DualInv /\ [DeviceNext]_deviceVars => DualInv'
  BY PartSteps, DualInvStep, DualInvKept
<1>3. DualInv => FocusFollowsSignal
  BY DualInvImplies
<1> QED
  BY <1>1, <1>2, <1>3, PTL DEF DeviceSpec

(* A scan stops only on what it heard open after settling and shows the    *)
(* channel it hears (scanner.c); the sweep stays in the range of the chip  *)
(* and each bar stands at the frequency it was read at (spectrum.c).       *)
THEOREM SearchCorrect == DeviceSpec => []SearchShowsWhatItHears
<1>1. DeviceInit => ScanInv /\ SpectrumInv
  BY FirstStates, ScanInvInit, SpectrumInvInit
<1>2. ScanInv /\ SpectrumInv /\ [DeviceNext]_deviceVars => (ScanInv /\ SpectrumInv)'
  BY PartSteps, ScanInvStep, ScanInvKept, SpectrumInvStep, SpectrumInvKept
<1>3. ScanInv /\ SpectrumInv => SearchShowsWhatItHears
  BY DEF ScanInv, SpectrumInv, SearchShowsWhatItHears
<1> QED
  BY <1>1, <1>2, <1>3, PTL DEF DeviceSpec

(* A frame that came whole into the buffer of a session is handled once or *)
(* still there, a sentence that is read is one that was sent, the bridge   *)
(* passes on all it took in its order (cps.c, gps.c, bluetooth.c), and     *)
(* time, place and fix are what the receiver last said of them (gps.c).    *)
THEOREM LinksCorrect == DeviceSpec => []LinksCarryWhatWasSent
<1>1. DeviceInit => SerialInv /\ GpsInv
  BY FirstStates, SerialInvInit, GpsInvInit
<1>2. SerialInv /\ GpsInv /\ [DeviceNext]_deviceVars => (SerialInv /\ GpsInv)'
  BY PartSteps, SerialInvStep, SerialInvKept, GpsInvStep, GpsInvKept
<1>3. SerialInv /\ GpsInv => LinksCarryWhatWasSent
  BY SerialInvImplies DEF GpsInv, LinksCarryWhatWasSent
<1> QED
  BY <1>1, <1>2, <1>3, PTL DEF DeviceSpec

(* What a transceiver is programmed with is its VFO's, whatever records    *)
(* were loaded and whatever was set, swapped, copied, monitored or sent    *)
(* since: its squelch, but for one the Monitor key opened, its scrambler,  *)
(* and no tone but one the VFO asks for (vfo.c, bk4829.c, radio.c).        *)
THEOREM ChipCorrect == DeviceSpec => []ChipFollowsVfo
<1>1. DeviceInit => TonesInv
  BY FirstStates, TonesInvInit
<1>2. TonesInv /\ [DeviceNext]_deviceVars => TonesInv'
  BY PartSteps, TonesInvStep, TonesInvKept
<1>3. TonesInv => ChipFollowsVfo
  BY TonesInvImplies
<1> QED
  BY <1>1, <1>2, <1>3, PTL DEF DeviceSpec

(* What the menu showed when OK was pressed is what the setting reads as,  *)
(* what the module that copied it works with and what the flash holds      *)
(* (menu.c); no tap writes past the end of a name, the chosen contact is   *)
(* on the screen, and the VFO is given only frequencies of the entry's     *)
(* bands (text_input.c, dtmf_contacts.c, freq_entry.c).                    *)
THEOREM PanelsCorrect == DeviceSpec => []PanelsShowWhatIsKept
<1>1. DeviceInit => MenuInv /\ PanelsInv
  BY FirstStates, MenuInvInit, PanelsInvInit
<1>2. MenuInv /\ PanelsInv /\ [DeviceNext]_deviceVars => (MenuInv /\ PanelsInv)'
  BY PartSteps, MenuInvStep, MenuInvKept, PanelsInvStep, PanelsInvKept
<1>3. MenuInv /\ PanelsInv => PanelsShowWhatIsKept
  BY MenuInvImplies, PanelsInvImplies DEF PanelsShowWhatIsKept
<1> QED
  BY <1>1, <1>2, <1>3, PTL DEF DeviceSpec

(* Between two writes every channel reads as it was last saved, renamed or *)
(* deleted, except those of one sector whose rewrite the power cut off     *)
(* before their page was back (flash_layout.c); a VFO comes back from its  *)
(* channel, and a search finds the nearest channel in use (channel.c).     *)
THEOREM ChannelsCorrect == DeviceSpec => []ChannelsSurvive
<1>1. DeviceInit => StoreInv
  BY FirstStates, StoreInvInit
<1>2. StoreInv /\ [DeviceNext]_deviceVars => StoreInv'
  BY PartSteps, StoreInvStep, StoreInvKept
<1>3. StoreInv => ChannelsSurvive
  BY StoreInvImplies
<1> QED
  BY <1>1, <1>2, <1>3, PTL DEF DeviceSpec

(* While no command fails and no receiver comes on over another, the chip  *)
(* does what the receiver that is on shows, through every power cycle that *)
(* a band takes, and is off with all of them (fm_radio.c, am_radio.c,      *)
(* noaa.c); a signal that lasts is announced once.                         *)
THEOREM ReceiversCorrect == DeviceSpec => []ReceiversAgreeWithChip
<1>1. DeviceInit => BroadcastInv
  BY FirstStates, BroadcastInvInit
<1>2. BroadcastInv /\ [DeviceNext]_deviceVars => BroadcastInv'
  BY PartSteps, BroadcastInvStep, BroadcastInvKept
<1>3. BroadcastInv => ReceiversAgreeWithChip
  BY BroadcastInvImplies
<1> QED
  BY <1>1, <1>2, <1>3, PTL DEF DeviceSpec

(* A beacon is fed to the FIFO whole and sent once; what another radio     *)
(* decodes is what went in, but for what the code is known to lose; and    *)
(* beacons keep their interval (aprs.c), for every position and            *)
(* configuration and frames of any length.                                 *)
THEOREM BeaconsCorrect == DeviceSpec => []BeaconsAreHeard
<1>1. DeviceInit => AprsInv
  BY FirstStates, AprsInvInit
<1>2. AprsInv /\ [DeviceNext]_deviceVars => AprsInv'
  BY PartSteps, AprsInvStep, AprsInvKept
<1>3. AprsInv => BeaconsAreHeard
  BY AprsInvImplies
<1> QED
  BY <1>1, <1>2, <1>3, PTL DEF DeviceSpec

(* What keeps the types: the invariants of the parts and their types.      *)
InputTypes ==
  /\ KeypadInv /\ KeypadTypeOK /\ EncoderInv /\ EncoderTypeOK
  /\ AudioInv /\ AudioTypeOK /\ PowerInv /\ PowerTypes
RadioTypes ==
  /\ PttInv /\ PttTypeOK /\ DualInv /\ DualTypes
  /\ ScanInv /\ ScanFlags /\ ScanCounts /\ SpectrumInv /\ SpectrumTypeOK
  /\ TonesInv /\ StoreInv
LinkTypes ==
  MenuInv /\ PanelsInv /\ SerialInv /\ GpsInv /\ BroadcastInv /\ AprsInv

LEMMA InputTypesStep ==
  ASSUME InputTypes, DeviceNext \/ UNCHANGED deviceVars PROVE InputTypes'
<1>1. /\ KeypadNext \/ UNCHANGED keypadVars
      /\ EncoderNext \/ UNCHANGED encoderVars
      /\ AudioNext \/ UNCHANGED audioVars
      /\ PowerNext \/ UNCHANGED powerVars
  BY PartSteps
<1>2. KeypadInv' /\ EncoderInv' /\ AudioInv' /\ PowerInv'
  BY <1>1, KeypadInvStep, KeypadInvKept, EncoderInvStep, EncoderInvKept, AudioInvStep,
     AudioInvKept, PowerInvStep, PowerInvKept DEF InputTypes
<1>3. KeypadTypeOK' /\ EncoderTypeOK' /\ AudioTypeOK' /\ PowerTypes'
  BY <1>1, <1>2, KeypadTypeStep, KeypadTypesKept, EncoderTypeStep, EncoderTypesKept,
     AudioTypeStep, AudioTypesKept, PowerTypesStep, PowerTypesKept DEF InputTypes
<1> QED
  BY <1>2, <1>3 DEF InputTypes

LEMMA RadioTypesStep ==
  ASSUME RadioTypes, DeviceNext \/ UNCHANGED deviceVars PROVE RadioTypes'
<1>1. /\ PttNext \/ UNCHANGED pttVars
      /\ DualNext \/ UNCHANGED dualVars
      /\ ScanNext \/ UNCHANGED scanVars
      /\ SpectrumNext \/ UNCHANGED spectrumVars
      /\ TonesNext \/ UNCHANGED tonesVars
      /\ ChannelNext \/ UNCHANGED channelVars
  BY PartSteps
<1>2. PttInv' /\ DualInv' /\ ScanInv' /\ SpectrumInv'
  BY <1>1, PttInvStep, PttInvKept, DualInvStep, DualInvKept, ScanInvStep, ScanInvKept,
     SpectrumInvStep, SpectrumInvKept DEF RadioTypes
<1>3. TonesInv' /\ StoreInv'
  BY <1>1, TonesInvStep, TonesInvKept, StoreInvStep, StoreInvKept DEF RadioTypes
<1>4. PttTypeOK' /\ DualTypes'
  BY <1>1, <1>2, PttTypeStep, PttTypesKept, DualTypesStep, DualTypesKept DEF RadioTypes
<1>5. ScanFlags' /\ ScanCounts' /\ SpectrumTypeOK'
  BY <1>1, <1>2, ScanFlagsStep, ScanCountsStep, ScanTypesKept, SpectrumTypeStep,
     SpectrumTypesKept DEF RadioTypes
<1> QED
  BY <1>2, <1>3, <1>4, <1>5 DEF RadioTypes

LEMMA LinkTypesStep ==
  ASSUME LinkTypes, DeviceNext \/ UNCHANGED deviceVars PROVE LinkTypes'
<1>1. /\ MenuNext \/ UNCHANGED menuVars
      /\ PanelsNext \/ UNCHANGED panelsVars
      /\ SerialNext \/ UNCHANGED serialVars
      /\ GpsNext \/ UNCHANGED gpsVars
      /\ BroadcastNext \/ UNCHANGED broadcastVars
      /\ AprsNext \/ UNCHANGED aprsVars
  BY PartSteps
<1>2. MenuInv' /\ PanelsInv' /\ BroadcastInv'
  BY <1>1, MenuInvStep, MenuInvKept, PanelsInvStep, PanelsInvKept, BroadcastInvStep,
     BroadcastInvKept DEF LinkTypes
<1>3. SerialInv' /\ GpsInv' /\ AprsInv'
  BY <1>1, SerialInvStep, SerialInvKept, GpsInvStep, GpsInvKept, AprsInvStep, AprsInvKept
     DEF LinkTypes
<1> QED
  BY <1>2, <1>3 DEF LinkTypes

(* Every variable of every part stays in its type, for every value of the  *)
(* constants: no counter runs over, no index leaves its table, no machine  *)
(* reaches a mode it does not have.                                        *)
THEOREM TypesCorrect == DeviceSpec => []DeviceTypeOK
<1> DEFINE Inv == unit \in Units /\ InputTypes /\ RadioTypes /\ LinkTypes
<1>1. DeviceInit => Inv
  <2> SUFFICES ASSUME DeviceInit PROVE Inv
    OBVIOUS
  <2>1. InputTypes
    BY FirstStates, KeypadInvInit, EncoderInvInit, AudioInvInit, PowerInvInit, TypesInitInputs
       DEF InputTypes
  <2>2. RadioTypes
    BY FirstStates, PttInvInit, DualInvInit, ScanInvInit, SpectrumInvInit, TonesInvInit,
       StoreInvInit, TypesInitRadio DEF RadioTypes
  <2>3. LinkTypes
    BY FirstStates, MenuInvInit, PanelsInvInit, SerialInvInit, GpsInvInit, BroadcastInvInit,
       AprsInvInit DEF LinkTypes
  <2> QED
    BY <2>1, <2>2, <2>3 DEF DeviceInit
<1>2. Inv /\ [DeviceNext]_deviceVars => Inv'
  <2> SUFFICES ASSUME Inv, DeviceNext \/ UNCHANGED deviceVars PROVE Inv'
    OBVIOUS
  <2>1. unit' = unit
    BY DEF DeviceNext, deviceVars
  <2> QED
    BY <2>1, InputTypesStep, RadioTypesStep, LinkTypesStep
<1>3. Inv => DeviceTypeOK
  <2> SUFFICES ASSUME Inv PROVE DeviceTypeOK
    OBVIOUS
  <2>1. KeypadTypeOK /\ EncoderTypeOK /\ AudioTypeOK /\ PowerTypeOK
    BY DEF InputTypes, PowerTypes
  <2>2. /\ PttTypeOK /\ DualTypeOK /\ ScanTypeOK /\ SpectrumTypeOK
        /\ TonesTypeOK /\ ChannelTypeOK
    BY ScanTypesImply, TonesInvTypes, StoreInvTypes DEF RadioTypes, DualTypes
  <2>3. /\ MenuTypeOK /\ PanelsTypeOK /\ SerialTypeOK /\ GpsTypeOK /\ BroadcastTypeOK
        /\ AprsTypeOK
    BY MenuInvImplies, PanelsInvImplies, SerialInvImplies, BroadcastInvTypes
       DEF LinkTypes, GpsInv, AprsInv
  <2> QED
    BY <2>1, <2>2, <2>3 DEF DeviceTypeOK
<1> QED
  <2> HIDE DEF Inv
  <2> QED
    BY <1>1, <1>2, <1>3, PTL DEF DeviceSpec
=============================================================================
