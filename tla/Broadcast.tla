------------------------------ MODULE Broadcast ------------------------------
(***************************************************************************)
(* The broadcast receivers: app/fm_radio.c, app/am_radio.c and app/noaa.c, *)
(* three clients of the one SI4732 chip, which each keep their own idea of *)
(* what it is doing, and the driver drivers/si4732.c under them.           *)
(*                                                                         *)
(* A handler is a sequence of commands to the chip; one of them may fail:  *)
(* refused (the chip answers NACK and is as it was) or late (the chip takes*)
(* it but is not clear to send in time).  What the chip does with a command*)
(* is external: it takes one for the function it was powered up for, and a *)
(* power-up only when it is off.  Every power-up asks for a boot from a    *)
(* patch, and no patch is ever sent: the header has a part that then waits *)
(* for ever and is never clear to send, and an OEM that always asks for it,*)
(* so the part is of either kind.  Bits on the I2C lines are left out.     *)
(*                                                                         *)
(* noaa.c has no caller; it is called as noaa.h asks.  fm_radio_init has   *)
(* none either, so a boot does or does not call it.                        *)
(***************************************************************************)
EXTENDS Integers, Sequences, SequencesExt, FiniteSets

CONSTANTS
  FmMin, FmMax, FmStep, FmDefault,
  PresetSlots,      \* FM_PRESET_COUNT; the keys reach the first ten
  StationSets,      \* the sets of frequencies a seek may find stations at
  AmBands,          \* bands[] with default_freqs
  Filters,          \* the number of bw_values
  BfoMax,           \* 16383, in steps of the encoder
  NoaaChannels,
  MaxCalls          \* bound on the handlers called

Bands == {"MW", "SW", "SSB"}
USB == 2
LSB == 1

ASSUME BroadcastAssumption ==
  /\ {FmMin, FmMax, FmStep, FmDefault} \subseteq Nat /\ 0 < FmStep /\ FmStep <= FmMin
  /\ FmDefault \in FmMin .. FmMax
  /\ {PresetSlots, NoaaChannels, Filters} \subseteq Nat \ {0} /\ BfoMax \in Nat
  /\ DOMAIN AmBands = Bands
  /\ \A b \in Bands :
       /\ {AmBands[b].min, AmBands[b].max} \subseteq Int
       /\ AmBands[b].default \in AmBands[b].min .. AmBands[b].max
       /\ AmBands[b].steps \in Seq(Int) /\ AmBands[b].steps # << >>

VARIABLES
  chip,        \* external: what the SI4732 was told since it was powered up
  part,        \* external: told to boot from a patch, "waits" for one or not
  fm,          \* the static state of fm_radio.c
  am,          \* the static state of am_radio.c
  noaa,        \* the static state of noaa.c
  fm_record,   \* the record of WL_EXTCFG: FM_PERSIST_MAGIC and what follows
  overlapped,  \* history: a receiver came on while another was on
  failed,      \* history: a command was refused or late since all were off
  beeps,       \* history: alerts sounded since the alert was last silent
  calls

broadcastVars == <<chip, part, fm, am, noaa, fm_record, overlapped, failed, beeps, calls>>

NoRecord == [magic |-> FALSE]
Slots == 0 .. PresetSlots - 1

ChipOff == [func |-> "OFF", freq |-> 0, filter |-> 0, mode |-> 0, bfo |-> 0]

FmBoot == [on |-> FALSE, freq |-> 0, presets |-> [s \in Slots |-> 0],
           active |-> 0, heard |-> 0]

\* fm_radio_init and fm_radio_restore: a frequency out of the band is not taken.
FmInit ==
  IF ~fm_record.magic THEN [FmBoot EXCEPT !.freq = FmDefault]
  ELSE [FmBoot EXCEPT
          !.freq = IF fm_record.freq \in FmMin .. FmMax THEN fm_record.freq
                   ELSE FmDefault,
          !.presets = fm_record.presets, !.active = fm_record.active]

\* am_radio_init.
AmInit == [on |-> FALSE, band |-> "MW", freq |-> AmBands["MW"].default, step |-> 1,
           filter |-> 1, side |-> USB, bfo |-> 0, edit |-> FALSE,
           patched |-> FALSE, heard |-> 0]

NoaaInit == [on |-> FALSE, channel |-> 0, triggered |-> FALSE]

BroadcastTypeOK ==
  /\ chip.func \in {"OFF", "FM", "AM", "WB"}
  /\ fm.active \in Slots /\ fm.freq \in 0 .. FmMax
  /\ am.band \in Bands /\ am.freq \in AmBands[am.band].min .. AmBands[am.band].max
  /\ am.step \in 1 .. Len(AmBands[am.band].steps) /\ am.filter \in 1 .. Filters
  /\ am.bfo \in -BfoMax .. BfoMax
  /\ noaa.channel \in 0 .. NoaaChannels - 1

BroadcastInit ==
  /\ chip = ChipOff /\ part \in {"waits", "boots"}
  /\ fm_record = NoRecord
  /\ fm \in {FmBoot, [FmBoot EXCEPT !.freq = FmDefault]}
  /\ am = AmInit /\ noaa = NoaaInit
  /\ overlapped = FALSE /\ failed = FALSE
  /\ beeps = 0 /\ calls = 0

-----------------------------------------------------------------------------
(* The driver and the chip. *)

UpFor(f) == [op |-> "UP", func |-> f]
PowerDown == [op |-> "DOWN"]
Tune(f, freq) == [op |-> "TUNE", func |-> f, freq |-> freq]
SetProperty(p, v) == [op |-> "SET", prop |-> p, val |-> v]
TuneStatus == [op |-> "STATUS"]

\* SI4732_POWERUP_PATCH, bit 5 of ARG1 of every POWER_UP.
PatchBoot == TRUE

\* Once powered up the chip is never clear to send, and answers nothing.
Waits == PatchBoot /\ part = "waits"

\* si4732_ssb_patch_load: a patch is to be sent here one day; it sets
\* properties that only a patch brings.
SsbPatchLoad == <<SetProperty("mode", USB), SetProperty("bfo", 0)>>

\* noaa_freq_khz, and the sixteen bits of it that si4732_wb_tune sends.
NoaaKhz(channel) == 162400 + 25 * channel
NoaaWord(channel) == NoaaKhz(channel) % 65536
si4732_wb_tune(channel) == Tune("WB", NoaaWord(channel))

Obey(c, cmd) ==
  CASE cmd.op = "UP" -> IF c.func = "OFF" THEN [ChipOff EXCEPT !.func = cmd.func] ELSE c
    [] cmd.op = "DOWN" -> ChipOff
    [] cmd.op = "TUNE" -> IF c.func = cmd.func THEN [c EXCEPT !.freq = cmd.freq] ELSE c
    [] cmd.op = "SET" -> IF c.func = "OFF" THEN c ELSE [c EXCEPT ![cmd.prop] = cmd.val]
    [] cmd.op = "STATUS" -> c

\* What the chip was told after commands it took.
AfterAll(c, cmds) ==
  LET after[n \in 0 .. Len(cmds)] ==
        IF n = 0 THEN c ELSE Obey(after[n - 1], cmds[n])
  IN after[Len(cmds)]

\* i2c_send_cmd with si4732_wait_cts: the bad-th command of cmds fails (none
\* when bad is 0), and the chip does not take it when it was refused.  The
\* commands to a chip that waits are late, all of them; the handlers but those
\* of noaa.c go on.
Talk(cmds, bad, refused) ==
  LET obeyed == IF bad \in DOMAIN cmds /\ refused THEN RemoveAt(cmds, bad) ELSE cmds
  IN /\ chip' = AfterAll(chip, obeyed) /\ UNCHANGED part
     /\ failed' = (bad \in DOMAIN cmds \/
                   (failed /\ (chip # ChipOff \/ fm.on \/ am.on \/ noaa.on)))

Faults == {<<0, FALSE>>} \cup ((1 .. 3) \X BOOLEAN)

\* The frequency whose signal is shown once the last of cmds was TuneStatus.
Heard(old, freq, cmds, bad) == IF Waits \/ bad = Len(cmds) THEN old ELSE freq

Call == calls < MaxCalls /\ calls' = calls + 1

\* Which other receivers were on when one came on.
Overlap(others) == overlapped' = ((overlapped /\ (fm.on \/ am.on \/ noaa.on)) \/ others)

FmKeeps == UNCHANGED <<am, noaa, overlapped, beeps>>

-----------------------------------------------------------------------------
(* fm_radio.c. *)

FmRecord == [magic |-> TRUE, freq |-> fm'.freq, presets |-> fm'.presets,
             active |-> fm'.active]
fm_radio_persist == fm_record' = FmRecord

\* action_dispatch 2 with the receiver off.
fm_radio_enter ==
  /\ ~fm.on
  /\ LET cmds == <<UpFor("FM"), Tune("FM", fm.freq), TuneStatus>>
     IN \E f \in Faults :
          /\ Talk(cmds, f[1], f[2])
          /\ fm' = [fm EXCEPT !.on = TRUE, !.heard = Heard(@, fm.freq, cmds, f[1])]
  /\ Overlap(am.on \/ noaa.on)
  /\ UNCHANGED <<am, noaa, fm_record, beeps>>

\* KEY_C_MENU while the receiver plays.
fm_radio_exit ==
  /\ fm.on
  /\ \E f \in Faults : Talk(<<PowerDown>>, f[1], f[2])
  /\ fm' = [fm EXCEPT !.on = FALSE]
  /\ fm_radio_persist /\ FmKeeps

FmTune(freq) ==
  LET cmds == <<Tune("FM", freq), TuneStatus>>
  IN \E f \in Faults :
       /\ Talk(cmds, f[1], f[2])
       /\ fm' = [fm EXCEPT !.freq = freq, !.heard = Heard(@, freq, cmds, f[1])]

\* The encoder.
fm_radio_tune_step ==
  /\ fm.on
  /\ \E d \in {1, -1} :
       LET freq == fm.freq + d * FmStep
       IN FmTune(IF freq > FmMax THEN FmMin ELSE IF freq < FmMin THEN FmMax ELSE freq)
  /\ UNCHANGED fm_record /\ FmKeeps

SeekNext(freq, d) ==
  IF d > 0 THEN (IF freq + FmStep > FmMax THEN FmMin ELSE freq + FmStep)
  ELSE (IF freq <= FmMin THEN FmMax ELSE freq - FmStep)

\* The frequencies a seek from freq looks at, in order.
SeekPath(d) ==
  LET steps == (FmMax - FmMin) \div FmStep
      at[n \in 0 .. steps] == IF n = 0 THEN fm.freq ELSE SeekNext(at[n - 1], d)
  IN [n \in 1 .. steps |-> at[n]]

\* KEY_SIDE1 and KEY_SIDE2.  A status that cannot be read is no station.
fm_radio_seek ==
  /\ fm.on
  /\ \E d \in {1, -1}, stations \in StationSets, f \in Faults :
       LET path == SeekPath(d)
           unread == IF f[1] = 0 THEN 0 ELSE f[1]
           found == {n \in DOMAIN path : path[n] \in stations /\ n # unread /\ ~Waits}
           last == IF found = {} THEN Len(path)
                   ELSE CHOOSE n \in found : \A m \in found : n <= m
           path_tunes == [n \in 1 .. last |-> Tune("FM", path[n])]
       IN IF found # {}
          THEN /\ Talk(path_tunes, unread, f[2])
               /\ fm' = [fm EXCEPT !.freq = path[last], !.heard = path[last]]
          ELSE LET cmds == path_tunes \o <<Tune("FM", fm.freq), TuneStatus>>
               IN /\ Talk(cmds, unread, f[2])
                  /\ fm' = [fm EXCEPT !.heard = Heard(@, fm.freq, cmds, unread)]
  /\ UNCHANGED fm_record /\ FmKeeps

\* A digit key: fm_radio_load_preset and fm_radio_set_freq, which clamps.
fm_radio_load_preset ==
  /\ fm.on
  /\ \E s \in Slots :
       LET p == fm.presets[s]
           freq == IF p < FmMin THEN FmMin ELSE IF p > FmMax THEN FmMax ELSE p
           cmds == <<Tune("FM", freq), TuneStatus>>
       IN /\ p # 0
          /\ \E f \in Faults :
               /\ Talk(cmds, f[1], f[2])
               /\ fm' = [fm EXCEPT !.active = s, !.freq = freq,
                                   !.heard = Heard(@, freq, cmds, f[1])]
  /\ UNCHANGED fm_record /\ FmKeeps

\* KEY_STAR; KEY_HASH.
fm_radio_save_preset ==
  /\ fm.on
  /\ fm' = [fm EXCEPT !.presets[fm.active] = fm.freq]
  /\ fm_radio_persist
  /\ UNCHANGED <<chip, part, failed>> /\ FmKeeps

FmNextSlot ==
  /\ fm.on
  /\ fm' = [fm EXCEPT !.active = (@ + 1) % PresetSlots]
  /\ UNCHANGED <<fm_record, chip, part, failed>> /\ FmKeeps

-----------------------------------------------------------------------------
(* am_radio.c. *)

AmKeeps == UNCHANGED <<fm, noaa, fm_record, beeps>>

\* apply_tune.
ApplyTune(freq) == <<Tune("AM", freq), TuneStatus>>

\* What enter_band sends: coming from or going to SSB, the chip is powered down
\* and up and forgets all properties.  Mutant of FilterSetting: the filter is
\* set in SSB only.
FilterSettingSsb(a, band) ==
  IF band = "SSB" THEN <<SetProperty("filter", a.filter)>> ELSE << >>
FilterSetting(a, band) == <<SetProperty("filter", a.filter)>>

EnterBandCommands(a, band, freq) ==
  LET restart == <<PowerDown, UpFor("AM")>>
  IN (IF band = "SSB"
      THEN (IF a.patched THEN << >> ELSE restart \o SsbPatchLoad)
           \o <<SetProperty("mode", a.side), SetProperty("bfo", a.bfo)>>
      ELSE IF a.patched THEN restart ELSE << >>)
     \o FilterSetting(a, band) \o ApplyTune(freq)

EnterBand(a, band, before) ==
  LET b == AmBands[band]
      freq == IF a.freq \in b.min .. b.max THEN a.freq ELSE b.default
      cmds == before \o EnterBandCommands(a, band, freq)
  IN \E f \in {<<0, FALSE>>} \cup ((DOMAIN cmds) \X BOOLEAN) :
       /\ Talk(cmds, f[1], f[2])
       /\ am' = [a EXCEPT !.band = band, !.step = 1, !.freq = freq,
                          !.patched = (band = "SSB"),
                          !.heard = Heard(@, freq, cmds, f[1])]

\* action_dispatch 7; keys go to the FM receiver while that is on.
am_radio_enter ==
  /\ ~am.on /\ ~fm.on
  /\ EnterBand([am EXCEPT !.on = TRUE, !.patched = FALSE], "MW", <<UpFor("AM")>>)
  /\ Overlap(noaa.on) /\ AmKeeps

am_radio_exit ==
  /\ am.on /\ ~fm.on
  /\ \E f \in Faults : Talk(<<PowerDown>>, f[1], f[2])
  /\ am' = [am EXCEPT !.on = FALSE, !.patched = FALSE, !.edit = FALSE]
  /\ UNCHANGED overlapped /\ AmKeeps

NextBand == [MW |-> "SW", SW |-> "SSB", SSB |-> "MW"]

\* KEY_C_MENU of am_radio_handle_key.
am_radio_cycle_band ==
  /\ am.on
  /\ EnterBand([am EXCEPT !.edit = FALSE], NextBand[am.band], << >>)
  /\ UNCHANGED overlapped /\ AmKeeps

\* KEY_A_VFO, KEY_B_SCAN.
am_radio_cycle_step ==
  /\ am.on
  /\ am' = [am EXCEPT !.step = (@ % Len(AmBands[am.band].steps)) + 1]
  /\ UNCHANGED <<chip, part, failed, overlapped>> /\ AmKeeps

\* KEY_1: am_radio_set_sideband.
am_radio_toggle_sideband ==
  /\ am.on /\ am.band = "SSB"
  /\ am' = [am EXCEPT !.side = IF @ = USB THEN LSB ELSE USB]
  /\ \E f \in Faults : Talk(<<SetProperty("mode", am'.side)>>, f[1], f[2])
  /\ UNCHANGED overlapped /\ AmKeeps

\* KEY_2: am_radio_set_bandwidth.
am_radio_cycle_bandwidth ==
  /\ am.on
  /\ am' = [am EXCEPT !.filter = (@ % Filters) + 1]
  /\ \E f \in Faults : Talk(<<SetProperty("filter", am'.filter)>>, f[1], f[2])
  /\ UNCHANGED overlapped /\ AmKeeps

\* KEY_3.
AmToggleEdit ==
  /\ am.on /\ am.band = "SSB"
  /\ am' = [am EXCEPT !.edit = ~@]
  /\ UNCHANGED <<chip, part, failed, overlapped>> /\ AmKeeps

\* am_radio_handle_encoder: am_radio_set_bfo or am_radio_tune_step.
am_radio_handle_encoder ==
  /\ am.on
  /\ \E d \in {1, -1}, f \in Faults :
       IF am.edit /\ am.band = "SSB"
       THEN /\ am' = [am EXCEPT !.bfo = IF @ + d > BfoMax THEN BfoMax
                                        ELSE IF @ + d < -BfoMax THEN -BfoMax ELSE @ + d]
            /\ Talk(<<SetProperty("bfo", am'.bfo)>>, f[1], f[2])
       ELSE LET b == AmBands[am.band]
                to == am.freq + d * b.steps[am.step]
                freq == IF to < b.min THEN b.max ELSE IF to > b.max THEN b.min ELSE to
                cmds == ApplyTune(freq)
            IN /\ Talk(cmds, f[1], f[2])
               /\ am' = [am EXCEPT !.freq = freq, !.heard = Heard(@, freq, cmds, f[1])]
  /\ UNCHANGED overlapped /\ AmKeeps

-----------------------------------------------------------------------------
(* noaa.c. *)

NoaaKeeps == UNCHANGED <<fm, am, fm_record>>

\* A power-up that fails, the second command, is given up.
WeatherFaults(cmds) ==
  IF Waits THEN {2} \X BOOLEAN ELSE {<<0, FALSE>>} \cup ((DOMAIN cmds) \X BOOLEAN)

noaa_enter ==
  /\ ~noaa.on
  /\ LET cmds == <<PowerDown, UpFor("WB"), si4732_wb_tune(noaa.channel)>>
     IN \E f \in WeatherFaults(cmds) :
          IF f[1] = 2
          THEN Talk(SubSeq(cmds, 1, 2), f[1], f[2]) /\ UNCHANGED noaa
          ELSE Talk(cmds, f[1], f[2]) /\ noaa' = [noaa EXCEPT !.on = TRUE]
  /\ Overlap(fm.on \/ am.on)
  /\ UNCHANGED beeps /\ NoaaKeeps

noaa_exit ==
  /\ noaa.on
  /\ \E f \in Faults : Talk(<<PowerDown>>, f[1], f[2])
  /\ noaa' = [noaa EXCEPT !.on = FALSE]
  /\ UNCHANGED <<overlapped, beeps>> /\ NoaaKeeps

noaa_step ==
  /\ noaa.on
  /\ \E d \in {1, -1}, f \in Faults :
       /\ noaa' = [noaa EXCEPT !.channel = (@ + d) % NoaaChannels]
       /\ Talk(<<si4732_wb_tune(noaa'.channel)>>, f[1], f[2])
  /\ UNCHANGED <<overlapped, beeps>> /\ NoaaKeeps

\* A poll when the interval is over; audio_beep on the first strong signal.
noaa_alert_poll ==
  /\ ~noaa.on
  /\ LET cmds == <<PowerDown, UpFor("WB"), si4732_wb_tune(noaa.channel), TuneStatus,
                   PowerDown>>
     IN \E f \in WeatherFaults(cmds), strong \in BOOLEAN :
          IF f[1] = 2
          THEN Talk(SubSeq(cmds, 1, 2), f[1], f[2]) /\ UNCHANGED <<noaa, beeps>>
          ELSE /\ Talk(cmds, f[1], f[2])
               /\ noaa' = [noaa EXCEPT !.triggered = strong /\ f[1] # 4]
               /\ beeps' = IF ~noaa'.triggered THEN 0
                           ELSE IF noaa.triggered THEN beeps ELSE beeps + 1
  /\ Overlap(fm.on \/ am.on) /\ NoaaKeeps

\* The same with noaa_alarm switched off.
NoaaAlarmOff ==
  /\ noaa.triggered
  /\ noaa' = [noaa EXCEPT !.triggered = FALSE] /\ beeps' = 0
  /\ UNCHANGED <<chip, part, failed, overlapped>> /\ NoaaKeeps

-----------------------------------------------------------------------------
\* The radio is switched off and on.
BroadcastBoot ==
  /\ chip' = ChipOff
  /\ fm' \in {FmBoot, FmInit}
  /\ am' = AmInit /\ noaa' = NoaaInit
  /\ overlapped' = FALSE /\ failed' = FALSE /\ beeps' = 0
  /\ UNCHANGED <<part, fm_record>>

BroadcastNext ==
  /\ Call
  /\ \/ fm_radio_enter \/ fm_radio_exit \/ fm_radio_tune_step \/ fm_radio_seek
     \/ fm_radio_load_preset \/ fm_radio_save_preset \/ FmNextSlot
     \/ am_radio_enter \/ am_radio_exit \/ am_radio_cycle_band \/ am_radio_cycle_step
     \/ am_radio_toggle_sideband \/ am_radio_cycle_bandwidth \/ AmToggleEdit
     \/ am_radio_handle_encoder
     \/ noaa_enter \/ noaa_exit \/ noaa_step \/ noaa_alert_poll \/ NoaaAlarmOff
     \/ BroadcastBoot

-----------------------------------------------------------------------------

(* Until a command is lost, or noaa.c gives up, and while no receiver comes *)
(* on over another, the chip is told what the receiver that is on shows:   *)
(* its band, its frequency and, for AM and SSB, the filter, sideband and   *)
(* BFO, through every power cycle that a change of band takes, whether it  *)
(* is ever clear to send or not; the signal shown is the one of that       *)
(* frequency, if it is; and with all of them off the chip is off.          *)
ChipIsToldWhatIsShown ==
  ~failed =>
    /\ ~fm.on /\ ~am.on /\ ~noaa.on => chip = ChipOff
    /\ ~overlapped =>
         /\ fm.on => /\ chip.func = "FM" /\ chip.freq = fm.freq
                     /\ Waits \/ fm.heard = fm.freq
         /\ am.on =>
              /\ chip.func = "AM" /\ chip.freq = am.freq
              /\ Waits \/ am.heard = am.freq
              /\ chip.filter = am.filter
              /\ am.patched <=> am.band = "SSB"
              /\ am.patched => chip.mode = am.side /\ chip.bfo = am.bfo
         /\ noaa.on => chip.func = "WB" /\ chip.freq = NoaaWord(noaa.channel)

(* One alert is sounded for a signal, however often it is probed.          *)
OneAlert == beeps = (IF noaa.triggered THEN 1 ELSE 0)

ReceiversAgreeWithChip == ChipIsToldWhatIsShown /\ OneAlert

(* The header has it that the driver asks for no boot from a patch, which  *)
(* would leave the part waiting for ever (si4732.h).                       *)
NoPartIsLeftWaiting == chip.func # "OFF" => ~Waits

(* The driver has it that the kHz of the weather channels fit the sixteen  *)
(* bits of the command (si4732_wb_tune).                                   *)
WeatherChannelIsTuned ==
  ~failed /\ ~overlapped /\ noaa.on => chip.freq = NoaaKhz(noaa.channel)
=============================================================================
