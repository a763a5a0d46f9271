------------------------------- MODULE Audio -------------------------------
(***************************************************************************)
(* app/audio.c and drivers/dac_audio.c: beeps and tone sequences.  A tone  *)
(* takes the amplifier from the radio and puts both transceivers in        *)
(* standby; audio_poll gives them back when get_tick has reached the end.  *)
(* Which beep is asked for, and when, is the environment's choice.         *)
(***************************************************************************)
EXTENDS Integers, Sequences

CONSTANTS
  AudioTickMod,   \* 2^32, get_tick
  PollGap,        \* bound: ticks between two calls of audio_poll
  Beeps,          \* the durations of the single tones
  Sequences       \* the tone tables: steps with a tone or a silence

\* A tone or a silence, and how long it lasts.
tone_step_t == [on : BOOLEAN, ms : Nat \ {0}]

ASSUME AudioAssumption ==
  /\ AudioTickMod \in Nat \ {0} /\ PollGap \in Nat \ {0}
  /\ \A d \in Beeps : d \in Nat \ {0} /\ d + PollGap < AudioTickMod
  /\ \A s \in Sequences : s # << >> /\ s \in Seq(tone_step_t) /\ s[1].on

VARIABLES
  audio_tick,
  tone_active, tone_end_ms,
  steps,          \* seq_steps from seq_index + 1 on; empty unless seq_active
  path,           \* what drives the amplifier: PC12, PB8 and the AF registers
  receivers,      \* REG_30 of both transceivers and the receive relays
  dac,            \* DMA2 channel 3 feeds the DAC
  beep_on,        \* settings.beep
  unpolled,       \* ticks since the last poll
  age, due, wraps \* history of the step that plays: its ticks, its duration,
                  \* and whether it may end at the wrap of the counter

audioVars == <<audio_tick, tone_active, tone_end_ms, steps, path, receivers,
               dac, beep_on, unpolled, age, due, wraps>>

AudioTypeOK ==
  /\ audio_tick \in 0 .. AudioTickMod - 1 /\ tone_end_ms \in 0 .. AudioTickMod - 1
  /\ path \in {"RADIO", "DAC"} /\ receivers \in {"RX", "STANDBY"}
  /\ {tone_active, dac, beep_on, wraps} \subseteq BOOLEAN
  /\ unpolled \in 0 .. PollGap

\* audio_init, after hw_init.
AudioInit ==
  /\ audio_tick = 0
  /\ tone_active = FALSE /\ tone_end_ms = 0 /\ steps = << >>
  /\ path = "RADIO" /\ receivers = "RX"
  /\ dac = FALSE
  /\ beep_on = TRUE
  /\ unpolled = 0
  /\ age = 0 /\ due = 0 /\ wraps = FALSE

-----------------------------------------------------------------------------

\* audio_path_enable and dac_audio_play_tone, or dac_audio_stop: a silence
\* between two tones leaves the path as it is.
Sound(on) ==
  /\ dac' = on
  /\ path' = IF on THEN "DAC" ELSE path
  /\ receivers' = IF on THEN "STANDBY" ELSE receivers

\* tone_end_ms = get_tick() + duration.
Arm(duration) ==
  /\ tone_end_ms' = (audio_tick + duration) % AudioTickMod
  /\ tone_active' = TRUE
  /\ age' = 0
  /\ due' = duration
  /\ wraps' = (audio_tick + duration + PollGap > AudioTickMod)

\* audio_beep, audio_error_beep, audio_beep_freq when the setting allows, and
\* audio_roger_beep, which does not ask: tone_start ends a sequence.
tone_start ==
  /\ \E d \in Beeps, roger \in BOOLEAN : (roger \/ beep_on) /\ Arm(d)
  /\ Sound(TRUE)
  /\ steps' = << >>
  /\ UNCHANGED <<audio_tick, beep_on, unpolled>>

\* audio_power_on, audio_alert and audio_scan_hit.
seq_start ==
  /\ beep_on
  /\ \E s \in Sequences : Arm(s[1].ms) /\ steps' = Tail(s)
  /\ Sound(TRUE)
  /\ UNCHANGED <<audio_tick, beep_on, unpolled>>

\* The end of a tone: dac_audio_stop and audio_path_disable.
Release ==
  /\ tone_active' = FALSE
  /\ dac' = FALSE
  /\ path' = "RADIO"
  /\ receivers' = "RX"
  /\ UNCHANGED <<tone_end_ms, steps, age, due, wraps>>

\* Mutant of NextStep: the silence at the end of a step is taken for its end.
NextStepFlagOnly ==
  /\ Sound(Head(steps).on)
  /\ steps' = Tail(steps)
  /\ tone_active' = Head(steps).on
  /\ tone_end_ms' = (audio_tick + Head(steps).ms) % AudioTickMod
  /\ UNCHANGED <<age, due, wraps>>

NextStep ==
  /\ Sound(Head(steps).on)
  /\ Arm(Head(steps).ms)
  /\ steps' = Tail(steps)

\* audio_poll.
audio_poll ==
  /\ unpolled' = 0
  /\ IF tone_active /\ audio_tick >= tone_end_ms
     THEN IF steps # << >> THEN NextStep ELSE Release
     ELSE UNCHANGED <<tone_active, tone_end_ms, steps, path, receivers, dac,
                      age, due, wraps>>
  /\ UNCHANGED <<audio_tick, beep_on>>

AudioTick ==
  /\ unpolled < PollGap
  /\ unpolled' = unpolled + 1
  /\ audio_tick' = (audio_tick + 1) % AudioTickMod
  /\ age' = IF tone_active /\ age < due + PollGap + 1 THEN age + 1 ELSE age
  /\ UNCHANGED <<tone_active, tone_end_ms, steps, path, receivers, dac,
                 beep_on, due, wraps>>

SetBeep ==
  /\ beep_on' = ~beep_on
  /\ UNCHANGED <<audio_tick, tone_active, tone_end_ms, steps, path, receivers,
                 dac, unpolled, age, due, wraps>>

AudioNext == tone_start \/ seq_start \/ audio_poll \/ AudioTick \/ SetBeep

-----------------------------------------------------------------------------

(* The speaker and both receivers belong to the radio exactly while no     *)
(* tone plays, in whatever order beeps and sequences interrupt each other; *)
(* and a step lasts as long as it says, up to the next poll, unless it     *)
(* ends at the wrap of the tick, where the comparison with >= fails.       *)
RadioGetsSpeakerBack ==
  /\ tone_active <=> path = "DAC"
  /\ tone_active <=> receivers = "STANDBY"
  /\ dac => tone_active
  /\ tone_active /\ ~wraps => age <= due + PollGap
=============================================================================
