------------------------------ MODULE Encoder ------------------------------
(***************************************************************************)
(* app/encoder.c: the quadrature decoder of the knob, polled every 5 ms by *)
(* task_encoder.  The contacts bounce: a poll may still read the position  *)
(* before the last movement.                                               *)
(***************************************************************************)
EXTENDS Integers

CONSTANTS
  StepsPerDetent,   \* ENC_STEPS_PER_DETENT
  Turns             \* bound: the shaft stays within -Turns .. Turns

Threshold == 2      \* ENC_DEBOUNCE_THRESHOLD

ASSUME EncoderAssumption == StepsPerDetent \in Nat \ {0} /\ Turns \in Nat

VARIABLES
  prev_state, debounce_state, debounce_count, accum,
  shaft,     \* environment: where the knob is, in quadrature steps
  settled,   \* history: the position behind prev_state
  outran,    \* history: the shaft has left the neighbourhood of settled
  detents    \* history: the sum of what encoder_poll returned

encoderVars ==
  <<prev_state, debounce_state, debounce_count, accum,
    shaft, settled, outran, detents>>

\* The levels of B and A at a position: 00, 01, 11, 10.
Gray(p) == LET q == p % 4 IN CASE q = 0 -> 0 [] q = 1 -> 1 [] q = 2 -> 3 [] q = 3 -> 2

EncoderTypeOK ==
  /\ {prev_state, debounce_state} \subseteq 0 .. 3
  /\ debounce_count \in 0 .. Threshold
  /\ accum \in 1 - StepsPerDetent .. StepsPerDetent - 1

EncoderInit ==
  /\ prev_state = Gray(0) /\ debounce_state = Gray(0)
  /\ debounce_count = 0
  /\ accum = 0
  /\ shaft = 0 /\ settled = 0
  /\ outran = FALSE
  /\ detents = 0

-----------------------------------------------------------------------------

\* quad_table: the direction between neighbours, 0 when a step was missed.
QuadTable(prev, new) ==
  CASE \E p \in 0 .. 3 : prev = Gray(p) /\ new = Gray(p + 1) -> 1
    [] \E p \in 0 .. 3 : prev = Gray(p + 1) /\ new = Gray(p) -> -1
    [] OTHER -> 0

\* Mutant of Accumulate: a detent is counted one step late.
AccumulateLate(dir) ==
  LET a == accum + dir
  IN IF a > StepsPerDetent THEN accum' = 0 /\ detents' = detents + 1
     ELSE IF a < -StepsPerDetent THEN accum' = 0 /\ detents' = detents - 1
     ELSE accum' = a /\ UNCHANGED detents

Accumulate(dir) ==
  LET a == accum + dir
  IN IF a >= StepsPerDetent THEN accum' = 0 /\ detents' = detents + 1
     ELSE IF a <= -StepsPerDetent THEN accum' = 0 /\ detents' = detents - 1
     ELSE accum' = a /\ UNCHANGED detents

\* encoder_poll, reading the levels of position p.
Bounced(p) ==
  /\ Gray(p) # debounce_state
  /\ debounce_state' = Gray(p)
  /\ debounce_count' = 1
  /\ UNCHANGED <<prev_state, accum, settled, detents>>

Stable(p) ==
  /\ Gray(p) = debounce_state
  /\ debounce_count' = IF debounce_count < Threshold THEN debounce_count + 1
                       ELSE Threshold
  /\ IF debounce_count' < Threshold \/ Gray(p) = prev_state
     THEN UNCHANGED <<prev_state, accum, settled, detents>>
     ELSE /\ prev_state' = Gray(p)
          /\ settled' = p
          /\ Accumulate(QuadTable(prev_state, Gray(p)))
  /\ UNCHANGED debounce_state

encoder_poll ==
  /\ \E p \in {shaft, settled} : Bounced(p) \/ Stable(p)
  /\ UNCHANGED <<shaft, outran>>

\* A knob that has outrun the poll is not turned further.
Turn == \E d \in {-1, 1} :
  /\ ~outran
  /\ shaft + d \in -Turns .. Turns
  /\ shaft' = shaft + d
  /\ outran' = (outran \/ shaft' - settled \notin -1 .. 1)
  /\ UNCHANGED <<prev_state, debounce_state, debounce_count, accum, settled, detents>>

EncoderNext == encoder_poll \/ Turn

-----------------------------------------------------------------------------

(* Unless the knob is turned faster than two polls per step, the detents   *)
(* reported and the steps still accumulated add up to where it is, within  *)
(* the step not yet debounced: bounce adds none and loses none.            *)
DetentsFollowShaft ==
  ~outran => /\ StepsPerDetent * detents + accum = settled
             /\ prev_state = Gray(settled)
             /\ shaft - settled \in -1 .. 1
=============================================================================
