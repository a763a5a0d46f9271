--------------------------- MODULE UpdateListener ---------------------------
(***************************************************************************)
(* app/update_listener.c: the matcher that the UART4 interrupt feeds with  *)
(* every byte received, and that starts the updater when the host's two    *)
(* words have gone by.                                                     *)
(***************************************************************************)
EXTENDS Integers, Sequences

CONSTANTS
  HANDSHAKE, UPDATE  \* the two words, as sequences of bytes

\* What the matcher relies on: neither word's first byte comes back in the
\* word, and the words do not begin alike.
ASSUME WordsAssumption ==
  /\ HANDSHAKE \in Seq(STRING) /\ Len(HANDSHAKE) > 1
  /\ UPDATE \in Seq(STRING) /\ UPDATE # <<>>
  /\ \A i \in 2 .. Len(HANDSHAKE) : HANDSHAKE[i] # HANDSHAKE[1]
  /\ \A i \in 2 .. Len(UPDATE) : UPDATE[i] # UPDATE[1]
  /\ HANDSHAKE[1] # UPDATE[1]

VARIABLES
  stage,       \* 0: wants HANDSHAKE, 1: wants UPDATE
  hs_matched,
  up_matched,
  radio        \* who runs: "app", "updater", "flashing"; "reset" at the end

listener == <<stage, hs_matched, up_matched>>

ListenerTypeOK ==
  /\ stage \in {0, 1}
  /\ hs_matched \in 0 .. Len(HANDSHAKE) - 1
  /\ up_matched \in 0 .. Len(UPDATE) - 1

\* update_listener_init.
ListenerInit ==
  /\ stage = 0
  /\ hs_matched = 0
  /\ up_matched = 0
  /\ radio = "app"

\* A byte that does not fit may still be the first one of the word.
Restarted(c, word) == IF c = word[1] THEN 1 ELSE 0

WantHandshake(c) ==
  /\ stage = 0
  /\ IF c # HANDSHAKE[hs_matched + 1]
     THEN hs_matched' = Restarted(c, HANDSHAKE) /\ UNCHANGED stage
     ELSE IF hs_matched + 1 < Len(HANDSHAKE)
     THEN hs_matched' = hs_matched + 1 /\ UNCHANGED stage
     ELSE hs_matched' = 0 /\ stage' = 1
  /\ UNCHANGED <<up_matched, radio>>

\* Mutant of WantUpdate: a byte that does not fit is dropped.
WantUpdateDropping(c) ==
  /\ stage = 1
  /\ IF c # UPDATE[up_matched + 1]
     THEN up_matched' = 0 /\ UNCHANGED <<stage, hs_matched, radio>>
     ELSE /\ UNCHANGED <<stage, hs_matched>>
          /\ IF up_matched + 1 < Len(UPDATE)
             THEN up_matched' = up_matched + 1 /\ UNCHANGED radio
             ELSE up_matched' = 0 /\ radio' = "updater"

\* The last byte of UPDATE enters the updater from within the interrupt.
WantUpdate(c) ==
  /\ stage = 1
  /\ IF c # UPDATE[up_matched + 1]
     THEN /\ up_matched' = Restarted(c, UPDATE)
          /\ IF c = HANDSHAKE[1] THEN stage' = 0 /\ hs_matched' = 1
             ELSE UNCHANGED <<stage, hs_matched>>
          /\ UNCHANGED radio
     ELSE /\ UNCHANGED <<stage, hs_matched>>
          /\ IF up_matched + 1 < Len(UPDATE)
             THEN up_matched' = up_matched + 1 /\ UNCHANGED radio
             ELSE up_matched' = 0 /\ radio' = "updater"

update_listener_feed(c) ==
  /\ radio = "app"
  /\ WantHandshake(c) \/ WantUpdate(c)
=============================================================================
