------------------------------ MODULE Updater ------------------------------
(***************************************************************************)
(* app/updater.c: the loop in RAM that takes command frames from UART4,    *)
(* buffers the image and programs it when the host says END.  One step per *)
(* frame; the CRC finds every damaged frame.                               *)
(*                                                                         *)
(* A file has block 0 in clear, the key in block 1 and encrypted blocks    *)
(* from 2 on; a block is known by its number.  Decryption needs the key    *)
(* and changes nothing else the properties tell apart.                     *)
(***************************************************************************)
EXTENDS UpdateListener

CONSTANTS
  ImgMax    \* the blocks img[] holds: IMG_MAX / BLOCK_SIZE

ASSUME ImgAssumption == ImgMax \in Nat

VARIABLES
  have_key,
  img,          \* the block buffered in each slot
  img_blocks,   \* slots filled, up to the last one
  flash,        \* the block each slot of the application's flash holds
  at,           \* the slot ram_flash_write is at
  cut,          \* history: the flash pass was cut short
  toRadio,      \* the frame on the line, or the rest of one
  replies       \* the replies sent and not yet read by the host

image == <<have_key, img, img_blocks>>
pass == <<flash, at, cut>>
link == <<toRadio, replies>>

Slots == 0 .. ImgMax - 1

Zeros == -1    \* a slot of img[] never filled
Old == -2      \* the firmware that is running
Blank == -3    \* an erased slot

Cmds == {"version", "model", "count", "data", "end"}
Frames == [cmd : Cmds, args : Nat]
NoFrame == [cmd |-> "none", args |-> 0]
Rest == [cmd |-> "rest", args |-> 0]    \* what follows a frame given up

UpdaterTypeOK ==
  /\ radio \in {"app", "updater", "flashing", "reset"}
  /\ have_key \in BOOLEAN
  /\ img \in [Slots -> Nat \cup {Zeros}]
  /\ img_blocks \in 0 .. ImgMax
  /\ flash \in [Slots -> Nat \cup {Zeros, Old, Blank}]
  /\ at \in 0 .. ImgMax
  /\ cut \in BOOLEAN
  /\ toRadio \in Frames \cup {NoFrame, Rest}
  /\ replies \in Seq({"ACK", "NAK"})

\* The start of updater_run.
UpdaterInit ==
  /\ have_key = FALSE
  /\ img = [s \in Slots |-> Zeros]
  /\ img_blocks = 0
  /\ flash = [s \in Slots |-> Old]
  /\ at = 0
  /\ cut = FALSE
  /\ toRadio = NoFrame
  /\ replies = <<>>

-----------------------------------------------------------------------------

\* ram_reply; the reply may get lost, or arrive damaged: not as an ACK.
Reply(r) ==
  \/ replies' = Append(replies, r)
  \/ replies' = Append(replies, "NAK")
  \/ UNCHANGED replies

\* Mutant of SlotOf: the key block is counted.
SlotOfCountingKey(args) == args

\* The key block takes no room in the image.
SlotOf(args) == IF args = 0 THEN 0 ELSE args - 1

\* Mutant of Fits: the length of the block is forgotten.
FitsByOffset(s) == s <= ImgMax

Fits(s) == s + 1 <= ImgMax

Command ==
  /\ toRadio.cmd \in {"version", "model", "count"}
  /\ Reply("ACK")
  /\ UNCHANGED <<radio, image, at>>

KeyBlock ==
  /\ toRadio = [cmd |-> "data", args |-> 1]
  /\ have_key' = TRUE
  /\ Reply("ACK")
  /\ UNCHANGED <<radio, img, img_blocks, at>>

\* An encrypted block before the key is refused, and so is one beyond img[].
DataBlock ==
  /\ toRadio.cmd = "data" /\ toRadio.args # 1
  /\ LET s == SlotOf(toRadio.args)
     IN IF Fits(s) /\ (have_key \/ toRadio.args = 0)
        THEN /\ img' = [img EXCEPT ![s] = toRadio.args]
             /\ img_blocks' = IF s + 1 > img_blocks THEN s + 1 ELSE img_blocks
             /\ Reply("ACK")
        ELSE Reply("NAK") /\ UNCHANGED <<img, img_blocks>>
  /\ UNCHANGED <<radio, have_key, at>>

\* CMD_END is acknowledged first and counts no blocks.
End ==
  /\ toRadio.cmd = "end"
  /\ Reply("ACK")
  /\ radio' = IF img_blocks > 0 THEN "flashing" ELSE "reset"
  /\ at' = 0
  /\ UNCHANGED image

\* A frame that arrives whole.
RecvFrame ==
  /\ radio = "updater"
  /\ toRadio \in Frames
  /\ Command \/ KeyBlock \/ DataBlock \/ End
  /\ toRadio' = NoFrame
  /\ UNCHANGED <<listener, flash, cut>>

\* A frame that has lost bytes or carries wrong ones: it is not recognised,
\* or refused (a bad length at once, so that its rest is searched for another
\* header), or waited for until ram_getc gives up and the radio resets.
RecvDamaged ==
  /\ radio = "updater"
  /\ toRadio \in Frames
  /\ \/ toRadio' = NoFrame /\ UNCHANGED <<radio, replies>>
     \/ toRadio' \in {NoFrame, Rest} /\ Reply("NAK") /\ UNCHANGED radio
     \/ toRadio' = NoFrame /\ radio' = "reset" /\ UNCHANGED replies
  /\ UNCHANGED <<listener, image, pass>>

\* The rest of a frame: nothing in it, or another refusal, or a reset.
RecvRest ==
  /\ radio = "updater"
  /\ toRadio = Rest
  /\ toRadio' = NoFrame
  /\ \/ UNCHANGED <<radio, replies>>
     \/ Reply("NAK") /\ UNCHANGED radio
     \/ radio' = "reset" /\ UNCHANGED replies
  /\ UNCHANGED <<listener, image, pass>>

\* Mutant of IdleTimeout: the loop goes on waiting.
IdleForever ==
  /\ radio = "updater"
  /\ toRadio = NoFrame
  /\ UNCHANGED <<listener, radio, image, pass, link>>

\* Nothing comes: the host went away, reset.
IdleTimeout ==
  /\ radio = "updater"
  /\ toRadio = NoFrame
  /\ radio' = "reset"
  /\ UNCHANGED <<listener, image, pass, link>>

\* ram_flash_write of one block: the first of a sector's two erases both.
FlashBlock ==
  /\ radio = "flashing"
  /\ at < img_blocks
  /\ flash' = [s \in Slots |-> IF s = at THEN img[at]
                               ELSE IF s = at + 1 /\ at % 2 = 0 THEN Blank
                               ELSE flash[s]]
  /\ at' = at + 1
  /\ UNCHANGED <<listener, radio, image, cut, link>>

\* An erase or a halfword fails, or the supply does, before or within a block.
FlashFails ==
  /\ radio = "flashing"
  /\ at < img_blocks
  /\ flash' \in {flash, [s \in Slots |->
                           IF s = at \/ (s = at + 1 /\ at % 2 = 0) THEN Blank
                           ELSE flash[s]]}
  /\ cut' = TRUE
  /\ radio' = "reset"
  /\ UNCHANGED <<listener, image, at, link>>

\* Mutant of FlashDone: the last block is silently dropped.
FlashDoneShort ==
  /\ radio = "flashing"
  /\ at + 1 >= img_blocks
  /\ radio' = "reset"
  /\ UNCHANGED <<listener, image, pass, link>>

FlashDone ==
  /\ radio = "flashing"
  /\ at = img_blocks
  /\ radio' = "reset"
  /\ UNCHANGED <<listener, image, pass, link>>

updater_run ==
  \/ RecvFrame
  \/ RecvDamaged
  \/ RecvRest
  \/ IdleTimeout
  \/ FlashBlock
  \/ FlashFails
  \/ FlashDone
=============================================================================
