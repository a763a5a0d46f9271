------------------------------- MODULE Upload -------------------------------
(***************************************************************************)
(* A firmware update from end to end: tools/firmware_upload.py, without    *)
(* --ptt, against the listener and the updater of the radio, over a line   *)
(* that loses and damages bytes in both directions.                        *)
(*                                                                         *)
(* Latency says whether the host may read a reply while the frame it has   *)
(* just sent is still on the line: an adapter with a buffer allows that.   *)
(***************************************************************************)
EXTENDS Updater

CONSTANTS
  MaxBlocks,   \* bound on the blocks of a file
  DATA_BLOCK_RETRIES,
  Noise,       \* bytes the radio may have seen before: bound on the alphabet
  Latency

ASSUME HostAssumption ==
  /\ MaxBlocks \in Nat
  /\ DATA_BLOCK_RETRIES \in Nat \ {0}
  /\ Noise \subseteq STRING
  /\ Latency \in BOOLEAN

VARIABLES
  host,        \* the phase of the upload
  sent,        \* how many bytes of the two words the host has sent
  unbroken,    \* history: none of them got lost
  total,       \* total_packages
  seq,
  attempt,
  waiting      \* send_command has sent its frame

hostVars == <<host, sent, unbroken, total, seq, attempt, waiting>>
vars == <<listener, radio, image, pass, link, hostVars>>

Words == HANDSHAKE \o UPDATE
Phases == {"handshake", "probe"} \cup Cmds \cup {"success", "failure"}

UpdateTypeOK ==
  /\ ListenerTypeOK
  /\ UpdaterTypeOK
  /\ host \in Phases
  /\ sent \in 0 .. Len(Words)
  /\ unbroken \in BOOLEAN
  /\ total \in 1 .. MaxBlocks
  /\ seq \in 0 .. total
  /\ attempt \in 0 .. DATA_BLOCK_RETRIES - 1
  /\ waiting \in BOOLEAN

\* upload refuses a file that is shorter than its header block.
Init ==
  /\ ListenerInit
  /\ UpdaterInit
  /\ host = "handshake"
  /\ sent = 0
  /\ unbroken = TRUE
  /\ total \in 1 .. MaxBlocks
  /\ seq = 0
  /\ attempt = 0
  /\ waiting = FALSE

-----------------------------------------------------------------------------

\* Other traffic, before the host starts.
OtherByte ==
  /\ sent = 0
  /\ \E c \in Noise : update_listener_feed(c)
  /\ UNCHANGED <<image, pass, link, hostVars>>

\* handshake: the two words, one byte at a time; the replies are no gate.
SendByte ==
  /\ host = "handshake"
  /\ sent' = sent + 1
  /\ host' = IF sent' = Len(Words) THEN "probe" ELSE host
  /\ \/ /\ IF radio = "app" THEN update_listener_feed(Words[sent'])
                            ELSE UNCHANGED <<listener, radio>>
        /\ UNCHANGED unbroken
     \/ unbroken' = FALSE /\ UNCHANGED <<listener, radio>>
  /\ UNCHANGED <<image, pass, link, total, seq, attempt, waiting>>

\* _probe_flood: an answer, with the line drained after it, or none in time.
\* A probe that arrives cut short can make the radio wait in vain and reset.
Probe ==
  /\ host = "probe"
  /\ IF radio = "updater"
     THEN host' \in {"version", "failure"} /\ radio' \in {"updater", "reset"}
     ELSE host' = "failure" /\ UNCHANGED radio
  /\ UNCHANGED <<listener, image, pass, link, sent, unbroken, total, seq,
                 attempt, waiting>>

\* send_command, its first half.
SendCommand ==
  /\ host \in Cmds
  /\ ~waiting
  /\ toRadio = NoFrame
  /\ toRadio' = [cmd |-> host, args |-> IF host = "data" THEN seq ELSE 0]
  /\ waiting' = TRUE
  /\ UNCHANGED <<listener, radio, image, pass, replies, host, sent, unbroken,
                 total, seq, attempt>>

\* version_handshake, model_verify, send_package_count: all but an ACK ends
\* the upload.
Prelude(r) ==
  /\ host \in {"version", "model", "count"}
  /\ host' = IF r # "ACK" THEN "failure"
             ELSE CASE host = "version" -> "model"
                    [] host = "model" -> "count"
                    [] host = "count" -> "data"
  /\ replies' = IF replies = <<>> THEN replies ELSE Tail(replies)
  /\ UNCHANGED <<seq, attempt>>

\* send_data: on with the next block, or the same one again after the input
\* has been dropped.
SendData(r) ==
  /\ host = "data"
  /\ IF r = "ACK"
     THEN /\ seq' = seq + 1
          /\ attempt' = 0
          /\ host' = IF seq' = total THEN "end" ELSE host
          /\ replies' = Tail(replies)
     ELSE /\ attempt' = (attempt + 1) % DATA_BLOCK_RETRIES
          /\ host' = IF attempt' = 0 THEN "failure" ELSE host
          /\ replies' = <<>>
          /\ UNCHANGED seq

\* finalize: any answer will do.
Finalize(r) ==
  /\ host = "end"
  /\ host' = IF r = "none" THEN "failure" ELSE "success"
  /\ replies' = IF replies = <<>> THEN replies ELSE Tail(replies)
  /\ UNCHANGED <<seq, attempt>>

\* The second half of send_command: a reply, or none in time.  The host's
\* time-outs are longer than anything the radio does with a frame.
ReadReply ==
  /\ waiting
  /\ Latency \/ toRadio = NoFrame
  /\ replies = <<>> => toRadio = NoFrame
  /\ LET r == IF replies = <<>> THEN "none" ELSE Head(replies)
     IN Prelude(r) \/ SendData(r) \/ Finalize(r)
  /\ waiting' = FALSE
  /\ UNCHANGED <<listener, radio, image, pass, toRadio, sent, unbroken, total>>

\* A frame that reaches the radio after it has left the updater.
Unheard ==
  /\ radio # "updater"
  /\ toRadio # NoFrame
  /\ toRadio' = NoFrame
  /\ UNCHANGED <<listener, radio, image, pass, replies, hostVars>>

Radio == updater_run /\ UNCHANGED hostVars

Next ==
  \/ OtherByte
  \/ SendByte
  \/ Probe
  \/ SendCommand
  \/ ReadReply
  \/ Unheard
  \/ Radio

\* The loop in RAM runs with interrupts off and bounds each of its waits.
Spec == Init /\ [][Next]_vars /\ WF_vars(Radio)

-----------------------------------------------------------------------------

(* Whatever the listener has seen before, the two words sent in one go     *)
(* start the updater: a stray byte never strands it (update_listener.c).   *)
HandshakeLands ==
  sent = Len(Words) /\ unbroken => radio # "app"

\* Where the firmware wants a block of its file; the key goes nowhere.
Place(b) == IF b = 0 THEN 0 ELSE b - 1

(* No block ends up in another's place, nor zeros in a block's, however    *)
(* often blocks are repeated.                                              *)
ImageInPlace ==
  \A s \in Slots : \/ flash[s] \in {Old, Blank}
                   \/ flash[s] # 1 /\ Place(flash[s]) = s

Installed == \A b \in (0 .. total - 1) \ {1} :
               Place(b) \in Slots /\ flash[Place(b)] = b

(* Unless the flash pass itself is cut short, the radio restarts with the  *)
(* firmware it had or with the whole of the new one: END alone decides,    *)
(* and counts no blocks, so every block must have got through before.      *)
OnlyWholeImages ==
  radio = "reset" /\ ~cut =>
    (\A s \in Slots : flash[s] = Old) \/ Installed

(* The radio never stays in the updater, deaf with interrupts off.         *)
UpdaterEnds == radio = "updater" ~> radio = "reset"

(* When the tool says that the upload is complete and that the radio       *)
(* should reboot with new firmware, the new firmware is installed, unless  *)
(* the flash pass itself is cut short.                                     *)
ReportedIsInstalled ==
  host = "success" /\ radio = "reset" /\ ~cut => Installed
=============================================================================
