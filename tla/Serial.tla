------------------------------- MODULE Serial -------------------------------
(***************************************************************************)
(* The serial ports: the receive rings of drivers/uart.c and of app/gps.c, *)
(* filled by an interrupt handler and drained by a task, and what is made  *)
(* of their bytes: the frames of the programming protocol (app/cps.c), the *)
(* NMEA sentences (app/gps.c) and the relay of the Bluetooth bridge        *)
(* (app/bluetooth.c).  A behaviour is about one port; bt_poll, which has   *)
(* no caller, is polled as bluetooth.h asks.                               *)
(*                                                                         *)
(* A byte has a value and, as history, the message it is a part of and its *)
(* place there.  A check sum that is right by accident is left out, and so *)
(* is a frame with more data than a packet may have: rx_buf has room for   *)
(* 8 bytes more than cps_poll's payload, where they are written past its   *)
(* end, with no defined outcome.                                           *)
(***************************************************************************)
EXTENDS Integers, Sequences, SequencesExt

CONSTANTS
  RingSize,      \* UART_CPS_BUF_SIZE, UART_BT_BUF_SIZE, GPS_BUF_SIZE
  BufSize,       \* sizeof(rx_buf) of cps.c and of bluetooth.c, NMEA_MAX_LEN
  HeaderByte,    \* CPS_FRAME_HEADER; as a length, more than the buffer holds
  PacketSize,    \* CPS_PACKET_SIZE: the data of a frame
  LenAt,         \* 6: where a frame's length stands, counted from 1
  Trailer,       \* 2: the CRC
  HandshakeCount,\* CPS_HANDSHAKE_COUNT
  IdleLimit,     \* 500 polls
  Messages,      \* what the peer sends on a port: sequences of values
  Noise,         \* the values of a byte of no message
  MaxMessages, MaxNoise, MaxLost   \* bounds on a behaviour

Ports == {"cps", "gps", "bt"}
DollarByte == 36
NewLine == 10
MinSentence == 2   \* 6: a line is looked at only when it is longer

ASSUME SerialAssumption ==
  /\ RingSize \in Nat \ {0, 1}
  /\ LenAt \in Nat \ {0} /\ Trailer \in Nat \ {0}
  /\ BufSize \in Nat /\ BufSize >= LenAt + Trailer
  /\ HeaderByte \in Nat /\ LenAt + HeaderByte + Trailer > BufSize
  /\ IdleLimit \in Nat /\ MaxLost \in Nat
  /\ Noise \subseteq Nat
  /\ Messages \in [Ports -> SUBSET Seq(Nat)]
  /\ \A w \in Messages["cps"] : w # << >> => w[1] = HeaderByte
  /\ \A w \in Messages["cps"] : Len(w) >= LenAt => w[LenAt] <= PacketSize
  /\ \A w \in Messages["gps"] : \A i \in DOMAIN w : w[i] = DollarByte <=> i = 1

VARIABLES
  port,
  line,          \* the bytes of the message the peer is sending
  ring,          \* the ring, oldest byte first
  buf,           \* rx_buf up to rx_pos; nmea_line up to nmea_idx
  phase,         \* cps_state, the state of the bridge, or nmea_receiving
  count,         \* handshake_count, or idle_ticks
  parsing,       \* cps_poll is in its loop over the frames
  muted,         \* REG_51 of the transceiver
  output,        \* the frames answered, the sentences read, the bytes relayed
  owed,          \* history: frames that were whole in rx_buf
  got,           \* history: the bytes the bridge has taken since it was idle
  sent, noise, lost   \* history: messages and bytes of no message sent, bytes lost

serialVars == <<port, line, ring, buf, phase, count, parsing, muted, output,
                owed, got, sent, noise, lost>>

SerialTypeOK ==
  /\ port \in Ports
  /\ Len(ring) < RingSize /\ Len(buf) <= BufSize
  /\ phase \in {"IDLE", "HANDSHAKE", "TRANSFER", "DONE", "CONNECTED",
                "CPS_RELAY", "WAIT", "LINE"}
  /\ count \in 0 .. IF port = "bt" THEN IdleLimit ELSE 255
  /\ {parsing, muted} \subseteq BOOLEAN

\* cps_init, gps_init, bt_init.
SerialInit ==
  /\ port \in Ports
  /\ line = << >> /\ ring = << >> /\ buf = << >>
  /\ phase = IF port = "gps" THEN "WAIT" ELSE "IDLE"
  /\ count = 0
  /\ parsing = FALSE /\ muted = FALSE
  /\ output = << >> /\ owed = {} /\ got = << >>
  /\ sent = 0 /\ noise = 0 /\ lost = 0

-----------------------------------------------------------------------------
(* The wire and the interrupt handlers. *)

Byte(m, i, v) == [m |-> m, i |-> i, v |-> v]
MessageBytes(m, w) == [i \in DOMAIN w |-> Byte(m, i, w[i])]

\* All bytes of message m, in order, at place p of s.
WholeAt(s, p) ==
  /\ s[p].m # 0 /\ s[p].i = 1
  /\ LET last == p + LenAt + s[p + LenAt - 1].v + Trailer - 1
     IN last <= Len(s) /\ \A q \in p .. last : s[q].m = s[p].m /\ s[q].i = q - p + 1
WholeFrames(s) ==
  {s[p].m : p \in {q \in 1 .. Len(s) - (LenAt + Trailer - 1) : WholeAt(s, q)}}

SendMessage ==
  /\ line = << >> /\ sent < MaxMessages
  /\ sent' = sent + 1
  /\ \E w \in Messages[port] : line' = MessageBytes(sent', w)
  /\ UNCHANGED <<port, ring, buf, phase, count, parsing, muted, output, owed,
                 got, noise, lost>>

Room == Len(ring) < RingSize - 1

\* USART1_IRQHandler, UART4_IRQHandler, USART3_IRQHandler: a byte that finds
\* the ring full is dropped, and so is one the port overran.
Accept1(b, dropped) ==
  /\ ring' = IF Room /\ ~dropped THEN Append(ring, b) ELSE ring
  /\ lost' = IF Room /\ ~dropped THEN lost ELSE lost + 1
  /\ lost' <= MaxLost
  /\ got' = IF port = "bt" /\ Room /\ ~dropped THEN Append(got, b) ELSE got
  /\ UNCHANGED <<port, buf, phase, count, parsing, muted, output, owed, sent>>

ReceiveByte ==
  /\ line # << >>
  /\ line' = Tail(line)
  /\ \E dropped \in BOOLEAN : Accept1(Head(line), dropped)
  /\ UNCHANGED noise

ReceiveNoise ==
  /\ noise < MaxNoise /\ noise' = noise + 1
  /\ \E v \in Noise : Accept1(Byte(0, 0, v), FALSE)
  /\ UNCHANGED line

Wire == UNCHANGED <<port, line, sent, noise, lost>>

-----------------------------------------------------------------------------
(* cps_poll: the start of a poll, and one turn of the loop over frames. *)

Drained ==
  LET room == BufSize - Len(buf)
      n == IF Len(ring) < room THEN Len(ring) ELSE room
  IN [buf |-> buf \o SubSeq(ring, 1, n), ring |-> SubSeq(ring, n + 1, Len(ring))]

CpsIdle ==
  /\ phase = "IDLE"
  /\ LET n == (count + Len(Drained.buf)) % 256
     IN IF Drained.buf # << >> /\ n >= HandshakeCount
        THEN phase' = "HANDSHAKE" /\ muted' = TRUE /\ count' = 0
        ELSE count' = n /\ UNCHANGED <<phase, muted>>
  /\ buf' = << >>
  /\ UNCHANGED <<parsing, owed>>

CpsSession ==
  /\ phase \in {"HANDSHAKE", "TRANSFER"}
  /\ phase' = "TRANSFER"
  /\ buf' = Drained.buf
  /\ owed' = owed \cup WholeFrames(buf')
  /\ parsing' = TRUE
  /\ UNCHANGED <<muted, count>>

CpsDone ==
  /\ phase = "DONE"
  /\ phase' = "IDLE" /\ muted' = FALSE
  /\ buf' = << >> /\ owed' = {}
  /\ UNCHANGED <<parsing, count>>

cps_poll ==
  /\ port = "cps" /\ ~parsing
  /\ CpsIdle \/ CpsSession \/ CpsDone
  /\ ring' = Drained.ring
  /\ UNCHANGED <<output, got>> /\ Wire

\* The buffer from its first header byte on.
FromHeader ==
  LET at == {p \in DOMAIN buf : buf[p].v = HeaderByte}
  IN IF at = {} THEN << >>
     ELSE SubSeq(buf, CHOOSE p \in at : \A q \in at : p <= q, Len(buf))

\* What cps_try_parse_frame leaves in the buffer when the frame of length n at
\* the start of b is bad.  Mutant of AfterBadFrame: all of it is skipped.
AfterBadFrameSkip(b, n) == SubSeq(b, n + 1, Len(b))
AfterBadFrame(b, n) == Tail(b)

FrameLength(b) == LenAt + b[LenAt].v + Trailer

\* cps_handle_command: a frame too short for its command is not answered; the
\* end of a session is its last value.
EndCommand == 3
ShortCommand == 4
CommandOf(b) == b[FrameLength(b)].v

Handle(b) ==
  /\ output' = IF CommandOf(b) \in {EndCommand, ShortCommand} THEN output
               ELSE Append(output, b[1].m)
  /\ phase' = IF CommandOf(b) = EndCommand THEN "DONE" ELSE phase
  /\ owed' = owed \ {b[1].m}

StopParsing == parsing' = FALSE /\ UNCHANGED <<output, phase, owed>>

MinFrame == LenAt + Trailer
Complete(b) == IF Len(b) < MinFrame THEN FALSE ELSE Len(b) >= FrameLength(b)

cps_try_parse_frame ==
  /\ parsing
  /\ LET b == IF Len(buf) < MinFrame THEN buf ELSE FromHeader
     IN IF ~Complete(b) THEN buf' = b /\ StopParsing
        ELSE IF WholeAt(b, 1)
        THEN buf' = SubSeq(b, FrameLength(b) + 1, Len(b)) /\ Handle(b) /\ UNCHANGED parsing
        ELSE buf' = AfterBadFrame(b, FrameLength(b)) /\ StopParsing
  /\ UNCHANGED <<ring, count, muted, got>> /\ Wire

-----------------------------------------------------------------------------
(* gps_process, a byte at a time: the interrupt may come between two. *)

GpsByte ==
  /\ port = "gps" /\ ring # << >>
  /\ ring' = Tail(ring)
  /\ LET b == Head(ring)
     IN CASE b.v = DollarByte ->
               buf' = <<b>> /\ phase' = "LINE" /\ UNCHANGED output
          [] b.v # DollarByte /\ phase = "LINE" /\ b.v = NewLine ->
               /\ phase' = "WAIT" /\ UNCHANGED buf
               /\ output' = IF Len(buf) > MinSentence THEN Append(output, buf)
                            ELSE output
          [] b.v \notin {DollarByte, NewLine} /\ phase = "LINE" ->
               /\ IF Len(buf) < BufSize - 1
                  THEN buf' = Append(buf, b) /\ UNCHANGED phase
                  ELSE phase' = "WAIT" /\ UNCHANGED buf
               /\ UNCHANGED output
          [] b.v # DollarByte /\ phase = "WAIT" -> UNCHANGED <<buf, phase, output>>
  /\ UNCHANGED <<count, parsing, muted, owed, got>> /\ Wire

-----------------------------------------------------------------------------
(* bt_poll. *)

Headers(s) == Len(SelectSeq(s, LAMBDA b : b.v = HeaderByte))

\* IDLE, CONNECTED: the headers of all that came since the buffer was last
\* empty are counted; a full buffer is thrown away.
BtConnect ==
  /\ phase \in {"IDLE", "CONNECTED"}
  /\ LET b == Drained.buf
     IN IF b = << >> THEN UNCHANGED <<phase, buf, output, got>>
        ELSE IF Headers(b) >= HandshakeCount
        THEN phase' = "CPS_RELAY" /\ output' = b /\ buf' = << >> /\ UNCHANGED got
        ELSE /\ phase' = "CONNECTED" /\ UNCHANGED output
             /\ buf' = IF Len(b) >= BufSize THEN << >> ELSE b
             /\ got' = IF Len(b) >= BufSize THEN Drained.ring ELSE got
  /\ ring' = Drained.ring
  /\ UNCHANGED count

\* CPS_RELAY: everything is passed on to UART4; idle polls are counted over
\* the whole relay, not in a row.
BtRelay ==
  /\ phase = "CPS_RELAY"
  /\ ring' = << >>
  /\ IF count >= IdleLimit
     THEN /\ count' = 0 /\ phase' = "IDLE" /\ buf' = << >>
          /\ output' = << >> /\ got' = << >>
     ELSE /\ count' = count + 1 /\ output' = output \o ring
          /\ UNCHANGED <<phase, buf, got>>

bt_poll ==
  /\ port = "bt"
  /\ BtConnect \/ BtRelay
  /\ UNCHANGED <<parsing, muted, owed>> /\ Wire

SerialNext ==
  \/ SendMessage \/ ReceiveByte \/ ReceiveNoise
  \/ cps_poll \/ cps_try_parse_frame
  \/ GpsByte
  \/ bt_poll

-----------------------------------------------------------------------------

(* However bytes are lost, spliced or added, a frame that came whole into  *)
(* the buffer of a session is never thrown away with the rubbish before    *)
(* it: it is handled, once, or still there; and the receiver is mute       *)
(* during a session and only then.                                         *)
WholeFramesAreHandled == port = "cps" =>
  /\ muted <=> phase # "IDLE"
  /\ phase = "TRANSFER" => owed \subseteq WholeFrames(buf)
  /\ \A p, q \in DOMAIN output : p < q => output[p] < output[q]

(* Unless a byte was lost on the way, a sentence the GPS parser reads is   *)
(* one the receiver sent, from its dollar to its end.                      *)
SentencesAreWhole == port = "gps" /\ lost = 0 /\ noise = 0 =>
  \A s \in {output[p] : p \in DOMAIN output} :
    \A q \in DOMAIN s : s[q].m = s[1].m /\ s[q].i = q

(* What the bridge passes on is all it received, in order, from the first  *)
(* byte of the handshake.                                                  *)
RelayLosesNothing == port = "bt" =>
  got = IF phase = "CPS_RELAY" THEN output \o ring ELSE buf \o ring

BytesKeepTheirOrder ==
  WholeFramesAreHandled /\ SentencesAreWhole /\ RelayLosesNothing
=============================================================================
