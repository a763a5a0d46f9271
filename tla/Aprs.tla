-------------------------------- MODULE Aprs --------------------------------
(***************************************************************************)
(* app/aprs.c: the timed position beacon, the AX.25 frame with its MIC-E   *)
(* position, its way through the FIFO of the transceiver, and a receiver   *)
(* of the same kind that decodes it.                                       *)
(*                                                                         *)
(* A frame is its addresses, the MIC-E bytes and a comment, with a length  *)
(* in bytes.  Its check sum finds every change.  A position heard is what  *)
(* the packet holds: degrees times 100000, south and west below zero.      *)
(* Nothing calls aprs_poll or the receiver yet; they are called as aprs.h  *)
(* asks.  Speed and course are left out: a beacon sends none.              *)
(***************************************************************************)
EXTENDS Integers, Sequences

CONSTANTS
  Intervals,     \* beacon_intervals, in polls
  DefaultIndex,  \* 4, the interval of an index out of the table
  FifoWords,     \* APRS_FIFO_WORDS
  MaxInfo,       \* the room for an information field with its comment
  Configs,       \* what the five blocks of flash may hold
  Positions,     \* positions of the GPS receiver
  MaxSent        \* bound on the frames sent

\* An altitude is sent with an offset, as 16 bits.
AltOffset == 10000
AltMod == 65536

\* aprs_position_t: a place on earth, and an altitude that keeps the offset it is
\* sent with within 16 bits.
PositionType ==
  [lat : [deg : 0 .. 99, min : 0 .. 59, frac : 0 .. 99], north : BOOLEAN,
   lon : [deg : 0 .. 179, min : 0 .. 59, frac : 0 .. 99], west : BOOLEAN,
   alt : 0 .. AltMod - AltOffset - 1]

\* aprs_config_t, without its units and what only the receiver's screen uses.
ConfigType ==
  [enable : BOOLEAN, gps_source : BOOLEAN, timed : BOOLEAN, interval : Nat,
   path : {"NONE", "WIDE1_1", "WIDE1_WIDE2", "CUSTOM"},
   path1 : STRING, ssid1 : Nat, path2 : STRING, ssid2 : Nat,
   call : STRING, ssid : Nat, msg : Nat, symbol : Nat, symbol_code : Nat,
   comment : Nat, manual : PositionType]

ASSUME AprsAssumption ==
  /\ Intervals \in Seq(Nat) /\ DefaultIndex \in 0 .. Len(Intervals) - 1
  /\ FifoWords \in Nat \ {0} /\ MaxInfo \in Nat /\ MaxInfo >= 16
  /\ Configs \subseteq ConfigType /\ Positions \subseteq PositionType
  /\ MaxSent \in Nat

VARIABLES
  state,       \* aprs_state_t between two calls
  config,      \* aprs_config_t
  countdown,   \* beacon_countdown
  fix,         \* the position of the GPS receiver, if it has a fix
  ptt_holder,       \* who holds the transmitter: nobody, the user or aprs.c
  chip_keyed,  \* the BK4829 of the active VFO, which is keyed; aprs.c uses 0
  fsk,         \* what the FSK registers of BK4829 0 are set up for
  air,         \* the last frame put on the air, with how the FIFO was fed
  last_pkt,    \* last_rx_pkt of the receiver
  sent_frames, \* frames sent
  idle_polls,  \* history: polls that counted down since the beacon was reset
  period       \* history: polls from that reset to the one that tried a beacon, 0 if none did

aprsVars == <<state, config, countdown, fix, ptt_holder, chip_keyed, fsk, air, last_pkt,
              sent_frames, idle_polls, period>>

\* A position, frame or packet that may be missing is a sequence of one or none.
Missing == << >>

AprsTypeOK ==
  /\ state \in {"IDLE", "RX_LISTENING"}
  /\ countdown \in Nat /\ \E i \in DOMAIN Intervals : countdown <= Intervals[i]
  /\ ptt_holder \in {"nobody", "user"}
  /\ fsk \in {"off", "rx"}
  /\ sent_frames \in 0 .. MaxSent

-----------------------------------------------------------------------------
(* The configuration. *)

\* aprs_config_load: flags are a bit each, an index out of the table is the
\* default, an erased position is left at zero.
ConfigOf(flash) ==
  [flash EXCEPT
     !.interval = IF @ < Len(Intervals) THEN @ ELSE DefaultIndex,
     !.ssid = @ % 16, !.msg = @ % 8]

aprs_beacon_interval_sec(i) ==
  Intervals[1 + (IF i < Len(Intervals) THEN i ELSE DefaultIndex)]

Interval == aprs_beacon_interval_sec(config.interval)

\* aprs_init on a radio that is switched on.
AprsInit ==
  /\ state = "IDLE"
  /\ config \in {ConfigOf(f) : f \in Configs}
  /\ countdown = IF config.timed THEN aprs_beacon_interval_sec(config.interval) ELSE 0
  /\ fix = Missing
  /\ ptt_holder = "nobody" /\ chip_keyed \in {0, 1}
  /\ fsk = "off"
  /\ air = Missing /\ last_pkt = Missing
  /\ sent_frames = 0 /\ idle_polls = 0 /\ period = 0

\* The menu: aprs_config_save with another symbol.
aprs_config_save ==
  /\ \E s \in {0, 4} : config' = [config EXCEPT !.symbol = s]
  /\ UNCHANGED <<state, countdown, fix, ptt_holder, chip_keyed, fsk, air, last_pkt,
                 sent_frames, idle_polls, period>>

-----------------------------------------------------------------------------
(* MIC-E. *)

mice_digit(d, bit) == d + (IF bit = 1 THEN 80 ELSE 48)
HighIf(c) == IF c THEN 80 ELSE 48
HighBit(c) == IF c >= 80 THEN 1 ELSE 0

mice_encode_dest(p, msg) ==
  LET bits == 7 - msg
  IN << mice_digit((p.lat.deg \div 10) % 10, (bits \div 4) % 2),
        mice_digit(p.lat.deg % 10, (bits \div 2) % 2),
        mice_digit((p.lat.min \div 10) % 10, bits % 2),
        (p.lat.frac % 10) + HighIf(p.north),
        ((p.lat.frac \div 10) % 10) + HighIf(p.lon.frac < 10),
        (p.lat.frac % 10) + HighIf(p.west) >>

\* mice_build_info: longitude, symbol and altitude; the comment is cut to fit.
LonDegrees(d) == d + (IF d <= 9 THEN 118 ELSE IF d <= 99 THEN 28
                      ELSE IF d <= 109 THEN 8 ELSE -72)
LonMinutes(m) == m + (IF m <= 9 THEN 88 ELSE 28)
InfoFixed == 13

mice_build_info(p, cfg) ==
  [lon |-> << LonDegrees(p.lon.deg), LonMinutes(p.lon.min),
              (((p.lon.frac * 100) \div 60) + 28) % 256 >>,
   symbol |-> IF cfg.symbol < 4 THEN cfg.symbol ELSE cfg.symbol_code,
   alt |-> (p.alt + AltOffset) % AltMod,
   comment |-> IF (InfoFixed + cfg.comment) > MaxInfo THEN MaxInfo - InfoFixed
               ELSE cfg.comment]

LatDigit(c) == IF c >= 80 THEN c - 80 ELSE c - 48

\* An angle of a packet: degrees, minutes and hundredths of minutes are added up.
Deg1e5(deg, min, hun) ==
  (deg * 100000) + ((min * 100000) \div 60) + ((hun * 100000) \div 6000)
WithSign(x, plus) == IF plus THEN x ELSE -x

mice_decode_dest(d) ==
  LET abc == (4 * HighBit(d[1])) + (2 * HighBit(d[2])) + HighBit(d[3])
  IN [msg |-> 7 - abc,
      lat |-> WithSign(Deg1e5((10 * LatDigit(d[1])) + LatDigit(d[2]),
                            (10 * LatDigit(d[3])) + LatDigit(d[4]),
                            (10 * LatDigit(d[5])) + LatDigit(d[6])), d[4] >= 80),
      lon100 |-> IF d[5] >= 80 THEN 100 ELSE 0, west |-> d[6] >= 80]

\* The hundredths may be 60 and more of a minute, up to 165 of 100: they carry.
mice_decode_info(info, lon100, west) ==
  LET raw == ((info.lon[1] - 28) % 256) + lon100
      deg == IF raw \in 180 .. 189 THEN raw - 80
             ELSE IF raw \in 190 .. 199 THEN raw - 190 ELSE raw
      min == (info.lon[2] - 28) % 256
      hun == (info.lon[3] - 28) % 256
  IN [lon |-> WithSign(Deg1e5(deg, IF min >= 60 THEN min - 60 ELSE min, hun), ~west),
      alt |-> IF info.alt > AltOffset THEN info.alt - AltOffset ELSE 0]

-----------------------------------------------------------------------------
(* The frame. *)

Address(call, ssid, last) == [call |-> call, ssid |-> ssid, last |-> last]

\* APRS_PATH_CUSTOM.  Mutant: the first digipeater stays marked as the last.
CustomPathTwoLast(cfg) ==
  (IF cfg.path1 = "" THEN << >> ELSE <<Address(cfg.path1, cfg.ssid1, TRUE)>>)
  \o (IF cfg.path2 = "" THEN << >> ELSE <<Address(cfg.path2, cfg.ssid2, TRUE)>>)
CustomPath(cfg) ==
  (IF cfg.path1 = "" THEN << >>
   ELSE <<Address(cfg.path1, cfg.ssid1, cfg.path2 = "")>>)
  \o (IF cfg.path2 = "" THEN << >> ELSE <<Address(cfg.path2, cfg.ssid2, TRUE)>>)

DigiPath(cfg) ==
  CASE cfg.path = "NONE" -> << >>
    [] cfg.path = "WIDE1_1" -> <<Address("WIDE1", 1, TRUE)>>
    [] cfg.path = "WIDE1_WIDE2" -> <<Address("WIDE1", 1, FALSE), Address("WIDE2", 1, TRUE)>>
    [] cfg.path = "CUSTOM" -> CustomPath(cfg)

\* build_ax25_frame and the check sum of aprs_send_position.
build_ax25_frame(p, cfg) ==
  LET path == DigiPath(cfg)
      info == mice_build_info(p, cfg)
  IN [dest |-> mice_encode_dest(p, cfg.msg),
      source |-> Address(cfg.call, cfg.ssid, cfg.path = "NONE"),
      path |-> path, info |-> info,
      bytes |-> 7 * (2 + Len(path)) + 2 + InfoFixed + info.comment + 2]

\* bk_fsk_send: the words loaded into the FIFO in each turn of the loop, and the
\* turn after which the transmission is started.
Loads(bytes) ==
  LET full == 2 * FifoWords
      n == (bytes + (full - 1)) \div full
  IN [i \in 1 .. n |-> IF i < n \/ bytes % full = 0 THEN FifoWords
                       ELSE ((bytes % full) + 1) \div 2]
WordsAfter(loads) ==
  LET after[i \in 0 .. Len(loads)] == IF i = 0 THEN 0 ELSE after[i - 1] + loads[i]
  IN after
Triggers(bytes) ==
  LET loads == Loads(bytes)
      after(i) == LET sent == 2 * WordsAfter(loads)[i]
                  IN IF sent > bytes THEN bytes ELSE sent
  IN {i \in DOMAIN loads : after(i) = 2 * loads[i] /\ after(i) < bytes}
     \cup (IF bytes <= 2 * FifoWords THEN {Len(loads)} ELSE {})

\* What a byte takes on the air, and what the loop waits for each word it has loaded,
\* in tenths of a ms: a full FIFO lasts 93.8 ms, and 84 ms are waited.
ByteTime == 67
WordWait == 120

\* What the FIFO still holds when turn i loads it, as time on the air; below zero if
\* it ran dry.
Backlog(loads, i) == WordsAfter(loads)[i - 1] * ((2 * ByteTime) - WordWait)

-----------------------------------------------------------------------------
(* Sending: aprs_send_position holds the processor until it is done, so    *)
(* the states APRS_TX_KEYING to APRS_TX_COMPLETE are seen by nobody.       *)

MaySend == state = "IDLE" /\ config.enable

aprs_beacon_reset == countdown' = IF config.timed THEN Interval ELSE countdown

\* radio_ptt_on may refuse (ptt is FALSE); then, or when the user transmits, the
\* frame is sent all the same, and radio_ptt_off ends whatever is on the air.
Transmit(p) ==
  /\ \E ptt \in BOOLEAN :
       LET onAir == (ptt \/ ptt_holder = "user") /\ chip_keyed = 0
           frame == build_ax25_frame(p, config)
       IN /\ air' = IF onAir
                    THEN <<[frame |-> frame, pos |-> p, cfg |-> config,
                            loads |-> Loads(frame.bytes), triggers |-> Triggers(frame.bytes)]>>
                    ELSE air
          /\ sent_frames' = sent_frames + 1 /\ sent_frames' <= MaxSent
  /\ ptt_holder' = "nobody"
  /\ fsk' = "off"      \* bk_fsk_tx_init, and bk_fsk_stop after the frame
  /\ UNCHANGED <<state, config, fix, chip_keyed, last_pkt>>

aprs_send_position ==
  /\ \E p \in Positions : MaySend /\ Transmit(p)
  /\ aprs_beacon_reset
  /\ idle_polls' = 0 /\ UNCHANGED period

Due == config.enable /\ config.timed /\ state = "IDLE"
BeaconPosition == IF config.gps_source THEN fix ELSE <<config.manual>>

aprs_poll ==
  /\ Due
  /\ \/ /\ countdown > 0
        /\ countdown' = countdown - 1
        /\ idle_polls' = idle_polls + 1
        /\ UNCHANGED <<state, config, fix, ptt_holder, chip_keyed, fsk, air, last_pkt,
                       sent_frames, period>>
     \/ /\ countdown = 0
        /\ IF BeaconPosition = Missing
           THEN UNCHANGED <<state, config, fix, ptt_holder, chip_keyed, fsk, air, last_pkt,
                            sent_frames>>
           ELSE Transmit(BeaconPosition[1])
        /\ countdown' = Interval
        /\ idle_polls' = 0 /\ period' = idle_polls + 1

-----------------------------------------------------------------------------
(* Receiving. *)

Rest ==
  UNCHANGED <<config, countdown, fix, ptt_holder, chip_keyed, air, sent_frames, idle_polls, period>>

aprs_rx_start ==
  /\ state' = "RX_LISTENING" /\ fsk' = "rx"
  /\ UNCHANGED last_pkt /\ Rest

aprs_stop ==
  /\ state' = "IDLE" /\ fsk' = "off"
  /\ UNCHANGED last_pkt /\ Rest

\* parse_ax25_frame: the addresses up to the one marked last; the control and
\* PID bytes must follow them, so none must be marked before the end.
parse_ax25_frame(f) ==
  LET addrs == <<f.source>> \o f.path
      ends == {i \in DOMAIN addrs : addrs[i].last}
      dest == mice_decode_dest(f.dest)
      info == mice_decode_info(f.info, dest.lon100, dest.west)
  IN IF ends # {Len(addrs)} THEN Missing
     ELSE <<[call |-> f.source.call, ssid |-> f.source.ssid,
           path |-> [i \in DOMAIN f.path |-> <<f.path[i].call, f.path[i].ssid>>],
           msg |-> dest.msg, lat |-> dest.lat, lon |-> info.lon, alt |-> info.alt,
           symbol |-> f.info.symbol, comment |-> f.info.comment]>>

\* aprs_rx_poll_decode: bytes come out of the FIFO in pairs, up to a word of all
\* ones, so a frame of odd length comes with one byte too many and its check sum
\* fails.  spoilt is TRUE when the frame holds a word of all ones, or lost bytes on
\* its way: the sender's FIFO may be refilled before it has room.
aprs_rx_poll_decode ==
  /\ state = "RX_LISTENING" /\ air # Missing
  /\ \E spoilt \in BOOLEAN :
       LET f == air[1].frame
           pkt == IF f.bytes % 2 = 1 \/ spoilt THEN Missing ELSE parse_ax25_frame(f)
       IN last_pkt' = IF pkt = Missing THEN last_pkt ELSE pkt
  /\ UNCHANGED <<state, fsk>> /\ Rest

-----------------------------------------------------------------------------
(* External. *)

GpsMoves ==
  /\ fix' \in {Missing} \cup {<<p>> : p \in Positions}
  /\ UNCHANGED <<state, config, countdown, ptt_holder, chip_keyed, fsk, air, last_pkt,
                 sent_frames, idle_polls, period>>

UserPtt ==
  /\ ptt_holder' = IF ptt_holder = "user" THEN "nobody" ELSE "user"
  /\ UNCHANGED <<state, config, countdown, fix, chip_keyed, fsk, air, last_pkt,
                 sent_frames, idle_polls, period>>

AprsNext ==
  \/ aprs_config_save \/ aprs_send_position \/ aprs_poll
  \/ aprs_rx_start \/ aprs_stop \/ aprs_rx_poll_decode
  \/ GpsMoves \/ UserPtt

-----------------------------------------------------------------------------

(* A frame fed to the FIFO is fed whole, never more at a time than the     *)
(* FIFO holds; its transmission is started once, after the first load; and *)
(* the FIFO never runs dry before the next load, at the rate it is emptied *)
(* on the air.                                                             *)
FifoIsFed ==
  air # Missing =>
    /\ WordsAfter(air[1].loads)[Len(air[1].loads)] = (air[1].frame.bytes + 1) \div 2
    /\ \A i \in DOMAIN air[1].loads :
         /\ air[1].loads[i] \in 1 .. FifoWords
         /\ i # 1 => Backlog(air[1].loads, i) > 0
    /\ air[1].triggers = {1}

(* "Wait for FIFO space" (aprs.c): each load finds room.  It does not: each *)
(* turn waits for 12.6 of the 14 bytes it loaded.                          *)
LoadsFit ==
  air # Missing =>
    \A i \in DOMAIN air[1].loads :
      Backlog(air[1].loads, i) + 2 * air[1].loads[i] * ByteTime <= 2 * FifoWords * ByteTime

(* What a radio decodes is what the other sent: its call, path, message    *)
(* and altitude.  The place is near the one sent.  The encoder sends the   *)
(* last digit of the minutes of latitude as that of their fraction, so the *)
(* latitude is off by up to nine minutes.  It sends the fraction of the    *)
(* minutes of longitude times 100/60 and the decoder adds it up as it is,  *)
(* so the longitude is up to two thirds of a minute too far, in degrees    *)
(* and minutes of its own when they carry; and it takes the hundred of the *)
(* degrees from the fraction, so only when their digits are in step is the *)
(* longitude near at all.  A frame is refused only when it has an odd      *)
(* length or was spoilt, or no address of it is marked as the last.        *)
LatSlack == 15001
LonSlack == 1101
InStep(p) == p.lon.deg \in 10 .. 99 <=> p.lon.frac >= 10
LatOff(p, q) == WithSign(q.lat, p.north) - Deg1e5(p.lat.deg, p.lat.min, p.lat.frac)
LonOff(p, q) == WithSign(q.lon, ~p.west) - Deg1e5(p.lon.deg, p.lon.min, p.lon.frac)
ComesBack(p, q, cfg) ==
  /\ q.call = cfg.call /\ q.ssid = cfg.ssid /\ q.msg = cfg.msg
  /\ q.alt = p.alt
  /\ LatOff(p, q) \in -LatSlack .. LatSlack
  /\ InStep(p) => LonOff(p, q) \in 0 .. LonSlack

Unmarked(cfg) == cfg.path = "CUSTOM" /\ cfg.path1 = "" /\ cfg.path2 = ""

Named(call, ssid) == IF call = "" THEN << >> ELSE << <<call, ssid>> >>

FramesComeBack ==
  /\ air # Missing =>
       LET q == parse_ax25_frame(air[1].frame)
       IN /\ q = Missing <=> Unmarked(air[1].cfg)
          /\ q # Missing =>
               /\ ComesBack(air[1].pos, q[1], air[1].cfg)
               /\ air[1].cfg.path = "CUSTOM" =>
                    q[1].path = Named(air[1].cfg.path1, air[1].cfg.ssid1)
                                \o Named(air[1].cfg.path2, air[1].cfg.ssid2)
  /\ last_pkt # Missing =>
       \E p \in Positions \cup {config.manual} : ComesBack(p, last_pkt[1], config)

(* "longitude hundredths of minutes" (aprs.c): the longitude heard is the  *)
(* one sent.  It is not, since the encoder sends hundredths of another     *)
(* size.                                                                   *)
LongitudeComesBack ==
  air # Missing =>
    LET q == parse_ax25_frame(air[1].frame)
    IN q # Missing /\ InStep(air[1].pos) => LonOff(air[1].pos, q[1]) = 0

(* While the receiver does not listen, a beacon is tried once in as many   *)
(* polls as the interval has seconds and one more, counted anew from each  *)
(* position sent; and the FSK registers are those of the state.            *)
BeaconKeepsTime ==
  /\ config.timed /\ config.enable =>
       idle_polls + countdown = Interval /\ period \in {0, Interval + 1}
  /\ fsk = IF state = "RX_LISTENING" THEN "rx" ELSE "off"

(* "Timed interval index (30s,1m,...)" (aprs.h): a beacon is tried every   *)
(* interval.  The poll that finds the count at zero is one too many.       *)
BeaconEveryInterval == config.timed => period \in {0, Interval}

BeaconsAreHeard == FifoIsFed /\ FramesComeBack /\ BeaconKeepsTime
=============================================================================
