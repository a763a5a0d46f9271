---------------------------- MODULE ChannelStore ----------------------------
(***************************************************************************)
(* app/channel.c and the channel part of drivers/flash_layout.c: memory    *)
(* channels as 32-byte records in the SPI flash.  A record is written by   *)
(* reading its sector, erasing it and programming it back page by page;    *)
(* the power may fail at any of these steps.  The codec of a record and    *)
(* the exchange with a VFO are operators.                                  *)
(* Modulation, bandwidth and scrambler are saved and loaded but never      *)
(* reach the VFO: they are left out.                                       *)
(***************************************************************************)
EXTENDS Integers, FiniteSets

CONSTANTS
  ChannelCount, PerPage, PerSector, \* CHANNEL_COUNT, 8 and 128 in the code
  BcdBytes,                         \* bytes of a packed BCD frequency (4)
  VfoStates,                        \* what a VFO may hold when it is saved
  Names,
  NoChannel                         \* 0xFFFF

Channels == 0 .. ChannelCount - 1
NoTone == 255

ASSUME ChannelAssumption ==
  /\ {ChannelCount, PerPage, PerSector, BcdBytes} \subseteq Nat \ {0}
  /\ NoChannel \in Nat /\ NoChannel >= ChannelCount

VARIABLES
  flash,   \* the raw record of each channel; Erased, or Torn by an outage
  job,     \* the write in progress: its sector, the image in sector_buf and
           \* the next page, 0 until the sector is erased
  expect,  \* history: what was last written to each channel
  exposed  \* history: the channels an outage may have taken

channelVars == <<flash, job, expect, exposed>>

Erased == [first |-> 255]
Torn == [first |-> 0]
NoJob == [sector |-> -1]

Sector(ch) == ch \div PerSector
InSector(s) == {ch \in Channels : Sector(ch) = s}
Page(ch) == 1 + (ch % PerSector) \div PerPage
Pages(s) == {Page(ch) : ch \in InSector(s)}

-----------------------------------------------------------------------------
\* The record.

\* hz_to_bcd and bcd_to_hz: units of 10 Hz, the most significant pair first.
Pow100[n \in Nat] == IF n = 0 THEN 1 ELSE 100 * Pow100[n - 1]

\* A VFO's frequency is in a band; it fits the digits.
ASSUME VfoStatesAssumption ==
  /\ VfoStates \subseteq [freq : Nat, power : 0 .. 3, squelch : 0 .. 15,
                          ctcss_tx : 0 .. NoTone, ctcss_rx : 0 .. NoTone, dcs : 0 .. NoTone]
  /\ \A s \in VfoStates : s.freq \div 10 \in 1 .. Pow100[BcdBytes] - 1

hz_to_bcd(hz) == [i \in 1 .. BcdBytes |->
  LET pair == ((hz \div 10) \div Pow100[BcdBytes - i]) % 100
  IN 16 * (pair \div 10) + (pair % 10)]

BcdPair(b) == 10 * (b \div 16) + (b % 16)
BcdValue(bcd) ==
  LET v[i \in 0 .. BcdBytes] == IF i = 0 THEN 0 ELSE v[i - 1] * 100 + BcdPair(bcd[i])
  IN v[BcdBytes]
bcd_to_hz(bcd) == 10 * BcdValue(bcd)

\* A tone is stored as a type and an index: CTCSS before DCS.
PackTone(ctcss, dcs) ==
  CASE ctcss # NoTone -> <<"CTCSS", ctcss>>
    [] ctcss = NoTone /\ dcs # NoTone -> <<"DCS", dcs>>
    [] OTHER -> <<"OFF", NoTone>>
ToneOf(type, t) == IF t[1] = type THEN t[2] ELSE NoTone

\* channel_save builds the record, channel_load takes it apart.
Pack(ch) ==
  [first |-> hz_to_bcd(ch.rx)[1],
   rx |-> hz_to_bcd(ch.rx), tx |-> hz_to_bcd(ch.tx),
   rxtone |-> PackTone(ch.ctcss_rx, ch.dcs_rx),
   txtone |-> PackTone(ch.ctcss_tx, ch.dcs_tx),
   power |-> ch.power % 4, squelch |-> ch.squelch % 16,
   scan |-> ch.scan_add, name |-> ch.name]

Unpack(raw) ==
  [rx |-> bcd_to_hz(raw.rx), tx |-> bcd_to_hz(raw.tx),
   ctcss_rx |-> ToneOf("CTCSS", raw.rxtone), dcs_rx |-> ToneOf("DCS", raw.rxtone),
   ctcss_tx |-> ToneOf("CTCSS", raw.txtone), dcs_tx |-> ToneOf("DCS", raw.txtone),
   power |-> raw.power, squelch |-> raw.squelch,
   scan_add |-> raw.scan, name |-> raw.name]

\* channel_is_valid; channel_load, which wants a frequency as well.
channel_is_valid(ch) == ch \in Channels /\ flash[ch].first # 255
Empty == [rx |-> 0]
channel_load(ch) ==
  IF ~channel_is_valid(ch) THEN Empty
  ELSE IF bcd_to_hz(flash[ch].rx) = 0 THEN Empty ELSE Unpack(flash[ch])

\* channel_from_vfo: simplex, both directions of a DCS code, no name.
channel_from_vfo(s) ==
  [rx |-> s.freq, tx |-> s.freq,
   ctcss_tx |-> s.ctcss_tx, ctcss_rx |-> s.ctcss_rx,
   dcs_tx |-> s.dcs, dcs_rx |-> s.dcs,
   power |-> s.power, squelch |-> s.squelch, scan_add |-> 1, name |-> ""]

\* channel_to_vfo: the tones are cleared first, one DCS code is taken.
channel_to_vfo(ch) ==
  [freq |-> ch.rx, power |-> ch.power, squelch |-> ch.squelch,
   ctcss_tx |-> ch.ctcss_tx, ctcss_rx |-> ch.ctcss_rx,
   dcs |-> IF ch.dcs_tx # NoTone THEN ch.dcs_tx ELSE ch.dcs_rx]

-----------------------------------------------------------------------------
\* Looking for the next channel.

\* The i-th channel from start; a step down from a number that is no channel
\* leads to another one.
Step(ch, dir) == IF dir > 0 THEN (ch + 1) % ChannelCount
                 ELSE IF ch = 0 THEN ChannelCount - 1 ELSE ch - 1
Walk(start, dir) ==
  LET w[i \in 0 .. ChannelCount] == IF i = 0 THEN start ELSE Step(w[i - 1], dir) IN w

FirstOf(start, dir, good) ==
  LET w == Walk(start, dir)
      hits == {i \in 1 .. ChannelCount : w[i] \in good}
  IN IF dir = 0 \/ hits = {} THEN NoChannel
     ELSE w[CHOOSE i \in hits : \A j \in hits : i <= j]

Used == {ch \in Channels : channel_is_valid(ch)}
channel_find_next(start, dir) == FirstOf(start, dir, Used)

\* The scanner's variant also wants the scan flag.
channel_find_next_scannable(start, dir) ==
  FirstOf(start, dir, {ch \in Used : flash[ch].scan = 1})

channel_count_used == Cardinality(Used)

-----------------------------------------------------------------------------
\* Writing.

ChannelInit ==
  /\ flash = [ch \in Channels |-> Erased]
  /\ job = NoJob
  /\ expect = [ch \in Channels |-> Empty]
  /\ exposed = {}

\* ch_write_raw and flash_write_channel: the sector is read into the buffer
\* with the record in place; the steps that follow are the flash's.
WriteRaw(ch, raw) ==
  /\ job = NoJob
  /\ job' = [sector |-> Sector(ch), next |-> 0,
             image |-> [c \in InSector(Sector(ch)) |-> IF c = ch THEN raw ELSE flash[c]]]
  /\ UNCHANGED flash

channel_save == \E ch \in Channels, s \in VfoStates :
  /\ WriteRaw(ch, Pack(channel_from_vfo(s)))
  /\ expect' = [expect EXCEPT ![ch] = Unpack(Pack(channel_from_vfo(s)))]
  /\ exposed' = exposed \ {ch}

channel_delete == \E ch \in Channels :
  /\ WriteRaw(ch, Erased)
  /\ expect' = [expect EXCEPT ![ch] = Empty]
  /\ exposed' = exposed \ {ch}

\* The menu's channel name: flash_read_channel, the name, flash_write_channel.
\* A damaged record or an erased one is renamed as well; only the use on a
\* channel that holds one is followed here.
Rename == \E ch \in Channels, n \in Names :
  /\ flash[ch] \notin {Erased, Torn}
  /\ WriteRaw(ch, [flash[ch] EXCEPT !.name = n])
  /\ expect' = [expect EXCEPT ![ch] = Unpack([flash[ch] EXCEPT !.name = n])]
  /\ exposed' = exposed \ {ch}

\* spi_flash_erase_4k, then spi_flash_write_page for one page after the other.
Erase ==
  /\ job # NoJob /\ job.next = 0
  /\ flash' = [c \in Channels |-> IF Sector(c) = job.sector THEN Erased ELSE flash[c]]
  /\ job' = [job EXCEPT !.next = 1]
  /\ UNCHANGED <<expect, exposed>>

\* Mutant of WritePage: the page after the one erased last is skipped.
WritePageLast ==
  /\ job # NoJob /\ job.next > 0
  /\ flash' = [c \in Channels |->
       IF Sector(c) = job.sector /\ Page(c) < job.next THEN job.image[c] ELSE flash[c]]
  /\ job' = IF job.next + 1 \in Pages(job.sector) THEN [job EXCEPT !.next = @ + 1] ELSE NoJob
  /\ UNCHANGED <<expect, exposed>>

WritePage ==
  /\ job # NoJob /\ job.next > 0
  /\ flash' = [c \in Channels |->
       IF Sector(c) = job.sector /\ Page(c) = job.next THEN job.image[c] ELSE flash[c]]
  /\ job' = IF job.next + 1 \in Pages(job.sector) THEN [job EXCEPT !.next = @ + 1] ELSE NoJob
  /\ UNCHANGED <<expect, exposed>>

\* The power fails: an erase may have gone any way, the page being programmed
\* may be torn, the ones after it are erased.
Outage ==
  /\ job # NoJob
  /\ LET hit == {c \in InSector(job.sector) : job.next = 0 \/ Page(c) = job.next}
     IN \E torn \in BOOLEAN : flash' =
          [c \in Channels |-> IF torn /\ c \in hit THEN Torn ELSE flash[c]]
  /\ exposed' = exposed \cup {c \in InSector(job.sector) : Page(c) >= job.next}
  /\ job' = NoJob
  /\ UNCHANGED expect

ChannelNext ==
  \/ channel_save \/ channel_delete \/ Rename
  \/ Erase \/ WritePage \/ Outage

-----------------------------------------------------------------------------

ChannelTypeOK ==
  /\ DOMAIN flash = Channels /\ DOMAIN expect = Channels
  /\ job = NoJob \/ (job.sector \in {Sector(c) : c \in Channels}
                    /\ job.next \in 0 .. PerSector)
  /\ exposed \subseteq Channels

\* What a VFO is after it was saved as a channel and recalled.
Recalled(s) == channel_to_vfo(Unpack(Pack(channel_from_vfo(s))))
VfoSurvives == \A s \in VfoStates :
  /\ Recalled(s).freq = 10 * (s.freq \div 10)
  /\ [Recalled(s) EXCEPT !.freq = s.freq] =
       [s EXCEPT !.dcs = IF s.ctcss_tx # NoTone /\ s.ctcss_rx # NoTone THEN NoTone ELSE @]

(* Outside a write every channel reads back as it was last saved, renamed  *)
(* or deleted, but for the channels of a sector whose rewrite the power    *)
(* cut off before their page: neither another sector nor a page already    *)
(* written is lost.  A VFO comes back from a channel with its frequency    *)
(* (to 10 Hz) and its tones, unless CTCSS hides DCS both ways.  And the    *)
(* search from a channel finds the nearest that is in use, and the         *)
(* scanner's the same, as every channel saved from a VFO is to be scanned. *)
ChannelsSurvive ==
  /\ job = NoJob => \A ch \in Channels \ exposed : channel_load(ch) = expect[ch]
  /\ VfoSurvives
  /\ job = NoJob /\ exposed = {} =>
       \A start \in Channels, dir \in {-1, 1} :
         LET found == channel_find_next(start, dir)
             Ahead(c) == (dir * (c - start) - 1) % ChannelCount
         IN /\ found = NoChannel <=> channel_count_used = 0
            /\ found # NoChannel => channel_load(found) # Empty
            /\ \A c \in Used : Ahead(found) <= Ahead(c)
            /\ found = channel_find_next_scannable(start, dir)
=============================================================================
