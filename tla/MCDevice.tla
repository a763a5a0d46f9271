------------------------------ MODULE MCDevice ------------------------------
(* One small instance of every part of Device.                             *)
EXTENDS Device

(* keypad: two keys of the column no pin drives, two others, and OK        *)
At(c, r) == [col |-> c, row |-> r]
MCMatrix ==
  [k \in {"1", "4", "OK", "2", "5"} |->
     CASE k = "1" -> At(4, 0) [] k = "4" -> At(4, 1) [] k = "OK" -> At(0, 0)
       [] k = "2" -> At(2, 0) [] k = "5" -> At(2, 1)]

(* audio: beeps, and sequences with and without a silence                  *)
MCBeeps == {2, 3}
Tone(ms) == [on |-> TRUE, ms |-> ms]
Silence(ms) == [on |-> FALSE, ms |-> ms]
MCSequences == {<<Tone(2), Silence(1), Tone(3)>>, <<Tone(2), Tone(2)>>}

(* channels: a VFO with a transmit CTCSS tone and one without              *)
VfoState(f, tx, d, p) ==
  [freq |-> f, ctcss_tx |-> tx, ctcss_rx |-> 255, dcs |-> d, power |-> p,
   squelch |-> 3]
MCVfo == {VfoState(14525, 7, 2, 1), VfoState(43330, 255, 4, 2)}

(* tones: records of the flash, valid and not; the tables of the source    *)
VfoRecord(st, sq, p, t, d) ==
  [step |-> st, squelch |-> sq, power |-> p, scrambler |-> FALSE,
   tx |-> t, rx |-> 255, dcs |-> d]
MCRecords ==
  {VfoRecord(12500, 3, 1, 77, 255), VfoRecord(7, 15, 3, 255, 0)}
MCTones ==
  LET table == <<670, 693, 719, 744, 770, 797, 825, 854, 885, 915, 948, 974,
    1000, 1035, 1072, 1109, 1148, 1188, 1230, 1273, 1318, 1365, 1413, 1462,
    1514, 1567, 1598, 1622, 1655, 1679, 1713, 1738, 1773, 1799, 1835, 1862,
    1899, 1928, 1966, 1995, 2035, 2065, 2107, 2181, 2257, 2291, 2336, 2418,
    2503, 2541>>
  IN [i \in 0 .. 49 |-> table[i + 1]]
Octal(n) == 64 * (n \div 100) + 8 * ((n \div 10) % 10) + (n % 10)
MCCodes ==
  LET table == <<23, 25, 26, 31, 32, 36, 43, 47, 51, 53, 54, 65, 71, 72, 73,
    74, 114, 115, 116, 122, 125, 131, 132, 134, 143, 145, 152, 155, 156, 162,
    165, 172, 174, 205, 212, 223, 225, 226, 243, 244, 245, 246, 251, 252, 255,
    261, 263, 265, 266, 271, 274, 306, 311, 315, 325, 331, 332, 343, 346, 351,
    356, 364, 365, 371, 411, 412, 413, 423, 431, 432, 445, 446, 452, 454, 455,
    462, 464, 465, 466, 503, 506, 516, 523, 526, 532, 546, 565, 606, 612, 624,
    627, 631, 632, 654, 662, 664, 703, 712, 723, 731, 732, 734, 743, 754>>
  IN [i \in 0 .. 103 |-> Octal(table[i + 1])]

(* scanner: no channel to scan, one, and one that cannot be loaded         *)
MCLists == {{}, {1}, {0, 2}}

(* menu: fields whose value survives a visit, and fields that lose it      *)
MCWatch == {"CTCSS_TX", "DCS_TX", "STEP", "OFFSET_FREQ", "APRS_SYMBOL"}
MCRaw ==
  [f \in MCWatch |->
     CASE f \in {"CTCSS_TX", "DCS_TX"} -> {255} [] f = "STEP" -> {20000}
       [] f = "OFFSET_FREQ" -> {7650000, 76800000} [] OTHER -> {9}]

(* panels: a letter key and the blank; the bands of freq_entry.c           *)
MCRows == [k \in {"2", "0"} |-> IF k = "2" THEN <<"A", "a">> ELSE <<Blank>>]
MCLower == [c \in {"A", "a"} |-> IF c = "A" THEN "a" ELSE "A"]
MCEntry == {<<130000, 180000>>, <<400000, 520000>>}

(* serial: frames of the programming port with and without data and one    *)
(* longer than the buffer; a short and a long sentence of the GPS receiver;*)
(* an announcement of the Bluetooth peer and one that is none              *)
MCMessages ==
  [p \in Ports |->
     CASE p = "cps" -> {<<6, 0, 1>>, <<6, 1, 6, 1>>, <<6, 0, 3>>}
       [] p = "gps" -> {<<36, 1, 1, 10>>, <<36, 1, 1, 1, 1, 1, 1, 1, 10>>}
       [] p = "bt" -> {<<6, 6>>, <<6, 1>>}]

(* gps: the four quarters of the globe, with minutes and full degrees      *)
GpsAt(lat, lon, alt) == [lat |-> lat, lon |-> lon, alt |-> alt]
MCPlaces == {GpsAt(2730, 541, 12), GpsAt(-2041, 8999, -3), GpsAt(59, -60, 0),
             GpsAt(-7, -7201, 4300)}
MCClocks == {<<0, 0, 0>>, <<23, 59, 9>>, <<10, 5, 59>>}

(* broadcast: one band of the AM receiver per mode                         *)
Span(lo, hi, widths, default) ==
  [min |-> lo, max |-> hi, steps |-> widths, default |-> default]
MCAmBands == [MW |-> Span(2, 4, <<1, 2>>, 3), SW |-> Span(6, 7, <<1>>, 6),
              SSB |-> Span(1, 9, <<1>>, 5)]

(* APRS: positions at the edges of the digits of a Mic-E frame, and        *)
(* configurations with each kind of path, source and message               *)
Angle(d, m, f) == [deg |-> d, min |-> m, frac |-> f]
Place(lat, north, lon, west, alt) ==
  [lat |-> lat, north |-> north, lon |-> lon, west |-> west, alt |-> alt]
MCPositions ==
  {Place(Angle(9, 59, 99), TRUE, Angle(9, 9, 9), FALSE, 0),
   Place(Angle(90, 0, 7), FALSE, Angle(100, 10, 3), TRUE, 8848),
   Place(Angle(45, 30, 50), TRUE, Angle(99, 59, 99), TRUE, 120)}
Beacon(en, gps, timed, iv, via, p1, p2, cm) ==
  [enable |-> en, gps_source |-> gps, timed |-> timed, interval |-> iv,
   path |-> via, path1 |-> p1, ssid1 |-> 3, path2 |-> p2, ssid2 |-> 7,
   call |-> "N0CALL", ssid |-> 25, msg |-> 9, symbol |-> 1,
   symbol_code |-> 75, comment |-> cm,
   manual |-> Place(Angle(12, 34, 56), TRUE, Angle(8, 7, 6), TRUE, 5)]
MCConfigs ==
  {Beacon(TRUE, FALSE, TRUE, 0, "WIDE1_1", "", "", 0),
   Beacon(TRUE, TRUE, TRUE, 1, "CUSTOM", "D1", "D2", 3),
   Beacon(TRUE, FALSE, FALSE, 2, "CUSTOM", "", "", 7),
   Beacon(TRUE, TRUE, TRUE, 7, "WIDE1_WIDE2", "", "", 200),
   Beacon(FALSE, FALSE, TRUE, 0, "NONE", "", "", 0),
   Beacon(TRUE, FALSE, TRUE, 0, "CUSTOM", "", "D2", 5),
   Beacon(TRUE, FALSE, TRUE, 1, "NONE", "", "", 10)}
MCIntervals == <<1, 3>>
=============================================================================
