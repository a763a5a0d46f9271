--------------------------------- MODULE Gps ---------------------------------
(***************************************************************************)
(* What app/gps.c makes of the sentences its line assembler hands to       *)
(* process_nmea (see Serial for the bytes): time, position, altitude and   *)
(* quality of the fix.  Angles are in minutes of arc; the receiver writes  *)
(* them as ddmm, a field it has no value for is empty.                     *)
(***************************************************************************)
EXTENDS Integers

CONSTANTS
  GpsPlaces,    \* where the receiver may be: [lat, lon, alt], north and east positive
  GpsClocks,    \* times: <<hour, minute, second>>
  Qualities     \* fix qualities a receiver reports with a fix

ASSUME GpsAssumption ==
  /\ GpsPlaces \subseteq [lat : Int, lon : Int, alt : Int]
  /\ GpsClocks \subseteq (0 .. 23) \X (0 .. 59) \X (0 .. 59)
  /\ Qualities \subseteq 1 .. 9

VARIABLES
  latitude, longitude, altitude, fix_quality,
  utc,          \* hour, minute, second
  reported      \* history: what the receiver said last, and had to say ever

gpsVars == <<latitude, longitude, altitude, fix_quality, utc, reported>>

\* A field, or what has been said: <<>> when empty, else <<value>>.
Maybe(S) == {<<>>} \cup {<<v>> : v \in S}

GpsTypeOK ==
  /\ latitude \in Int /\ longitude \in Int /\ altitude \in Int
  /\ fix_quality \in 0 .. 9
  /\ utc \in Nat \X Nat \X Nat
  /\ reported.fixed \in BOOLEAN
  /\ reported.place \in Maybe(GpsPlaces)
  /\ reported.alt \in Maybe({p.alt : p \in GpsPlaces})
  /\ reported.time \in Maybe(GpsClocks)

\* gps_init.
GpsInit ==
  /\ latitude = 0 /\ longitude = 0 /\ altitude = 0 /\ fix_quality = 0
  /\ utc = <<0, 0, 0>>
  /\ reported = [fixed |-> FALSE, place |-> <<>>, alt |-> <<>>, time |-> <<>>]

-----------------------------------------------------------------------------
(* The fields, as the receiver writes them (external). *)

Magnitude(a) == IF a < 0 THEN -a ELSE a
Ddmm(a) == 100 * (Magnitude(a) \div 60) + (Magnitude(a) % 60)
Hhmmss(t) == 10000 * t[1] + 100 * t[2] + t[3]

AtPlace(p) ==
  [lat |-> <<Ddmm(p.lat)>>, ns |-> IF p.lat < 0 THEN "S" ELSE "N",
   lon |-> <<Ddmm(p.lon)>>, ew |-> IF p.lon < 0 THEN "W" ELSE "E"]

\* Without a fix the letters may be there or not, the figures are not.
AtNone == {[lat |-> <<>>, ns |-> l[1], lon |-> <<>>, ew |-> l[2]] :
             l \in {<<"", "">>, <<"S", "W">>}}

AngleFields(place) == IF place = <<>> THEN AtNone ELSE {AtPlace(place[1])}
TimeField(time) == IF time = <<>> THEN <<>> ELSE <<Hhmmss(time[1])>>
AltField(place) == IF place = <<>> THEN <<>> ELSE <<place[1].alt>>

\* What the receiver has said, its altitude in a sentence that carries one.
Says(place, time, alt) ==
  LET last(old, new) == IF new = <<>> THEN old ELSE new
  IN reported' = [fixed |-> place # <<>>, place |-> last(reported.place, place),
                  alt |-> last(reported.alt, alt), time |-> last(reported.time, time)]

-----------------------------------------------------------------------------
(* The parser. *)

\* parse_int takes hhmmss two figures at a time.
TimeOf(f) == <<f \div 10000, (f \div 100) % 100, f % 100>>
nmea_to_degrees(f) == 60 * (f \div 100) + (f % 100)

ReadTime(f) == utc' = IF f = <<>> THEN utc ELSE TimeOf(f[1])

\* Mutant of Signed: a letter turns what is there, figures or not.
SignedAnyway(old, f, letter, minus) ==
  LET v == IF f = <<>> THEN old ELSE nmea_to_degrees(f[1])
  IN IF letter = minus THEN -v ELSE v

Signed(old, f, letter, minus) ==
  IF f = <<>> THEN old
  ELSE IF letter = minus THEN -nmea_to_degrees(f[1]) ELSE nmea_to_degrees(f[1])

ReadAngles(at) ==
  /\ latitude' = Signed(latitude, at.lat, at.ns, "S")
  /\ longitude' = Signed(longitude, at.lon, at.ew, "W")

parse_gga(time, at, quality, alt) ==
  /\ ReadTime(time)
  /\ ReadAngles(at)
  /\ fix_quality' = IF quality = <<>> THEN 0 ELSE quality[1]
  /\ altitude' = IF alt = <<>> THEN altitude ELSE alt[1]

parse_rmc(time, status, at) ==
  /\ ReadTime(time)
  /\ IF status = "A"
     THEN ReadAngles(at) /\ fix_quality' = IF fix_quality = 0 THEN 1 ELSE fix_quality
     ELSE UNCHANGED <<latitude, longitude>> /\ fix_quality' = 0
  /\ UNCHANGED altitude

\* A sentence of the receiver; those of other kinds are passed over.
process_nmea(place, time) ==
  \E at \in AngleFields(place) :
    \/ /\ \E q \in IF place = <<>> THEN {<<>>, <<0>>} ELSE {<<v>> : v \in Qualities} :
            parse_gga(TimeField(time), at, q, AltField(place))
       /\ Says(place, time, AltField(place))
    \/ /\ parse_rmc(TimeField(time), IF place = <<>> THEN "V" ELSE "A", at)
       /\ Says(place, time, <<>>)

GpsNext ==
  \E place \in Maybe(GpsPlaces), time \in Maybe(GpsClocks) :
    process_nmea(place, time)

-----------------------------------------------------------------------------

(* What the display and the beacon read is what the receiver last said,    *)
(* whichever kind of sentence said it: there is a fix exactly when it has  *)
(* one, the place is the last it gave, on the right side of the equator    *)
(* and of Greenwich, and what a sentence leaves out stays as it was.       *)
GpsShowsTheFix ==
  /\ fix_quality > 0 <=> reported.fixed
  /\ \A p \in GpsPlaces :
       reported.place = <<p>> => latitude = p.lat /\ longitude = p.lon
  /\ reported.alt # <<>> => reported.alt = <<altitude>>
  /\ reported.time # <<>> => reported.time = <<utc>>
=============================================================================
