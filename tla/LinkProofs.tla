------------------------------ MODULE LinkProofs ------------------------------
(***************************************************************************)
(* Proofs about the parts that carry bytes and commands: the serial ports, *)
(* the GPS data, the broadcast receivers and APRS.  Each is shown to keep  *)
(* its invariant; DeviceProofs takes them together.                        *)
(***************************************************************************)
EXTENDS Serial, Gps, Broadcast, Aprs, FiniteSetTheorems, SequenceTheorems,
        WellFoundedInduction, TLAPS

-----------------------------------------------------------------------------
(* Numbers, and functions on them. *)

(* A set of numbers that is not empty has a least one.                     *)
LEMMA LeastNatural ==
  ASSUME NEW S, S \subseteq Nat, S # {}
  PROVE  \E k \in S : \A j \in S : k <= j
<1> DEFINE R == {ss \in Nat \X Nat : ss[1] < ss[2]}
<1>1. OpToRel(<, Nat) = R
  BY Zenon DEF OpToRel
<1>2. \E k \in S : \A j \in S : <<j, k>> \notin R
  <2> HIDE DEF R
  <2>1. IsWellFoundedOn(R, Nat)
    BY <1>1, NatLessThanWellFounded, Zenon
  <2> QED
    BY <2>1, WFMin, Zenon
<1>3. \A j, k \in Nat : <<j, k>> \notin R => k <= j
  OBVIOUS
<1> QED
  BY <1>2, <1>3

LEMMA DivMod ==
  ASSUME NEW a \in Int, NEW b \in Nat \ {0}
  PROVE  /\ a \div b \in Int /\ a % b \in 0 .. b - 1
         /\ a = (b * (a \div b)) + (a % b)
OBVIOUS

LEMMA TimesMonotone ==
  ASSUME NEW b \in Nat, NEW p \in Int, NEW q \in Int, p <= q
  PROVE  b * p <= b * q
OBVIOUS

LEMMA DivUnique ==
  ASSUME NEW a \in Int, NEW b \in Nat \ {0}, NEW q \in Int, NEW r \in 0 .. b - 1,
         a = b * q + r
  PROVE  a \div b = q /\ a % b = r
<1> DEFINE q1 == a \div b
           r1 == a % b
<1>1. q1 \in Int /\ r1 \in 0 .. b - 1 /\ a = (b * q1) + r1
  BY DivMod
<1> HIDE DEF q1, r1
<1>2. b * (q + 1) = b * q + b /\ b * (q1 + 1) = b * q1 + b
  BY <1>1
<1>3. ~(q1 >= q + 1)
  <2> SUFFICES ASSUME q + 1 <= q1 PROVE FALSE
    BY <1>1
  <2>1. b * (q + 1) <= b * q1
    BY <1>1, TimesMonotone
  <2> QED
    BY <1>1, <1>2, <2>1
<1>4. ~(q >= q1 + 1)
  <2> SUFFICES ASSUME q1 + 1 <= q PROVE FALSE
    BY <1>1
  <2>1. b * (q1 + 1) <= b * q
    BY <1>1, TimesMonotone
  <2> QED
    BY <1>1, <1>2, <2>1
<1>5. q1 = q
  BY <1>1, <1>3, <1>4
<1>6. r1 = r
  BY <1>1, <1>5
<1> QED
  BY <1>5, <1>6 DEF q1, r1

LEMMA DivTwice ==
  ASSUME NEW n \in Nat, NEW a \in Nat \ {0}, NEW c \in Nat \ {0}
  PROVE  n \div (c * a) = (n \div a) \div c
<1> DEFINE q == n \div a
           r == n % a
           s == q \div c
           t == q % c
<1>1. q \in Int /\ r \in 0 .. a - 1 /\ n = a * q + r
  BY DivMod
<1>2. s \in Int /\ t \in 0 .. c - 1 /\ q = c * s + t
  BY <1>1, DivMod
<1> HIDE DEF q, r, s, t
<1>3. c * a \in Nat \ {0}
  BY TimesMonotone
<1>4. n = (c * a) * s + (a * t + r)
  BY <1>1, <1>2
<1>5. a * t + r \in 0 .. c * a - 1
  <2>1. 0 <= a * t
    BY <1>2
  <2>2. a * t <= a * (c - 1)
    BY <1>2, TimesMonotone
  <2>3. a * (c - 1) = c * a - a
    OBVIOUS
  <2> QED
    BY <1>1, <1>2, <2>1, <2>2, <2>3
<1>6. n \div (c * a) = s
  BY <1>2, <1>3, <1>4, <1>5, DivUnique
<1> QED
  BY <1>6 DEF s, q

(* A function on the numbers, from its first value and a step.             *)
Unfolds(f, S, first, step) ==
  /\ f \in [Nat -> S] /\ f[0] = first
  /\ \A n \in Nat \ {0} : f[n] = step[<<n, f[n - 1]>>]

LEMMA Recursion ==
  ASSUME NEW S, NEW first \in S, NEW step \in [Nat \X S -> S]
  PROVE  \E f : Unfolds(f, S, first, step)
<1> DEFINE Upto(n, g) == /\ g \in [0 .. n -> S] /\ g[0] = first
                         /\ \A i \in 1 .. n : g[i] = step[<<i, g[i - 1]>>]
<1>1. \A n \in Nat : \E g : Upto(n, g)
  <2> DEFINE bad == {n \in Nat : ~\E g : Upto(n, g)}
  <2> SUFFICES ASSUME bad # {} PROVE FALSE
    OBVIOUS
  <2> HIDE DEF Upto
  <2>1. PICK k \in bad : \A j \in bad : k <= j
    <3>1. bad \subseteq Nat
      OBVIOUS
    <3> HIDE DEF bad
    <3> QED
      BY <3>1, LeastNatural
  <2>2. Upto(0, [i \in 0 .. 0 |-> first])
    BY DEF Upto
  <2>3. k # 0
    BY <2>1, <2>2
  <2>4. PICK g : Upto(k - 1, g)
    <3>1. k - 1 \in Nat /\ k - 1 \notin bad
      BY <2>1, <2>3
    <3> QED
      BY <3>1
  <2> DEFINE h == [i \in 0 .. k |-> IF i = k THEN step[<<k, g[k - 1]>>] ELSE g[i]]
  <2>5. k \in Nat \ {0} /\ g \in [0 .. k - 1 -> S] /\ g[0] = first
        /\ \A i \in 1 .. k - 1 : g[i] = step[<<i, g[i - 1]>>]
    BY <2>1, <2>3, <2>4 DEF Upto
  <2>6. h \in [0 .. k -> S]
    BY <2>5
  <2>7. ASSUME NEW i \in 1 .. k PROVE h[i] = step[<<i, h[i - 1]>>]
    <3>1. CASE i = k
      <4>1. k \in 0 .. k /\ k - 1 \in 0 .. k /\ k - 1 # k
        BY <2>5
      <4>2. h[k] = step[<<k, g[k - 1]>>] /\ h[k - 1] = g[k - 1]
        BY <4>1
      <4> QED
        BY <3>1, <4>2
    <3>2. CASE i # k
      <4>1. i \in 1 .. k - 1 /\ i \in 0 .. k /\ i - 1 \in 0 .. k /\ i - 1 # k
        BY <2>5, <3>2
      <4>2. h[i] = g[i] /\ h[i - 1] = g[i - 1]
        BY <4>1
      <4> QED
        BY <2>5, <4>1, <4>2
    <3> QED
      BY <3>1, <3>2
  <2>8. h[0] = first
    BY <2>5
  <2> HIDE DEF h
  <2>9. Upto(k, h)
    BY <2>6, <2>7, <2>8 DEF Upto
  <2> QED
    BY <2>1, <2>9
<1>2. \A n, m \in Nat : \A g, h : n <= m /\ Upto(n, g) /\ Upto(m, h)
        => \A i \in 0 .. n : g[i] = h[i]
  <2> HIDE DEF Upto
  <2> SUFFICES ASSUME NEW n \in Nat, NEW m \in Nat, NEW g, NEW h, n <= m,
                      Upto(n, g), Upto(m, h)
               PROVE  \A i \in 0 .. n : g[i] = h[i]
    OBVIOUS
  <2> DEFINE off == {i \in 0 .. n : g[i] # h[i]}
  <2>1. ASSUME NEW i \in 1 .. n
        PROVE  g[i] = step[<<i, g[i - 1]>>] /\ h[i] = step[<<i, h[i - 1]>>]
    <3>1. i \in 1 .. m
      OBVIOUS
    <3> QED
      BY <3>1 DEF Upto
  <2>2. g[0] = h[0]
    BY DEF Upto
  <2>3. off = {}
    <3> SUFFICES ASSUME off # {} PROVE FALSE
      OBVIOUS
    <3>1. PICK k \in off : \A j \in off : k <= j
      <4>1. off \subseteq Nat
        OBVIOUS
      <4> HIDE DEF off
      <4> QED
        BY <4>1, LeastNatural
    <3>2. k \in 1 .. n
      BY <2>2, <3>1
    <3>3. g[k - 1] = h[k - 1]
      BY <3>1, <3>2
    <3> QED
      BY <2>1, <3>1, <3>2, <3>3
  <2> QED
    BY <2>3
<1> DEFINE G(n) == CHOOSE g : Upto(n, g)
           f == [n \in Nat |-> G(n)[n]]
<1>3. \A n \in Nat : Upto(n, G(n))
  <2> HIDE DEF Upto
  <2> QED
    BY <1>1
<1>4. \A n \in Nat : G(n) \in [0 .. n -> S] /\ G(n)[0] = first
                     /\ \A i \in 1 .. n : G(n)[i] = step[<<i, G(n)[i - 1]>>]
  <2> HIDE DEF G
  <2> QED
    BY <1>3
<1> HIDE DEF Upto, G
<1>5. f[0] = first
  BY <1>4
<1>6. f \in [Nat -> S]
  <2>1. \A n \in Nat : G(n)[n] \in S
    BY <1>4
  <2> QED
    BY <2>1
<1>7. ASSUME NEW n \in Nat \ {0} PROVE f[n] = step[<<n, f[n - 1]>>]
  <2>1. n - 1 \in Nat /\ n - 1 <= n /\ n \in 1 .. n /\ n - 1 \in 0 .. n - 1
    OBVIOUS
  <2>2. G(n)[n] = step[<<n, G(n)[n - 1]>>]
    BY <1>4, <2>1
  <2>3. Upto(n - 1, G(n - 1)) /\ Upto(n, G(n))
    BY <1>3, <2>1
  <2>4. G(n - 1)[n - 1] = G(n)[n - 1]
    BY <1>2, <2>1, <2>3
  <2>5. f[n] = G(n)[n] /\ f[n - 1] = G(n - 1)[n - 1]
    BY <2>1
  <2> QED
    BY <2>2, <2>4, <2>5
<1> HIDE DEF f
<1> QED
  BY <1>5, <1>6, <1>7 DEF Unfolds

(* Induction over the first numbers, for a set that says what is shown.    *)
LEMMA Climb ==
  ASSUME NEW n \in Nat, NEW S, 0 \in S, \A i \in 1 .. n : i - 1 \in S => i \in S
  PROVE  0 .. n \subseteq S
<1> DEFINE off == {i \in 0 .. n : i \notin S}
<1>1. off = {}
  <2> SUFFICES ASSUME off # {} PROVE FALSE
    OBVIOUS
  <2>1. PICK k \in off : \A j \in off : k <= j
    <3>1. off \subseteq Nat
      OBVIOUS
    <3> HIDE DEF off
    <3> QED
      BY <3>1, LeastNatural
  <2>2. k \in 1 .. n /\ k \notin S
    BY <2>1
  <2>3. k - 1 \in S
    BY <2>1, <2>2
  <2> QED
    BY <2>2, <2>3
<1> QED
  BY <1>1

(* The same for a function on the first numbers.                           *)
UnfoldsTo(B, f, S, first, step) ==
  /\ f \in [0 .. B -> S] /\ f[0] = first
  /\ \A n \in 1 .. B : f[n] = step[<<n, f[n - 1]>>]

LEMMA BoundedRecursion ==
  ASSUME NEW B \in Nat, NEW S, NEW first \in S, NEW step \in [(1 .. B) \X S -> S]
  PROVE  \E f : UnfoldsTo(B, f, S, first, step)
<1> DEFINE all == [p \in Nat \X S |-> IF p[1] \in 1 .. B THEN step[<<p[1], p[2]>>] ELSE first]
<1>1. all \in [Nat \X S -> S]
  OBVIOUS
<1>2. \A n \in 1 .. B, x \in S : all[<<n, x>>] = step[<<n, x>>]
  OBVIOUS
<1> HIDE DEF all
<1>3. PICK g : Unfolds(g, S, first, all)
  BY <1>1, Recursion
<1> DEFINE f == [i \in 0 .. B |-> g[i]]
<1>4. f \in [0 .. B -> S] /\ f[0] = first
  BY <1>3 DEF Unfolds
<1>5. ASSUME NEW n \in 1 .. B PROVE f[n] = step[<<n, f[n - 1]>>]
  <2>1. n \in Nat \ {0} /\ n - 1 \in Nat /\ n \in 0 .. B /\ n - 1 \in 0 .. B
    OBVIOUS
  <2>2. g[n] = step[<<n, g[n - 1]>>] /\ f[n] = g[n] /\ f[n - 1] = g[n - 1]
    BY <1>2, <1>3, <2>1 DEF Unfolds
  <2> QED
    BY <2>2
<1> HIDE DEF f
<1> QED
  BY <1>4, <1>5 DEF UnfoldsTo

-----------------------------------------------------------------------------
(* The serial ports. *)

(* The bytes of a port: one that starts a message is a header, or the      *)
(* dollar no other byte of the message is.                                 *)
GoodByte(p) ==
  {b \in [m : Nat, i : Nat, v : Nat] :
     /\ b.i = 1 => b.m > 0
     /\ p = "cps" /\ b.i = 1 => b.v = HeaderByte
     /\ p = "gps" /\ b.m # 0 => (b.v = DollarByte <=> b.i = 1)}

SerialBytes ==
  /\ port \in Ports
  /\ sent \in Nat /\ noise \in Nat /\ lost \in Nat
  /\ buf \in Seq(GoodByte(port)) /\ Len(buf) <= BufSize
  /\ ring \in Seq(GoodByte(port)) /\ Len(ring) < RingSize
  /\ line \in Seq(GoodByte(port))
  /\ got \in Seq(GoodByte(port))

SerialStates ==
  /\ port = "cps" => phase \in {"IDLE", "HANDSHAKE", "TRANSFER", "DONE"}
  /\ port = "gps" => phase \in {"WAIT", "LINE"}
  /\ port = "bt" => phase \in {"IDLE", "CONNECTED", "CPS_RELAY"}
  /\ count \in 0 .. IF port = "bt" THEN IdleLimit ELSE 255
  /\ parsing \in BOOLEAN /\ muted \in BOOLEAN
  /\ parsing => port = "cps" /\ phase \in {"TRANSFER", "DONE"}

LEMMA SerialConstants ==
  /\ RingSize \in Nat /\ RingSize > 1
  /\ BufSize \in Nat /\ BufSize > 1
  /\ LenAt \in Nat /\ LenAt > 0 /\ Trailer \in Nat /\ Trailer > 0
  /\ HeaderByte \in Nat /\ IdleLimit \in Nat /\ Noise \subseteq Nat
BY SerialAssumption

LEMMA MessageIsGood ==
  ASSUME port \in Ports, NEW w \in Messages[port], NEW n \in Nat \ {0}
  PROVE  /\ MessageBytes(n, w) \in Seq(GoodByte(port))
         /\ Len(MessageBytes(n, w)) = Len(w)
         /\ \A q \in 1 .. Len(w) : MessageBytes(n, w)[q] = Byte(n, q, w[q])
<1>1. w \in Seq(Nat)
  BY SerialAssumption
<1>2. \A q \in 1 .. Len(w) : w[q] \in Nat
  BY <1>1
<1>3. DOMAIN w = 1 .. Len(w) /\ Len(w) \in Nat
  BY <1>1
<1>4. ASSUME NEW q \in 1 .. Len(w) PROVE Byte(n, q, w[q]) \in GoodByte(port)
  <2>1. port = "cps" /\ q = 1 => w[q] = HeaderByte
    <3>1. w # << >>
      BY <1>3
    <3> QED
      BY <3>1, SerialAssumption
  <2>2. port = "gps" => (w[q] = DollarByte <=> q = 1)
    BY <1>3, SerialAssumption
  <2> DEFINE b == Byte(n, q, w[q])
  <2>3. b \in [m : Nat, i : Nat, v : Nat] /\ b.m = n /\ b.i = q /\ b.v = w[q]
    BY <1>2 DEF Byte
  <2> HIDE DEF b
  <2>4. b \in GoodByte(port)
    BY <2>1, <2>2, <2>3 DEF GoodByte
  <2> QED
    BY <2>4 DEF b
<1>5. MessageBytes(n, w) = [q \in 1 .. Len(w) |-> Byte(n, q, w[q])]
  BY <1>3 DEF MessageBytes
<1> QED
  BY <1>3, <1>4, <1>5

LEMMA NoiseIsGood ==
  ASSUME NEW p, NEW v \in Noise
  PROVE  /\ Byte(0, 0, v) \in GoodByte(p)
         /\ Byte(0, 0, v).m = 0 /\ Byte(0, 0, v).i = 0
<1> DEFINE b == Byte(0, 0, v)
<1>1. b \in [m : Nat, i : Nat, v : Nat] /\ b.m = 0 /\ b.i = 0 /\ b.v = v
  BY SerialConstants DEF Byte
<1> HIDE DEF b
<1>2. b \in GoodByte(p)
  BY <1>1 DEF GoodByte
<1> QED
  BY <1>1, <1>2 DEF b

LEMMA SeqSplits ==
  ASSUME NEW B, NEW s \in Seq(B), NEW n \in 0 .. Len(s)
  PROVE  SubSeq(s, 1, n) \o SubSeq(s, n + 1, Len(s)) = s
<1>1. 1 \in 1 .. Len(s) + 1 /\ n \in 1 - 1 .. Len(s) /\ Len(s) \in n .. Len(s)
  OBVIOUS
<1>2. SubSeq(s, 1, n) \o SubSeq(s, n + 1, Len(s)) = SubSeq(s, 1, Len(s))
  BY <1>1, ConcatAdjacentSubSeq, Zenon
<1>3. SubSeq(s, 1, Len(s)) = s
  BY SubSeqFull, Zenon
<1> QED
  BY <1>2, <1>3

LEMMA DrainedSplits ==
  ASSUME NEW B, buf \in Seq(B), ring \in Seq(B), Len(buf) <= BufSize
  PROVE  /\ Drained.buf \in Seq(B) /\ Drained.ring \in Seq(B)
         /\ Len(Drained.buf) <= BufSize /\ Len(Drained.ring) <= Len(ring)
         /\ Len(Drained.buf) >= Len(buf)
         /\ \A q \in 1 .. Len(buf) : Drained.buf[q] = buf[q]
         /\ Drained.buf \o Drained.ring = buf \o ring
<1> DEFINE room == BufSize - Len(buf)
<1> DEFINE n == IF Len(ring) < room THEN Len(ring) ELSE room
<1> DEFINE front == SubSeq(ring, 1, n)
<1> DEFINE back == SubSeq(ring, n + 1, Len(ring))
<1>1. n \in 0 .. Len(ring) /\ n <= BufSize - Len(buf)
  BY SerialConstants
<1>4. Drained.buf = buf \o front /\ Drained.ring = back
  BY DEF Drained
<1> HIDE DEF n
<1>2. front \in Seq(B) /\ back \in Seq(B) /\ Len(front) = n /\ Len(back) = Len(ring) - n
  BY <1>1
<1>3. front \o back = ring
  BY <1>1, SeqSplits
<1> HIDE DEF front, back
<1>5. (buf \o front) \o back = buf \o (front \o back)
  BY <1>2, ConcatAssociative
<1>6. /\ buf \o front \in Seq(B) /\ Len(buf \o front) = Len(buf) + n
      /\ \A q \in 1 .. Len(buf) : (buf \o front)[q] = buf[q]
  BY SMTT(40), <1>1, <1>2
<1>7. Drained.buf \in Seq(B) /\ Drained.ring \in Seq(B)
  BY <1>2, <1>4, <1>6
<1>8. Len(Drained.buf) <= BufSize /\ Len(Drained.buf) >= Len(buf)
  BY <1>1, <1>4, <1>6, SerialConstants
<1>9. Len(Drained.ring) <= Len(ring)
  BY <1>1, <1>2, <1>4
<1>10. \A q \in 1 .. Len(buf) : Drained.buf[q] = buf[q]
  BY <1>4, <1>6
<1>11. Drained.buf \o Drained.ring = buf \o ring
  BY <1>3, <1>4, <1>5
<1> QED
  BY <1>7, <1>8, <1>9, <1>10, <1>11

LEMMA SerialPortKept == ASSUME SerialNext PROVE port' = port
BY DEF SerialNext, SendMessage, ReceiveByte, ReceiveNoise, Accept1, cps_poll,
       cps_try_parse_frame, GpsByte, bt_poll, Wire

(* What a byte that is received does.                                      *)
LEMMA ByteAccepted ==
  ASSUME NEW B, ring \in Seq(B), got \in Seq(B), Len(ring) < RingSize,
         lost \in Nat, NEW b \in B, NEW dropped \in BOOLEAN, Accept1(b, dropped)
  PROVE  /\ ring' \in Seq(B) /\ Len(ring') < RingSize
         /\ got' \in Seq(B) /\ lost' \in Nat
         /\ \/ ring' = ring /\ got' = got /\ lost' = lost + 1
            \/ /\ ring' = Append(ring, b) /\ lost' = lost
               /\ got' = IF port = "bt" THEN Append(got, b) ELSE got
<1>1. CASE Room /\ ~dropped
  BY <1>1, SerialConstants DEF Accept1, Room
<1>2. CASE ~(Room /\ ~dropped)
  BY <1>2 DEF Accept1
<1> QED
  BY <1>1, <1>2

(* What gps_process does with a byte.                                      *)
LEMMA GpsTakesByte ==
  ASSUME SerialStates, GpsByte
  PROVE  /\ ring # << >> /\ ring' = Tail(ring)
         /\ \/ /\ Head(ring).v = DollarByte
               /\ buf' = << Head(ring) >> /\ phase' = "LINE" /\ output' = output
            \/ /\ Head(ring).v # DollarByte
               /\ \/ phase = "LINE" /\ phase' = "WAIT" /\ buf' = buf /\ output' = output
                  \/ phase = "LINE" /\ phase' = "WAIT" /\ buf' = buf /\ output' = Append(output, buf)
                  \/ /\ phase = "LINE" /\ Len(buf) < BufSize - 1
                     /\ buf' = Append(buf, Head(ring)) /\ phase' = phase /\ output' = output
                  \/ phase = "WAIT" /\ phase' = phase /\ buf' = buf /\ output' = output
<1>1. phase = "WAIT" \/ phase = "LINE"
  BY DEF SerialStates, GpsByte
<1>2. NewLine # DollarByte
  BY DEF NewLine, DollarByte
<1> DEFINE b == Head(ring)
<1>3. CASE b.v = DollarByte
  BY <1>3 DEF GpsByte
<1>4. CASE b.v # DollarByte /\ phase = "LINE" /\ b.v = NewLine
  BY <1>4, <1>2 DEF GpsByte
<1>5. CASE b.v # DollarByte /\ phase = "LINE" /\ b.v # NewLine
  BY <1>5, <1>2 DEF GpsByte
<1>6. CASE b.v # DollarByte /\ phase = "WAIT"
  BY <1>6 DEF GpsByte
<1> QED
  BY <1>1, <1>3, <1>4, <1>5, <1>6

(* t is s without its first k bytes.                                       *)
IsEnd(t, s, k) ==
  /\ k \in 0 .. Len(s) /\ Len(t) = Len(s) - k
  /\ \A q \in 1 .. Len(t) : t[q] = s[q + k]

LEMMA EndOf ==
  ASSUME NEW B, NEW s \in Seq(B), NEW k \in 0 .. Len(s)
  PROVE  /\ SubSeq(s, k + 1, Len(s)) \in Seq(B)
         /\ IsEnd(SubSeq(s, k + 1, Len(s)), s, k)
<1>1. SubSeq(s, k + 1, Len(s)) \in Seq(B)
  OBVIOUS
<1>2. Len(SubSeq(s, k + 1, Len(s))) = Len(s) - k
  OBVIOUS
<1>3. \A q \in 1 .. Len(s) - k : SubSeq(s, k + 1, Len(s))[q] = s[q + k]
  OBVIOUS
<1> QED
  BY <1>1, <1>2, <1>3 DEF IsEnd

LEMMA EndOfEnd ==
  ASSUME NEW B, NEW s \in Seq(B), NEW t \in Seq(B), NEW u \in Seq(B),
         NEW k, NEW j, IsEnd(t, s, k), IsEnd(u, t, j)
  PROVE  IsEnd(u, s, k + j)
<1>1. /\ k \in Nat /\ j \in Nat /\ Len(s) \in Nat /\ k + j \in 0 .. Len(s)
      /\ Len(t) = Len(s) - k /\ Len(u) = Len(s) - (k + j)
  BY DEF IsEnd
<1>2. ASSUME NEW q \in 1 .. Len(u) PROVE u[q] = s[q + (k + j)]
  <2>1. u[q] = t[q + j] /\ q + j \in 1 .. Len(t)
    BY <1>1 DEF IsEnd
  <2>2. t[q + j] = s[(q + j) + k]
    BY <2>1 DEF IsEnd
  <2>3. (q + j) + k = q + (k + j)
    BY <1>1
  <2> QED
    BY <2>1, <2>2, <2>3
<1> QED
  BY <1>1, <1>2 DEF IsEnd

(* What cps_try_parse_frame skips to reach a header.                       *)
LEMMA HeaderFound ==
  ASSUME NEW B, buf \in Seq(B)
  PROVE  /\ FromHeader \in Seq(B)
         /\ \E k \in 0 .. Len(buf) :
              IsEnd(FromHeader, buf, k) /\ \A q \in 1 .. k : buf[q].v # HeaderByte
<1> DEFINE at == {p \in DOMAIN buf : buf[p].v = HeaderByte}
<1>1. CASE at = {}
  <2>1. IsEnd(<< >>, buf, Len(buf))
    BY DEF IsEnd
  <2>2. \A q \in 1 .. Len(buf) : buf[q].v # HeaderByte
    BY <1>1
  <2>3. FromHeader = << >>
    BY <1>1 DEF FromHeader
  <2> QED
    BY <2>1, <2>2, <2>3
<1>2. CASE at # {}
  <2> DEFINE p == CHOOSE p \in at : \A q \in at : p <= q
  <2>1. at \subseteq Nat
    OBVIOUS
  <2>2. p \in at /\ \A q \in at : p <= q
    BY <1>2, <2>1, LeastNatural
  <2>3. FromHeader = SubSeq(buf, p, Len(buf))
    BY <1>2 DEF FromHeader
  <2>4. p \in 1 .. Len(buf) /\ \A q \in 1 .. Len(buf) : buf[q].v = HeaderByte => p <= q
    BY <2>2
  <2> HIDE DEF p
  <2>5. p - 1 \in 0 .. Len(buf) /\ p = (p - 1) + 1
    BY <2>4
  <2>6. FromHeader \in Seq(B) /\ IsEnd(FromHeader, buf, p - 1)
    BY <2>3, <2>5, EndOf
  <2>7. \A q \in 1 .. p - 1 : buf[q].v # HeaderByte
    BY <2>4
  <2> QED
    BY <2>5, <2>6, <2>7
<1> QED
  BY <1>1, <1>2

(* The ways of cps_try_parse_frame.                                        *)
LEMMA ParseDoes ==
  ASSUME NEW B, buf \in Seq(B), cps_try_parse_frame
  PROVE  \E b \in Seq(B), k \in 0 .. Len(buf) :
           /\ IsEnd(b, buf, k) /\ \A q \in 1 .. k : buf[q].v # HeaderByte
           /\ \/ buf' = b /\ StopParsing
              \/ /\ Complete(b) /\ WholeAt(b, 1)
                 /\ buf' = SubSeq(b, FrameLength(b) + 1, Len(b))
                 /\ Handle(b) /\ UNCHANGED parsing
              \/ /\ Complete(b) /\ ~WholeAt(b, 1)
                 /\ buf' = Tail(b) /\ StopParsing
<1> DEFINE b == IF Len(buf) < MinFrame THEN buf ELSE FromHeader
<1>1. b \in Seq(B)
  BY HeaderFound
<1>2. \E k \in 0 .. Len(buf) :
        IsEnd(b, buf, k) /\ \A q \in 1 .. k : buf[q].v # HeaderByte
  <2>1. CASE Len(buf) < MinFrame
    <3>1. IsEnd(buf, buf, 0) /\ 0 \in 0 .. Len(buf)
      BY DEF IsEnd
    <3> QED
      BY <2>1, <3>1
  <2>2. CASE ~(Len(buf) < MinFrame)
    BY <2>2, HeaderFound
  <2> QED
    BY <2>1, <2>2
<1>3. \/ buf' = b /\ StopParsing
      \/ /\ Complete(b) /\ WholeAt(b, 1)
         /\ buf' = SubSeq(b, FrameLength(b) + 1, Len(b))
         /\ Handle(b) /\ UNCHANGED parsing
      \/ /\ Complete(b) /\ ~WholeAt(b, 1)
         /\ buf' = Tail(b) /\ StopParsing
  BY DEF cps_try_parse_frame, AfterBadFrame
<1> HIDE DEF b
<1> QED
  BY <1>1, <1>2, <1>3

(* What it leaves in the buffer is an end of it.                           *)
LEMMA CompleteLength ==
  ASSUME NEW p, NEW b \in Seq(GoodByte(p)), Complete(b)
  PROVE  FrameLength(b) \in 1 .. Len(b) /\ b # << >>
<1>1. Len(b) >= MinFrame /\ Len(b) >= FrameLength(b)
  BY SerialConstants DEF Complete, MinFrame
<1>2. LenAt \in 1 .. Len(b)
  BY <1>1, SerialConstants DEF MinFrame
<1>3. b[LenAt] \in GoodByte(p)
  BY <1>2
<1>4. b[LenAt].v \in Nat
  BY <1>3 DEF GoodByte
<1> QED
  BY <1>1, <1>2, <1>4, SerialConstants DEF FrameLength

LEMMA ParseLeaves ==
  ASSUME NEW p, buf \in Seq(GoodByte(p)), cps_try_parse_frame
  PROVE  /\ buf' \in Seq(GoodByte(p))
         /\ \E k \in 0 .. Len(buf) : IsEnd(buf', buf, k)
<1> DEFINE B == GoodByte(p)
<1>1. PICK b \in Seq(B), k \in 0 .. Len(buf) :
        /\ IsEnd(b, buf, k)
        /\ \/ buf' = b
           \/ Complete(b) /\ buf' = SubSeq(b, FrameLength(b) + 1, Len(b))
           \/ Complete(b) /\ buf' = Tail(b)
  BY ParseDoes
<1>2. Complete(b) => FrameLength(b) \in 1 .. Len(b) /\ b # << >>
  BY CompleteLength
<1> HIDE DEF B
<1>3. buf \in Seq(B)
  BY DEF B
<1>4. CASE buf' = b
  BY <1>1, <1>4 DEF B
<1>5. ASSUME NEW j \in 0 .. Len(b), buf' = SubSeq(b, j + 1, Len(b))
      PROVE  buf' \in Seq(B) /\ \E i \in 0 .. Len(buf) : IsEnd(buf', buf, i)
  <2>1. buf' \in Seq(B) /\ IsEnd(buf', b, j)
    BY <1>5, EndOf
  <2>2. IsEnd(buf', buf, k + j)
    BY <1>1, <1>3, <2>1, EndOfEnd
  <2> QED
    BY <2>1, <2>2 DEF IsEnd
<1>6. CASE Complete(b) /\ buf' = SubSeq(b, FrameLength(b) + 1, Len(b))
  <2>1. FrameLength(b) \in 0 .. Len(b)
    BY <1>2, <1>6
  <2> QED
    BY <1>5, <1>6, <2>1 DEF B
<1>7. CASE Complete(b) /\ buf' = Tail(b)
  <2>1. Tail(b) = SubSeq(b, 2, Len(b)) /\ 1 \in 0 .. Len(b)
    BY <1>2, <1>7, TailIsSubSeq
  <2>2. buf' = SubSeq(b, 1 + 1, Len(b))
    BY <1>7, <2>1
  <2> QED
    BY <1>5, <2>1, <2>2 DEF B
<1> QED
  BY <1>1, <1>4, <1>6, <1>7

LEMMA SerialBytesInit == ASSUME SerialInit PROVE SerialBytes /\ SerialStates
<1>1. << >> \in Seq(GoodByte(port)) /\ Len(<< >>) = 0 /\ 0 <= BufSize /\ 0 < RingSize
  BY SerialConstants
<1>2. SerialBytes
  BY <1>1 DEF SerialInit, SerialBytes
<1>3. 0 \in 0 .. IF port = "bt" THEN IdleLimit ELSE 255
  BY SerialConstants
<1>4. SerialStates
  BY <1>3 DEF SerialInit, SerialStates
<1> QED
  BY <1>2, <1>4

LEMMA SerialBytesStep == ASSUME SerialBytes, SerialStates, SerialNext PROVE SerialBytes'
<1> USE DEF SerialBytes
<1>0. port' = port /\ GoodByte(port)' = GoodByte(port)
  BY SerialPortKept
<1> DEFINE B == GoodByte(port)
<1> SUFFICES /\ sent' \in Nat /\ noise' \in Nat /\ lost' \in Nat
             /\ buf' \in Seq(B) /\ Len(buf') <= BufSize
             /\ ring' \in Seq(B) /\ Len(ring') < RingSize
             /\ line' \in Seq(B) /\ got' \in Seq(B)
  BY <1>0
<1>a. \A v \in Noise : Byte(0, 0, v) \in B
  BY NoiseIsGood
<1>b. \A w \in Messages[port], n \in Nat \ {0} : MessageBytes(n, w) \in Seq(B)
  BY MessageIsGood
<1> HIDE DEF B
<1>c. /\ port \in Ports
      /\ sent \in Nat /\ noise \in Nat /\ lost \in Nat
      /\ buf \in Seq(B) /\ Len(buf) <= BufSize
      /\ ring \in Seq(B) /\ Len(ring) < RingSize
      /\ line \in Seq(B) /\ got \in Seq(B)
  BY DEF B
<1> HIDE DEF SerialBytes
<1> USE <1>c
<1>1. CASE SendMessage
  <2>1. line' \in Seq(B) /\ sent' \in Nat
    BY <1>1, <1>b DEF SendMessage
  <2> QED
    BY <1>1, <2>1 DEF SendMessage
<1>2. CASE ReceiveByte
  <2>1. line # << >> /\ line' = Tail(line) /\ noise' = noise
    BY <1>2 DEF ReceiveByte
  <2>2. Head(line) \in B /\ Tail(line) \in Seq(B)
    BY <2>1
  <2>3. PICK dropped \in BOOLEAN : Accept1(Head(line), dropped)
    BY <1>2 DEF ReceiveByte
  <2>4. ring' \in Seq(B) /\ Len(ring') < RingSize /\ got' \in Seq(B) /\ lost' \in Nat
    BY <2>2, <2>3, ByteAccepted
  <2> QED
    BY <2>1, <2>2, <2>3, <2>4 DEF Accept1
<1>3. CASE ReceiveNoise
  <2>1. PICK v \in Noise : Accept1(Byte(0, 0, v), FALSE)
    BY <1>3 DEF ReceiveNoise
  <2>2. Byte(0, 0, v) \in B /\ FALSE \in BOOLEAN
    BY <1>a
  <2>4. ring' \in Seq(B) /\ Len(ring') < RingSize /\ got' \in Seq(B) /\ lost' \in Nat
    BY <2>1, <2>2, ByteAccepted
  <2>5. noise' \in Nat /\ line' = line
    BY <1>3 DEF ReceiveNoise
  <2> QED
    BY <2>1, <2>4, <2>5 DEF Accept1
<1>5. /\ Drained.buf \in Seq(B) /\ Drained.ring \in Seq(B)
      /\ Len(Drained.buf) <= BufSize /\ Len(Drained.ring) < RingSize
  <2>1. Len(Drained.ring) <= Len(ring) /\ Drained.ring \in Seq(B)
    BY DrainedSplits
  <2>2. Drained.buf \in Seq(B) /\ Len(Drained.buf) <= BufSize
    BY DrainedSplits
  <2> QED
    BY <2>1, <2>2, SerialConstants
<1>6. CASE cps_poll
  <2>1. buf' = << >> \/ buf' = Drained.buf
    BY <1>6 DEF cps_poll, CpsIdle, CpsSession, CpsDone
  <2>2. buf' \in Seq(B) /\ Len(buf') <= BufSize
    <3>1. << >> \in Seq(B) /\ Len(<< >>) = 0 /\ 0 <= BufSize
      BY SerialConstants
    <3> QED
      BY <1>5, <2>1, <3>1
  <2> QED
    BY <1>5, <1>6, <2>2 DEF cps_poll, Wire
<1>7. CASE cps_try_parse_frame
  <2>1. buf' \in Seq(B) /\ \E k \in 0 .. Len(buf) : IsEnd(buf', buf, k)
    BY <1>7, ParseLeaves DEF B
  <2>2. Len(buf') <= BufSize
    BY <2>1, SerialConstants DEF IsEnd
  <2> QED
    BY <2>2, <1>7, <2>1 DEF cps_try_parse_frame, Wire
<1>8. CASE GpsByte
  <2>1. ring # << >> /\ ring' = Tail(ring)
    BY <1>8, GpsTakesByte
  <2>2. Head(ring) \in B /\ ring' \in Seq(B) /\ Len(ring') < Len(ring)
    BY <2>1
  <2>3. \/ buf' = << Head(ring) >> \/ buf' = buf
        \/ Len(buf) < BufSize - 1 /\ buf' = Append(buf, Head(ring))
    BY <1>8, GpsTakesByte
  <2>4. buf' \in Seq(B) /\ Len(buf') <= BufSize
    <3>1. << Head(ring) >> \in Seq(B) /\ Len(<< Head(ring) >>) = 1 /\ 1 <= BufSize
      BY <2>2, SerialConstants
    <3>2. ASSUME Len(buf) < BufSize - 1
          PROVE  Append(buf, Head(ring)) \in Seq(B) /\ Len(Append(buf, Head(ring))) <= BufSize
      BY <2>2, <3>2, SerialConstants
    <3> QED
      BY <2>3, <3>1, <3>2
  <2> QED
    BY <1>8, <2>2, <2>4, SerialConstants DEF GpsByte, Wire
<1>9. CASE bt_poll
  <2>1. /\ buf' = << >> \/ buf' = buf \/ buf' = Drained.buf
        /\ ring' = << >> \/ ring' = Drained.ring
        /\ got' = << >> \/ got' = got \/ got' = Drained.ring
    BY <1>9 DEF bt_poll, BtConnect, BtRelay
  <2>2. << >> \in Seq(B) /\ Len(<< >>) = 0 /\ 0 <= BufSize /\ 0 < RingSize
    BY SerialConstants
  <2>3. buf' \in Seq(B) /\ Len(buf') <= BufSize
    BY <1>5, <2>1, <2>2
  <2>4. ring' \in Seq(B) /\ Len(ring') < RingSize
    BY <1>5, <2>1, <2>2
  <2>5. got' \in Seq(B)
    BY <1>5, <2>1, <2>2
  <2> QED
    BY <1>9, <2>3, <2>4, <2>5 DEF bt_poll, Wire
<1> QED
  BY <1>1, <1>2, <1>3, <1>6, <1>7, <1>8, <1>9 DEF SerialNext

LEMMA SerialStatesStep == ASSUME SerialBytes, SerialStates, SerialNext PROVE SerialStates'
<1>1. CASE SendMessage \/ ReceiveByte \/ ReceiveNoise
  BY <1>1 DEF SerialStates, SendMessage, ReceiveByte, ReceiveNoise, Accept1
<1>2. CASE cps_poll
  <2>1. count \in 0 .. 255 /\ phase \in {"IDLE", "HANDSHAKE", "TRANSFER", "DONE"}
    BY <1>2 DEF SerialStates, cps_poll
  <2>2. CASE CpsIdle
    <3> DEFINE n == (count + Len(Drained.buf)) % 256
    <3>1. count' = n \/ count' = 0
      BY <2>2 DEF CpsIdle
    <3>2. count' \in 0 .. 255
      <4>1. Len(Drained.buf) \in Nat
        <5>1. Drained.buf \in Seq(GoodByte(port))
          BY DrainedSplits DEF SerialBytes
        <5> QED
          BY <5>1
      <4>2. \A x \in Nat : x % 256 \in 0 .. 255
        OBVIOUS
      <4>3. count + Len(Drained.buf) \in Nat
        BY <2>1, <4>1
      <4>4. n \in 0 .. 255
        BY <4>2, <4>3
      <4> HIDE DEF n
      <4> QED
        BY <3>1, <4>4
    <3> QED
      BY <1>2, <2>1, <2>2, <3>2 DEF SerialStates, cps_poll, CpsIdle, Wire
  <2>3. CASE CpsSession
    BY <1>2, <2>1, <2>3 DEF SerialStates, cps_poll, CpsSession, Wire
  <2>4. CASE CpsDone
    <3>1. ~parsing' /\ parsing' \in BOOLEAN
      BY <1>2, <2>4, Zenon DEF cps_poll, CpsDone, SerialStates
    <3>2. /\ port' = "cps" /\ count' \in 0 .. 255
          /\ phase' = "IDLE" /\ muted' \in BOOLEAN
      BY <1>2, <2>1, <2>4 DEF cps_poll, CpsDone, Wire
    <3> QED
      BY <3>1, <3>2 DEF SerialStates
  <2> QED
    BY <1>2, <2>2, <2>3, <2>4 DEF cps_poll
<1>3. CASE cps_try_parse_frame
  <2>1. /\ port = "cps" /\ parsing /\ port' = port /\ count' = count /\ muted' = muted
        /\ phase \in {"TRANSFER", "DONE"}
    BY <1>3 DEF SerialStates, cps_try_parse_frame, Wire
  <2>2. phase' \in {phase, "DONE"} /\ parsing' \in BOOLEAN
    BY <1>3 DEF cps_try_parse_frame, StopParsing, Handle
  <2> QED
    BY <2>1, <2>2 DEF SerialStates
<1>4. CASE GpsByte
  BY <1>4, GpsTakesByte DEF SerialStates, GpsByte, Wire
<1>5. CASE bt_poll
  BY <1>5, SerialConstants DEF SerialStates, bt_poll, BtConnect, BtRelay, Wire
<1> QED
  BY <1>1, <1>2, <1>3, <1>4, <1>5 DEF SerialNext

(* The bridge.                                                             *)
RelayInOrder == port = "bt" =>
  /\ output \in Seq(GoodByte(port))
  /\ got = IF phase = "CPS_RELAY" THEN output \o ring ELSE buf \o ring

LEMMA RelayInit == ASSUME SerialInit PROVE RelayInOrder
BY DEF SerialInit, RelayInOrder

LEMMA AppendedIs ==
  ASSUME NEW S, NEW s \in Seq(S), NEW e \in S
  PROVE  \A p \in DOMAIN Append(s, e) :
           (p \in DOMAIN s /\ Append(s, e)[p] = s[p]) \/ Append(s, e)[p] = e
OBVIOUS

LEMMA ConcatAppend ==
  ASSUME NEW B, NEW s \in Seq(B), NEW t \in Seq(B), NEW e \in B
  PROVE  s \o Append(t, e) = Append(s \o t, e)
<1>1. \A q \in 1 .. Len(s) + Len(t) + 1 : (s \o Append(t, e))[q] = Append(s \o t, e)[q]
  OBVIOUS
<1>2. /\ s \o Append(t, e) \in Seq(B) /\ Append(s \o t, e) \in Seq(B)
      /\ Len(s \o Append(t, e)) = Len(s) + Len(t) + 1
      /\ Len(Append(s \o t, e)) = Len(s) + Len(t) + 1
  OBVIOUS
<1> QED
  BY <1>1, <1>2, SeqEqual

LEMMA RelayStep ==
  ASSUME SerialBytes, SerialStates, RelayInOrder, SerialNext
  PROVE  RelayInOrder'
<1> SUFFICES ASSUME port = "bt"
             PROVE  /\ output' \in Seq(GoodByte(port))
                    /\ got' = IF phase' = "CPS_RELAY" THEN output' \o ring' ELSE buf' \o ring'
  BY SerialPortKept DEF RelayInOrder
<1> DEFINE B == GoodByte(port)
<1>a. \A v \in Noise : Byte(0, 0, v) \in B
  BY NoiseIsGood
<1> HIDE DEF B
<1>b. /\ buf \in Seq(B) /\ Len(buf) <= BufSize /\ ring \in Seq(B) /\ line \in Seq(B)
      /\ got \in Seq(B) /\ Len(ring) < RingSize /\ lost \in Nat
  BY DEF B, SerialBytes
<1>c. /\ output \in Seq(B)
      /\ got = IF phase = "CPS_RELAY" THEN output \o ring ELSE buf \o ring
  BY DEF B, RelayInOrder
<1> USE <1>b, <1>c
<1> SUFFICES /\ output' \in Seq(B)
             /\ got' = IF phase' = "CPS_RELAY" THEN output' \o ring' ELSE buf' \o ring'
  BY DEF B
<1>1. CASE SendMessage
  BY <1>1 DEF SendMessage
<1>2. ASSUME NEW b \in B, NEW dropped \in BOOLEAN, Accept1(b, dropped)
      PROVE  /\ output' \in Seq(B)
             /\ got' = IF phase' = "CPS_RELAY" THEN output' \o ring' ELSE buf' \o ring'
  <2>1. output' = output /\ phase' = phase /\ buf' = buf
    BY <1>2 DEF Accept1
  <2>2. \/ ring' = ring /\ got' = got
        \/ ring' = Append(ring, b) /\ got' = Append(got, b)
    BY <1>2, ByteAccepted
  <2>3. \A s \in Seq(B) : s \o Append(ring, b) = Append(s \o ring, b)
    BY ConcatAppend
  <2> QED
    BY <2>1, <2>2, <2>3
<1>3. CASE ReceiveByte
  <2>1. Head(line) \in B
    BY <1>3 DEF ReceiveByte
  <2> QED
    BY <1>2, <1>3, <2>1 DEF ReceiveByte
<1>4. CASE ReceiveNoise
  BY <1>2, <1>4, <1>a DEF ReceiveNoise
<1>5. CASE cps_poll \/ GpsByte
  BY <1>5 DEF cps_poll, GpsByte
<1>6. CASE cps_try_parse_frame
  BY <1>6 DEF cps_try_parse_frame, SerialStates
<1>7. /\ Drained.buf \in Seq(B) /\ Drained.ring \in Seq(B)
      /\ Drained.buf \o Drained.ring = buf \o ring
  BY DrainedSplits
<1>8. CASE bt_poll /\ BtConnect
  <2>1. phase # "CPS_RELAY" /\ ring' = Drained.ring
    BY <1>8 DEF BtConnect
  <2>2. /\ << >> \in Seq(B) /\ << >> \o Drained.ring = Drained.ring
    BY <1>7
  <2>3. CASE Drained.buf = << >>
    <3>1. phase' = phase /\ buf' = buf /\ output' = output /\ got' = got
      BY <1>8, <2>3 DEF BtConnect
    <3>2. Len(buf) = 0
      <4>1. Len(Drained.buf) >= Len(buf)
        BY DrainedSplits
      <4> QED
        BY <2>3, <4>1
    <3>3. buf = << >>
      BY <3>2
    <3> QED
      BY <1>7, <2>1, <2>2, <2>3, <3>1, <3>3
  <2>4. CASE Drained.buf # << >> /\ Headers(Drained.buf) >= HandshakeCount
    <3>1. phase' = "CPS_RELAY" /\ output' = Drained.buf /\ got' = got
      BY <1>8, <2>4 DEF BtConnect
    <3> QED
      BY <1>7, <2>1, <3>1
  <2>5. CASE Drained.buf # << >> /\ ~(Headers(Drained.buf) >= HandshakeCount)
    <3>1. /\ phase' = "CONNECTED" /\ output' = output
          /\ buf' = IF Len(Drained.buf) >= BufSize THEN << >> ELSE Drained.buf
          /\ got' = IF Len(Drained.buf) >= BufSize THEN Drained.ring ELSE got
      BY <1>8, <2>5 DEF BtConnect
    <3> QED
      BY <1>7, <2>1, <2>2, <3>1
  <2> QED
    BY <2>3, <2>4, <2>5
<1>9. CASE bt_poll /\ BtRelay
  <2>1. phase = "CPS_RELAY" /\ ring' = << >>
    BY <1>9 DEF BtRelay
  <2>2. CASE count >= IdleLimit
    BY <1>9, <2>1, <2>2 DEF BtRelay
  <2>3. CASE ~(count >= IdleLimit)
    <3>1. output' = output \o ring /\ phase' = phase /\ got' = got
      BY <1>9, <2>3 DEF BtRelay
    <3>2. output \o ring \in Seq(B) /\ (output \o ring) \o << >> = output \o ring
      OBVIOUS
    <3> QED
      BY <2>1, <3>1, <3>2
  <2> QED
    BY <2>2, <2>3
<1> QED
  BY <1>1, <1>3, <1>4, <1>5, <1>6, <1>8, <1>9 DEF SerialNext, bt_poll

(* The sentences.  Each byte is the first of a message or follows the one  *)
(* before it.                                                              *)
InRow(s) == \A q \in 1 .. Len(s) - 1 :
  s[q + 1].i = 1 \/ (s[q + 1].m = s[q].m /\ s[q + 1].i = s[q].i + 1)
FromStart(s) == \A q \in DOMAIN s : s[q].m = s[1].m /\ s[q].i = q

Join(b, r, l) == b \o (r \o l)

LEMMA Joined ==
  ASSUME NEW B, NEW b \in Seq(B), NEW r \in Seq(B), NEW l \in Seq(B)
  PROVE  /\ Join(b, r, l) \in Seq(B)
         /\ Len(Join(b, r, l)) = Len(b) + Len(r) + Len(l)
         /\ \A q \in 1 .. Len(b) : Join(b, r, l)[q] = b[q]
         /\ \A q \in 1 .. Len(r) : Join(b, r, l)[Len(b) + q] = r[q]
         /\ \A q \in 1 .. Len(l) : Join(b, r, l)[Len(b) + Len(r) + q] = l[q]
BY DEF Join

LineSoFar == IF phase = "LINE" THEN buf ELSE << >>

SentencesInOrder == port = "gps" =>
  /\ output \in Seq(Seq(GoodByte(port)))
  /\ lost = 0 /\ noise = 0 =>
       /\ \A q \in 1 .. Len(ring) : ring[q].m # 0
       /\ \A q \in 1 .. Len(line) : line[q].m # 0
       /\ InRow(Join(LineSoFar, ring, line))
       /\ phase = "LINE" => Len(buf) > 0 /\ FromStart(buf)
       /\ \A p \in DOMAIN output : FromStart(output[p])

LEMMA SentencesInit == ASSUME SerialInit PROVE SentencesInOrder
<1>1. Join(<< >>, << >>, << >>) = << >>
  BY DEF Join
<1>2. << >> \in Seq(Seq(GoodByte(port))) /\ Len(<< >>) = 0 /\ DOMAIN << >> = {}
  OBVIOUS
<1>3. InRow(<< >>)
  BY DEF InRow
<1> QED
  BY <1>1, <1>2, <1>3 DEF SerialInit, SentencesInOrder, LineSoFar

LEMMA InRowEnd ==
  ASSUME NEW B, NEW s \in Seq(B), NEW t \in Seq(B), NEW k, IsEnd(t, s, k), InRow(s)
  PROVE  InRow(t)
<1> SUFFICES ASSUME NEW q \in 1 .. Len(t) - 1
             PROVE  t[q + 1].i = 1 \/ (t[q + 1].m = t[q].m /\ t[q + 1].i = t[q].i + 1)
  BY DEF InRow
<1>1. k \in Nat /\ Len(t) = Len(s) - k /\ Len(s) \in Nat
  BY DEF IsEnd
<1>2. q \in 1 .. Len(t) /\ q + 1 \in 1 .. Len(t)
  BY <1>1
<1>3. t[q] = s[q + k] /\ t[q + 1] = s[(q + 1) + k]
  BY <1>2 DEF IsEnd
<1>4. (q + 1) + k = (q + k) + 1 /\ q + k \in 1 .. Len(s) - 1
  BY <1>1
<1> QED
  BY <1>3, <1>4 DEF InRow

LEMMA InRowJoined ==
  ASSUME NEW B, NEW s \in Seq(B), NEW t \in Seq(B), InRow(s), InRow(t),
         t # << >> => t[1].i = 1
  PROVE  InRow(s \o t)
<1>1. /\ Len(s \o t) = Len(s) + Len(t) /\ Len(s) \in Nat /\ Len(t) \in Nat
      /\ \A q \in 1 .. Len(s) : (s \o t)[q] = s[q]
      /\ \A q \in 1 .. Len(t) : (s \o t)[Len(s) + q] = t[q]
  OBVIOUS
<1> DEFINE u == s \o t
<1> HIDE DEF u
<1> SUFFICES ASSUME NEW q \in 1 .. Len(u) - 1
             PROVE  u[q + 1].i = 1 \/ (u[q + 1].m = u[q].m /\ u[q + 1].i = u[q].i + 1)
  BY DEF InRow, u
<1>2. CASE q + 1 <= Len(s)
  <2>1. u[q] = s[q] /\ u[q + 1] = s[q + 1] /\ q \in 1 .. Len(s) - 1
    BY <1>1, <1>2 DEF u
  <2> QED
    BY <2>1 DEF InRow
<1>3. CASE q = Len(s)
  <2>1. u[q + 1] = t[1] /\ t # << >>
    BY <1>1, <1>3 DEF u
  <2> QED
    BY <2>1
<1>4. CASE q > Len(s)
  <2> DEFINE j == q - Len(s)
  <2>1. j \in 1 .. Len(t) - 1 /\ q = Len(s) + j /\ q + 1 = Len(s) + (j + 1)
    BY <1>1, <1>4 DEF u
  <2> HIDE DEF j
  <2>2. u[q] = t[j] /\ u[q + 1] = t[j + 1]
    BY <1>1, <2>1 DEF u
  <2> QED
    BY <2>1, <2>2 DEF InRow
<1> QED
  BY <1>1, <1>2, <1>3, <1>4

LEMMA MessageInRow ==
  ASSUME port \in Ports, NEW w \in Messages[port], NEW n \in Nat \ {0}
  PROVE  /\ InRow(MessageBytes(n, w))
         /\ MessageBytes(n, w) # << >> => MessageBytes(n, w)[1].i = 1
         /\ \A q \in 1 .. Len(MessageBytes(n, w)) :
              MessageBytes(n, w)[q].m = n /\ MessageBytes(n, w)[q].i = q
<1> DEFINE s == MessageBytes(n, w)
<1>1. /\ s \in Seq(GoodByte(port)) /\ Len(s) \in Nat
      /\ \A q \in 1 .. Len(s) : s[q] = Byte(n, q, w[q])
  BY MessageIsGood
<1> HIDE DEF s
<1>2. \A q \in 1 .. Len(s) : s[q].m = n /\ s[q].i = q
  <2>1. \A q : Byte(n, q, w[q]).m = n /\ Byte(n, q, w[q]).i = q
    BY DEF Byte
  <2> QED
    BY <1>1, <2>1
<1>3. InRow(s)
  BY <1>1, <1>2 DEF InRow
<1>4. s # << >> => 1 \in 1 .. Len(s)
  BY <1>1
<1> QED
  BY <1>2, <1>3, <1>4 DEF s

LEMMA AppendThenTail ==
  ASSUME NEW B, NEW s \in Seq(B), NEW t \in Seq(B), t # << >>
  PROVE  Append(s, Head(t)) \o Tail(t) = s \o t
<1> DEFINE e == << Head(t) >>
<1>1. /\ e \in Seq(B) /\ Len(e) = 1 /\ e[1] = t[1] /\ Append(s, Head(t)) = s \o e
      /\ Tail(t) \in Seq(B) /\ Len(Tail(t)) = Len(t) - 1 /\ Len(t) \in Nat \ {0}
      /\ \A q \in 1 .. Len(t) - 1 : Tail(t)[q] = t[q + 1]
  BY AppendIsConcat
<1> DEFINE y == Tail(t)
<1> HIDE DEF e, y
<1>2. e \o y = t
  <2>1. \A q \in 1 .. Len(t) : (e \o y)[q] = IF q <= 1 THEN e[q] ELSE y[q - 1]
    BY <1>1, ConcatProperties DEF y
  <2>2. \A q \in 1 .. Len(t) : (e \o y)[q] = t[q]
    BY <1>1, <2>1 DEF y
  <2>3. e \o y \in Seq(B) /\ Len(e \o y) = Len(t)
    BY <1>1, ConcatProperties DEF y
  <2> QED
    BY <2>2, <2>3, SeqEqual
<1>3. (s \o e) \o y = s \o (e \o y)
  BY <1>1, ConcatAssociative DEF y
<1> QED
  BY <1>1, <1>2, <1>3 DEF y

(* A byte that goes from one part to the next leaves the whole as it was.  *)
LEMMA JoinMoves ==
  ASSUME NEW B, NEW b \in Seq(B), NEW r \in Seq(B), NEW l \in Seq(B)
  PROVE  /\ l # << >> => Join(b, Append(r, Head(l)), Tail(l)) = Join(b, r, l)
         /\ r # << >> => Join(Append(b, Head(r)), Tail(r), l) = Join(b, r, l)
<1>1. ASSUME NEW s \in Seq(B), NEW t \in Seq(B), t # << >>
      PROVE  Append(s, Head(t)) \o Tail(t) = s \o t
  BY <1>1, AppendThenTail
<1>2. l # << >> => Append(r, Head(l)) \o Tail(l) = r \o l
  BY <1>1
<1>3. ASSUME r # << >>
      PROVE  Append(b, Head(r)) \o (Tail(r) \o l) = b \o (r \o l)
  <2>1. Append(b, Head(r)) \in Seq(B) /\ Tail(r) \in Seq(B)
    BY <1>3
  <2>2. Append(b, Head(r)) \o Tail(r) = b \o r
    BY <1>1, <1>3
  <2>3. Append(b, Head(r)) \o (Tail(r) \o l) = (Append(b, Head(r)) \o Tail(r)) \o l
    BY <2>1, ConcatAssociative
  <2>4. (b \o r) \o l = b \o (r \o l)
    BY ConcatAssociative
  <2> QED
    BY <2>2, <2>3, <2>4
<1> QED
  BY <1>2, <1>3 DEF Join

(* A join without its first k bytes.                                       *)
LEMMA JoinEnds ==
  ASSUME NEW B, NEW b \in Seq(B), NEW r \in Seq(B), NEW l \in Seq(B),
         NEW c \in Seq(B), NEW k, IsEnd(c, b \o r, k)
  PROVE  IsEnd(c \o l, Join(b, r, l), k)
<1>1. Join(b, r, l) = (b \o r) \o l
  BY SMTT(40), ConcatAssociative DEF Join
<1> DEFINE s == b \o r
<1>2. s \in Seq(B)
  OBVIOUS
<1> HIDE DEF s
<1>3. /\ k \in 0 .. Len(s) /\ Len(c) = Len(s) - k /\ Len(s) \in Nat /\ Len(l) \in Nat
      /\ \A q \in 1 .. Len(c) : c[q] = s[q + k]
  BY <1>2 DEF IsEnd, s
<1>4. Len(c \o l) = Len(c) + Len(l) /\ Len(s \o l) = Len(s) + Len(l)
  BY <1>2
<1>5. ASSUME NEW q \in 1 .. Len(c) + Len(l) PROVE (c \o l)[q] = (s \o l)[q + k]
  <2>1. (c \o l)[q] = IF q <= Len(c) THEN c[q] ELSE l[q - Len(c)]
    OBVIOUS
  <2>2. q + k \in 1 .. Len(s) + Len(l)
    BY <1>3
  <2>3. (s \o l)[q + k] = IF q + k <= Len(s) THEN s[q + k] ELSE l[(q + k) - Len(s)]
    BY <1>2, <2>2
  <2>4. (q + k <= Len(s) <=> q <= Len(c)) /\ (q + k) - Len(s) = q - Len(c)
    BY <1>3
  <2> QED
    BY <1>3, <2>1, <2>3, <2>4
<1>6. IsEnd(c \o l, s \o l, k)
  BY <1>3, <1>4, <1>5 DEF IsEnd
<1> QED
  BY <1>1, <1>6 DEF s

LEMMA FirstDropped ==
  ASSUME NEW B, NEW b \in Seq(B), NEW r \in Seq(B), r # << >>
  PROVE  /\ IsEnd(Tail(r), b \o r, Len(b) + 1)
         /\ IsEnd(<< Head(r) >> \o Tail(r), b \o r, Len(b))
<1>1. /\ Len(b \o r) = Len(b) + Len(r) /\ Len(b) \in Nat /\ Len(r) \in Nat \ {0}
      /\ \A q \in 1 .. Len(r) : (b \o r)[q + Len(b)] = r[q]
      /\ Tail(r) \in Seq(B) /\ Len(Tail(r)) = Len(r) - 1 /\ Head(r) = r[1]
      /\ \A q \in 1 .. Len(r) - 1 : Tail(r)[q] = r[q + 1]
  OBVIOUS
<1>2. ASSUME NEW q \in 1 .. Len(r) - 1 PROVE Tail(r)[q] = (b \o r)[q + (Len(b) + 1)]
  <2>1. Tail(r)[q] = r[q + 1] /\ (b \o r)[(q + 1) + Len(b)] = r[q + 1]
    BY <1>1
  <2>2. (q + 1) + Len(b) = q + (Len(b) + 1)
    BY <1>1
  <2> QED
    BY <2>1, <2>2
<1>3. IsEnd(Tail(r), b \o r, Len(b) + 1)
  BY <1>1, <1>2 DEF IsEnd
<1>4. << Head(r) >> \o Tail(r) = r
  <2>1. /\ Append(<< >>, Head(r)) = << Head(r) >> /\ << >> \o r = r /\ << >> \in Seq(B)
    OBVIOUS
  <2> QED
    BY <2>1, AppendThenTail
<1>5. IsEnd(r, b \o r, Len(b))
  BY <1>1 DEF IsEnd
<1> QED
  BY <1>3, <1>4, <1>5

LEMMA AtTheSeam ==
  ASSUME NEW B, NEW b \in Seq(B), NEW r \in Seq(B), NEW l \in Seq(B),
         Len(b) > 0, r # << >>
  PROVE  /\ Join(b, r, l)[Len(b)] = b[Len(b)]
         /\ Join(b, r, l)[Len(b) + 1] = Head(r)
         /\ Len(Join(b, r, l)) \in Nat
         /\ Len(Join(b, r, l)) > Len(b)
<1> DEFINE x == r \o l
<1>1. /\ x \in Seq(B) /\ Len(x) \in Nat /\ Len(x) > 0 /\ x[1] = Head(r)
      /\ Len(b) \in Nat
  OBVIOUS
<1> HIDE DEF x
<1>2. /\ (b \o x)[Len(b)] = b[Len(b)] /\ (b \o x)[Len(b) + 1] = x[1]
      /\ Len(b \o x) = Len(b) + Len(x)
  BY <1>1
<1> QED
  BY <1>1, <1>2 DEF Join, x

LEMMA SentencesStep ==
  ASSUME SerialBytes, SerialStates, SentencesInOrder, SerialNext
  PROVE  SentencesInOrder'
<1> DEFINE B == GoodByte(port)
<1> SUFFICES ASSUME port = "gps"
             PROVE  /\ output' \in Seq(Seq(B))
                    /\ lost' = 0 /\ noise' = 0 =>
                         /\ \A q \in 1 .. Len(ring') : ring'[q].m # 0
                         /\ \A q \in 1 .. Len(line') : line'[q].m # 0
                         /\ InRow(Join(LineSoFar', ring', line'))
                         /\ phase' = "LINE" => Len(buf') > 0 /\ FromStart(buf')
                         /\ \A p \in DOMAIN output' : FromStart(output'[p])
  BY SerialPortKept DEF SentencesInOrder, InRow, FromStart
<1>a. \A b \in B : b.m # 0 => (b.v = DollarByte <=> b.i = 1)
  BY DEF GoodByte
<1>b. \A w \in Messages[port], n \in Nat \ {0} : MessageBytes(n, w) \in Seq(B)
  BY MessageIsGood DEF SerialBytes
<1> HIDE DEF B
<1>c. /\ buf \in Seq(B) /\ ring \in Seq(B) /\ line \in Seq(B) /\ got \in Seq(B)
      /\ Len(ring) < RingSize /\ lost \in Nat /\ noise \in Nat /\ sent \in Nat
      /\ output \in Seq(Seq(B)) /\ port \in Ports /\ LineSoFar \in Seq(B)
  BY DEF B, SerialBytes, SentencesInOrder, LineSoFar
<1>d. lost = 0 /\ noise = 0 =>
        /\ \A q \in 1 .. Len(ring) : ring[q].m # 0
        /\ \A q \in 1 .. Len(line) : line[q].m # 0
        /\ InRow(Join(LineSoFar, ring, line))
        /\ phase = "LINE" => Len(buf) > 0 /\ FromStart(buf)
        /\ \A p \in DOMAIN output : FromStart(output[p])
  BY DEF SentencesInOrder
<1> USE <1>c
<1>1. CASE SendMessage
  <2>1. /\ line = << >> /\ sent' = sent + 1
        /\ ring' = ring /\ buf' = buf /\ phase' = phase /\ output' = output
        /\ lost' = lost /\ noise' = noise
    BY <1>1 DEF SendMessage
  <2>2. PICK w \in Messages[port] : line' = MessageBytes(sent', w)
    BY <1>1 DEF SendMessage
  <2>3. sent' \in Nat \ {0} /\ line' \in Seq(B)
    <3>1. sent' \in Nat \ {0}
      BY <2>1
    <3> QED
      BY <2>2, <3>1, <1>b
  <2>4. /\ InRow(line') /\ (line' # << >> => line'[1].i = 1)
        /\ \A q \in 1 .. Len(line') : line'[q].m # 0
    BY <2>2, <2>3, MessageInRow
  <2>5. LineSoFar' = LineSoFar
    BY <2>1 DEF LineSoFar
  <2>6. ASSUME lost = 0, noise = 0 PROVE InRow(Join(LineSoFar, ring, line'))
    <3>1. Join(LineSoFar, ring, line) = LineSoFar \o ring
      BY <2>1 DEF Join
    <3>2. InRow(LineSoFar \o ring) /\ LineSoFar \o ring \in Seq(B)
      BY <1>d, <2>6, <3>1
    <3>3. InRow((LineSoFar \o ring) \o line')
      BY <2>3, <2>4, <3>2, InRowJoined
    <3>4. (LineSoFar \o ring) \o line' = LineSoFar \o (ring \o line')
      BY SMTT(40), <2>3, ConcatAssociative
    <3> QED
      BY <3>3, <3>4 DEF Join
  <2> QED
    BY <1>d, <2>1, <2>4, <2>5, <2>6
<1>2. CASE ReceiveByte
  <2>1. line # << >> /\ line' = Tail(line) /\ noise' = noise
    BY <1>2 DEF ReceiveByte
  <2>2. Head(line) \in B /\ Tail(line) \in Seq(B) /\ Head(line) = line[1]
    BY <2>1
  <2>3. PICK dropped \in BOOLEAN : Accept1(Head(line), dropped)
    BY <1>2 DEF ReceiveByte
  <2>4. /\ output' = output /\ phase' = phase /\ buf' = buf
        /\ \/ lost' = lost + 1
           \/ ring' = Append(ring, Head(line)) /\ lost' = lost
    BY <2>2, <2>3, ByteAccepted DEF Accept1
  <2> SUFFICES ASSUME lost' = 0, noise' = 0
               PROVE  /\ \A q \in 1 .. Len(ring') : ring'[q].m # 0
                      /\ \A q \in 1 .. Len(line') : line'[q].m # 0
                      /\ InRow(Join(LineSoFar', ring', line'))
    BY <1>d, <2>1, <2>4
  <2>5. ring' = Append(ring, Head(line)) /\ lost = 0 /\ noise = 0
    BY <2>1, <2>4
  <2>6. LineSoFar' = LineSoFar
    BY <2>4 DEF LineSoFar
  <2>7. Join(LineSoFar', ring', line') = Join(LineSoFar, ring, line)
    BY <2>1, <2>5, <2>6, JoinMoves
  <2>8. \A q \in 1 .. Len(line') : line'[q] = line[q + 1] /\ q + 1 \in 1 .. Len(line)
    BY <2>1
  <2>9. line[1].m # 0
    <3>1. 1 \in 1 .. Len(line)
      BY <2>1
    <3> QED
      BY <1>d, <2>5, <3>1
  <2>10. \A q \in 1 .. Len(ring') : ring'[q].m # 0
    <3>1. \A q \in 1 .. Len(ring') : (q \in 1 .. Len(ring) /\ ring'[q] = ring[q]) \/ ring'[q] = line[1]
      BY <2>2, <2>5
    <3> QED
      BY <1>d, <2>5, <2>9, <3>1
  <2> QED
    BY <1>d, <2>5, <2>7, <2>8, <2>10
<1>3. CASE ReceiveNoise
  <2>1. noise' # 0
    BY <1>3 DEF ReceiveNoise
  <2>2. output' = output
    BY <1>3 DEF ReceiveNoise, Accept1
  <2> QED
    BY <2>1, <2>2
<1>4. CASE cps_poll \/ cps_try_parse_frame \/ bt_poll
  BY <1>4 DEF cps_poll, bt_poll, cps_try_parse_frame, SerialStates
<1>5. CASE GpsByte
  <2> DEFINE b == Head(ring)
  <2>1. /\ ring # << >> /\ ring' = Tail(ring)
        /\ \/ b.v = DollarByte /\ buf' = << b >> /\ phase' = "LINE" /\ output' = output
           \/ /\ b.v # DollarByte
              /\ \/ phase = "LINE" /\ phase' = "WAIT" /\ buf' = buf /\ output' = output
                 \/ phase = "LINE" /\ phase' = "WAIT" /\ buf' = buf /\ output' = Append(output, buf)
                 \/ /\ phase = "LINE" /\ buf' = Append(buf, b)
                    /\ phase' = phase /\ output' = output
                 \/ phase = "WAIT" /\ phase' = phase /\ buf' = buf /\ output' = output
    BY <1>5, GpsTakesByte
  <2>2. b \in B /\ Tail(ring) \in Seq(B) /\ b = ring[1] /\ 1 \in 1 .. Len(ring)
    BY <2>1
  <2> HIDE DEF b
  <2>3. line' = line /\ lost' = lost /\ noise' = noise
    BY <1>5 DEF GpsByte, Wire
  <2>4. output' \in Seq(Seq(B))
    <3>1. Append(output, buf) \in Seq(Seq(B))
      BY AppendProperties
    <3> QED
      BY <2>1, <3>1
  <2> SUFFICES ASSUME lost = 0, noise = 0
               PROVE  /\ \A q \in 1 .. Len(ring') : ring'[q].m # 0
                      /\ InRow(Join(LineSoFar', ring', line))
                      /\ phase' = "LINE" => Len(buf') > 0 /\ FromStart(buf')
                      /\ \A p \in DOMAIN output' : FromStart(output'[p])
    BY <1>d, <2>3, <2>4
  <2>5. \A q \in 1 .. Len(ring') : ring'[q].m # 0
    <3>1. \A q \in 1 .. Len(ring') : ring'[q] = ring[q + 1] /\ q + 1 \in 1 .. Len(ring)
      BY <2>1
    <3> QED
      BY <1>d, <3>1
  <2>6. b.v = DollarByte <=> b.i = 1
    BY <1>a, <1>d, <2>2
  <2>7. InRow(Join(LineSoFar, ring, line))
    BY <1>d
  <2>8. ASSUME NEW c \in Seq(B), NEW k, IsEnd(c, LineSoFar \o ring, k)
        PROVE  InRow(c \o line)
    <3>1. IsEnd(c \o line, Join(LineSoFar, ring, line), k)
      BY <2>8, JoinEnds
    <3>2. Join(LineSoFar, ring, line) \in Seq(B) /\ c \o line \in Seq(B)
      BY Joined
    <3> QED
      BY <2>7, <3>1, <3>2, InRowEnd
  <2>9. CASE b.v = DollarByte
    <3>1. buf' = << b >> /\ phase' = "LINE" /\ output' = output
      BY <2>1, <2>9
    <3>2. LineSoFar' = << b >>
      BY <3>1 DEF LineSoFar
    <3>3. Len(<< b >>) > 0 /\ FromStart(<< b >>)
      BY <2>2, <2>6, <2>9 DEF FromStart
    <3>4. << b >> \o ring' \in Seq(B)
      BY <2>1, <2>2
    <3>5. IsEnd(<< b >> \o ring', LineSoFar \o ring, Len(LineSoFar))
      BY <2>1, FirstDropped DEF b
    <3>6. InRow((<< b >> \o ring') \o line)
      BY <2>8, <3>4, <3>5
    <3>7. (<< b >> \o ring') \o line = << b >> \o (ring' \o line)
      <4>1. << b >> \in Seq(B) /\ ring' \in Seq(B)
        BY <2>1, <2>2
      <4> QED
        BY <4>1, ConcatAssociative
    <3>8. InRow(Join(LineSoFar', ring', line))
      BY <3>2, <3>6, <3>7 DEF Join
    <3> QED
      BY <1>d, <2>5, <3>1, <3>3, <3>8
  <2>10. ASSUME phase' = "WAIT" PROVE InRow(Join(LineSoFar', ring', line))
    <3>1. LineSoFar' = << >>
      BY <2>10 DEF LineSoFar
    <3>2. ring' \in Seq(B) /\ IsEnd(ring', LineSoFar \o ring, Len(LineSoFar) + 1)
      BY <2>1, <2>2, FirstDropped
    <3>3. InRow(ring' \o line)
      BY <2>8, <3>2
    <3>4. << >> \o (ring' \o line) = ring' \o line
      BY <3>2
    <3> QED
      BY <3>1, <3>3, <3>4 DEF Join
  <2>11. CASE phase = "LINE" /\ phase' = "WAIT" /\ output' = output
    BY <1>d, <2>5, <2>10, <2>11
  <2>12. CASE phase = "LINE" /\ phase' = "WAIT" /\ output' = Append(output, buf)
    <3>1. \A p \in DOMAIN output' : FromStart(output'[p])
      <4>1. \A p \in DOMAIN output' : (p \in DOMAIN output /\ output'[p] = output[p]) \/ output'[p] = buf
        <5>1. output \in Seq(Seq(B)) /\ buf \in Seq(B)
          BY <1>c
        <5> QED
          BY <2>12, <5>1, AppendedIs
      <4> QED
        BY <1>d, <2>12, <4>1
    <3> QED
      BY <2>5, <2>10, <2>12, <3>1
  <2>13. CASE /\ b.v # DollarByte
              /\ phase = "LINE" /\ buf' = Append(buf, b) /\ phase' = phase /\ output' = output
    <3>1. LineSoFar = buf /\ LineSoFar' = buf'
      BY <2>13 DEF LineSoFar
    <3>2. Join(buf', ring', line) = Join(buf, ring, line)
      BY <2>1, <2>13, JoinMoves DEF b
    <3>3. Len(buf) \in Nat /\ Len(buf) > 0 /\ FromStart(buf)
      BY <1>d, <2>13
    <3>4. /\ Join(buf, ring, line)[Len(buf)] = buf[Len(buf)]
          /\ Join(buf, ring, line)[Len(buf) + 1] = b
          /\ Len(Join(buf, ring, line)) \in Nat
          /\ Len(Join(buf, ring, line)) > Len(buf)
      BY <2>1, <3>3, AtTheSeam DEF b
    <3>5. Len(buf) \in 1 .. Len(Join(buf, ring, line)) - 1
      BY <2>2, <3>3, <3>4
    <3>6. b.m = buf[Len(buf)].m /\ b.i = buf[Len(buf)].i + 1
      BY <2>6, <2>7, <2>13, <3>1, <3>4, <3>5 DEF InRow
    <3>7. buf[Len(buf)].m = buf[1].m /\ buf[Len(buf)].i = Len(buf)
      BY <3>3 DEF FromStart
    <3>8. \A q \in DOMAIN buf' : buf'[q].m = buf'[1].m /\ buf'[q].i = q
      <4>1. /\ DOMAIN buf' = 1 .. Len(buf) + 1 /\ buf'[Len(buf) + 1] = b /\ buf'[1] = buf[1]
            /\ \A q \in 1 .. Len(buf) : buf'[q] = buf[q]
        BY <2>2, <2>13, <3>3
      <4>2. \A q \in 1 .. Len(buf) : buf[q].m = buf[1].m /\ buf[q].i = q
        BY <3>3 DEF FromStart
      <4> QED
        <5>1. ASSUME NEW q \in 1 .. Len(buf) PROVE buf'[q].m = buf'[1].m /\ buf'[q].i = q
          BY <4>1, <4>2
        <5>2. buf'[Len(buf) + 1].m = buf'[1].m /\ buf'[Len(buf) + 1].i = Len(buf) + 1
          BY <3>6, <3>7, <4>1
        <5>3. \A q \in DOMAIN buf' : q \in 1 .. Len(buf) \/ q = Len(buf) + 1
          BY <3>3, <4>1
        <5> QED
          BY <5>1, <5>2, <5>3
    <3>9. Len(buf') > 0
      BY <2>2, <2>13, <3>3
    <3> QED
      BY <1>d, <2>5, <2>7, <2>13, <3>1, <3>2, <3>8, <3>9 DEF FromStart
  <2>14. CASE phase = "WAIT" /\ phase' = phase /\ output' = output
    BY <1>d, <2>5, <2>10, <2>14
  <2> QED
    BY <2>1, <2>9, <2>11, <2>12, <2>13, <2>14
<1> QED
  BY <1>1, <1>2, <1>3, <1>4, <1>5 DEF SerialNext

(* The frames.  A frame that is whole in one buffer is whole in another    *)
(* that has its bytes.                                                     *)
LEMMA FrameMoves ==
  ASSUME NEW g, NEW s \in Seq(GoodByte(g)), NEW t \in Seq(GoodByte(g)),
         NEW p \in 1 .. Len(s) - (LenAt + Trailer - 1), WholeAt(s, p),
         NEW k \in Nat, k < p, Len(s) - k <= Len(t),
         \A q \in p .. Len(s) : t[q - k] = s[q]
  PROVE  s[p].m \in WholeFrames(t)
<1> USE SerialConstants
<1> DEFINE at == p + LenAt - 1
<1> DEFINE n == s[at].v
<1> DEFINE last == p + LenAt + n + Trailer - 1
<1> DEFINE r == p - k
<1>1. at \in p .. Len(s) /\ at \in 1 .. Len(s) /\ Len(s) \in Nat /\ Len(t) \in Nat
  OBVIOUS
<1>2. n \in Nat
  <2>1. s[at] \in GoodByte(g)
    BY <1>1
  <2> QED
    BY <2>1 DEF GoodByte
<1>3. t[r] = s[p] /\ t[r + LenAt - 1] = s[at]
  <2>1. p \in p .. Len(s) /\ at - k = r + LenAt - 1
    BY <1>1
  <2>2. t[p - k] = s[p]
    BY <2>1
  <2>3. t[at - k] = s[at]
    BY <1>1
  <2> QED
    BY <2>1, <2>2, <2>3
<1>4. /\ s[p].m # 0 /\ s[p].i = 1
      /\ last <= Len(s) /\ \A q \in p .. last : s[q].m = s[p].m /\ s[q].i = q - p + 1
  BY DEF WholeAt
<1> HIDE DEF at, n
<1>5. last \in Int /\ last >= p /\ last - k = r + LenAt + n + Trailer - 1
  BY SMTT(40), <1>2
<1>6. last - k <= Len(t)
  BY <1>1, <1>4, <1>5
<1> HIDE DEF last
<1>7. ASSUME NEW q \in r .. last - k
      PROVE  t[q].m = t[r].m /\ t[q].i = q - r + 1
  <2>1. q + k \in p .. last /\ q + k \in p .. Len(s) /\ (q + k) - k = q
    BY <1>1, <1>4, <1>5, <1>7
  <2>2. t[q] = s[q + k]
    <3>1. t[(q + k) - k] = s[q + k]
      BY <2>1
    <3> QED
      BY <2>1, <3>1
  <2>3. s[q + k].m = s[p].m /\ s[q + k].i = (q + k) - p + 1
    BY <1>4, <2>1
  <2> QED
    BY <1>3, <2>2, <2>3
<1>8. WholeAt(t, r)
  BY <1>3, <1>4, <1>5, <1>6, <1>7 DEF WholeAt, n
<1>9. r \in 1 .. Len(t) - (LenAt + Trailer - 1)
  BY <1>1
<1> QED
  BY <1>3, <1>8, <1>9 DEF WholeFrames

LEMMA FramesStay ==
  ASSUME NEW g, NEW s \in Seq(GoodByte(g)), NEW t \in Seq(GoodByte(g)),
         Len(t) >= Len(s), \A q \in 1 .. Len(s) : t[q] = s[q]
  PROVE  WholeFrames(s) \subseteq WholeFrames(t)
<1> SUFFICES ASSUME NEW p \in 1 .. Len(s) - (LenAt + Trailer - 1), WholeAt(s, p)
             PROVE  s[p].m \in WholeFrames(t)
  BY DEF WholeFrames
<1>1. 0 \in Nat /\ 0 < p /\ Len(s) - 0 <= Len(t) /\ p \in Nat
  OBVIOUS
<1>2. \A q \in p .. Len(s) : t[q - 0] = s[q]
  BY <1>1
<1> QED
  BY <1>1, <1>2, FrameMoves

LEMMA FramesInEnd ==
  ASSUME NEW g, NEW s \in Seq(GoodByte(g)), NEW t \in Seq(GoodByte(g)),
         NEW k, IsEnd(t, s, k), NEW p \in 1 .. Len(s) - (LenAt + Trailer - 1),
         WholeAt(s, p), k < p
  PROVE  s[p].m \in WholeFrames(t)
<1>1. k \in Nat /\ Len(s) - k <= Len(t) /\ Len(t) = Len(s) - k /\ Len(s) \in Nat
  BY DEF IsEnd
<1>2. ASSUME NEW q \in p .. Len(s) PROVE t[q - k] = s[q]
  <2>1. q - k \in 1 .. Len(t) /\ (q - k) + k = q
    BY <1>1
  <2> QED
    BY <2>1 DEF IsEnd
<1> QED
  BY <1>1, <1>2, FrameMoves

(* Skipping bytes that are no header loses no frame; a bad frame loses its *)
(* first byte and no frame; a good one loses itself and no other.          *)
LEMMA NoFrameSkipped ==
  ASSUME NEW s \in Seq(GoodByte("cps")), NEW t \in Seq(GoodByte("cps")), NEW k,
         IsEnd(t, s, k), \A q \in 1 .. k : s[q].v # HeaderByte
  PROVE  WholeFrames(s) \subseteq WholeFrames(t)
<1> SUFFICES ASSUME NEW p \in 1 .. Len(s) - (LenAt + Trailer - 1), WholeAt(s, p)
             PROVE  s[p].m \in WholeFrames(t)
  BY DEF WholeFrames
<1>1. p \in 1 .. Len(s)
  BY SerialConstants
<1>2. s[p].i = 1 /\ s[p] \in GoodByte("cps")
  BY <1>1 DEF WholeAt
<1>3. s[p].v = HeaderByte
  BY <1>2 DEF GoodByte
<1>4. k \in Nat /\ k < p
  BY <1>1, <1>3 DEF IsEnd
<1> QED
  BY <1>4, FramesInEnd

LEMMA FirstSkipped ==
  ASSUME NEW g, NEW s \in Seq(GoodByte(g)), s # << >>, ~WholeAt(s, 1)
  PROVE  WholeFrames(s) \subseteq WholeFrames(Tail(s))
<1> SUFFICES ASSUME NEW p \in 1 .. Len(s) - (LenAt + Trailer - 1), WholeAt(s, p)
             PROVE  s[p].m \in WholeFrames(Tail(s))
  BY DEF WholeFrames
<1>1. Tail(s) \in Seq(GoodByte(g)) /\ IsEnd(Tail(s), s, 1)
  <2>1. /\ Tail(s) \in Seq(GoodByte(g)) /\ Len(Tail(s)) = Len(s) - 1
        /\ \A q \in 1 .. Len(Tail(s)) : Tail(s)[q] = s[q + 1]
        /\ 1 \in 0 .. Len(s)
    OBVIOUS
  <2> QED
    BY <2>1 DEF IsEnd
<1>2. p # 1
  OBVIOUS
<1>3. 1 < p
  BY <1>2
<1> DEFINE t == Tail(s)
<1> HIDE DEF t
<1>4. t \in Seq(GoodByte(g)) /\ IsEnd(t, s, 1)
  BY <1>1 DEF t
<1>5. s[p].m \in WholeFrames(t)
  BY <1>3, <1>4, FramesInEnd
<1> QED
  BY <1>5 DEF t

LEMMA FrameTaken ==
  ASSUME NEW g, NEW s \in Seq(GoodByte(g)), Complete(s), WholeAt(s, 1)
  PROVE  WholeFrames(s) \ {s[1].m}
           \subseteq WholeFrames(SubSeq(s, FrameLength(s) + 1, Len(s)))
<1> DEFINE n == FrameLength(s)
<1> DEFINE t == SubSeq(s, n + 1, Len(s))
<1>1. n \in 1 .. Len(s)
  BY CompleteLength
<1>2. \A q \in 1 .. n : s[q].i = q
  <2>1. 1 + LenAt - 1 = LenAt /\ LenAt \in Nat
    BY SerialConstants
  <2>2. \A q \in 1 .. 1 + LenAt + s[LenAt].v + Trailer - 1 : s[q].i = q - 1 + 1
    BY <2>1 DEF WholeAt
  <2>3. n = 1 + LenAt + s[LenAt].v + Trailer - 1
    <3>1. s[LenAt].v \in Nat
      <4>1. LenAt \in 1 .. Len(s)
        BY SerialConstants DEF Complete, MinFrame
      <4>2. s[LenAt] \in GoodByte(g)
        BY <4>1
      <4> QED
        BY <4>2 DEF GoodByte
    <3> QED
      BY <3>1, SerialConstants DEF FrameLength
  <2> HIDE DEF n
  <2> QED
    BY <1>1, <2>2, <2>3
<1> HIDE DEF n
<1>3. t \in Seq(GoodByte(g)) /\ IsEnd(t, s, n)
  BY <1>1, EndOf
<1> HIDE DEF t
<1> SUFFICES ASSUME NEW p \in 1 .. Len(s) - (LenAt + Trailer - 1), WholeAt(s, p),
                    s[p].m # s[1].m
             PROVE  s[p].m \in WholeFrames(t)
  BY DEF WholeFrames, n, t
<1>4. s[p].i = 1
  BY DEF WholeAt
<1>5. p > n
  BY <1>1, <1>2, <1>4
<1> QED
  BY <1>3, <1>5, FramesInEnd

(* The messages come in their order: where one starts, nothing before it   *)
(* is of a later one or of itself, and nothing answered is.                *)
Ordered(s, out, n) ==
  /\ \A q \in 1 .. Len(s) : s[q].m <= n
  /\ \A p, q \in 1 .. Len(s) : p < q /\ s[q].i = 1 => s[p].m < s[q].m
  /\ \A p \in 1 .. Len(out) : out[p] <= n
  /\ \A p \in 1 .. Len(out), q \in 1 .. Len(s) : s[q].i = 1 => out[p] < s[q].m

LEMMA OrderedEnd ==
  ASSUME NEW B, NEW s \in Seq(B), NEW t \in Seq(B), NEW out, NEW n, NEW k,
         IsEnd(t, s, k), Ordered(s, out, n)
  PROVE  Ordered(t, out, n)
<1>1. k \in Nat /\ Len(s) \in Nat /\ Len(t) = Len(s) - k
  BY DEF IsEnd
<1>2. \A q \in 1 .. Len(t) : t[q] = s[q + k] /\ q + k \in 1 .. Len(s)
  BY <1>1 DEF IsEnd
<1>3. \A p, q \in 1 .. Len(t) : p < q => p + k < q + k
  BY <1>1
<1>4. \A q \in 1 .. Len(t) : t[q].m <= n
  BY <1>2 DEF Ordered
<1>5. ASSUME NEW p \in 1 .. Len(t), NEW q \in 1 .. Len(t), p < q, t[q].i = 1
      PROVE  t[p].m < t[q].m
  <2>1. /\ p + k \in 1 .. Len(s) /\ q + k \in 1 .. Len(s) /\ p + k < q + k
        /\ t[p] = s[p + k] /\ t[q] = s[q + k]
    BY <1>2, <1>3, <1>5
  <2> QED
    BY <1>5, <2>1 DEF Ordered
<1>6. \A p \in 1 .. Len(out), q \in 1 .. Len(t) : t[q].i = 1 => out[p] < t[q].m
  BY <1>2 DEF Ordered
<1> QED
  BY <1>4, <1>5, <1>6 DEF Ordered

LEMMA OrderedLost ==
  ASSUME NEW B, NEW x \in Seq(B), NEW l \in Seq(B), l # << >>, NEW out, NEW n,
         Ordered(x \o l, out, n)
  PROVE  Ordered(x \o Tail(l), out, n)
<1> DEFINE s == x \o l
<1> DEFINE t == x \o Tail(l)
<1>1. /\ Len(l) \in Nat \ {0} /\ Tail(l) \in Seq(B) /\ Len(Tail(l)) = Len(l) - 1
      /\ \A q \in 1 .. Len(l) - 1 : Tail(l)[q] = l[q + 1]
      /\ Len(x) \in Nat
  OBVIOUS
<1>2. Len(s) = Len(x) + Len(l)
  OBVIOUS
<1>3. Len(t) = Len(x) + Len(l) - 1
  BY <1>1
<1> DEFINE f(q) == IF q <= Len(x) THEN q ELSE q + 1
<1>4. ASSUME NEW q \in 1 .. Len(t) PROVE t[q] = s[f(q)] /\ f(q) \in 1 .. Len(s)
  <2>1. CASE q <= Len(x)
    BY <1>1, <1>2, <2>1
  <2>2. CASE q > Len(x)
    <3>1. t[q] = Tail(l)[q - Len(x)]
      <4>1. q \in 1 .. Len(x) + Len(Tail(l))
        BY <1>1, <1>3
      <4> QED
        BY <1>1, <2>2, <4>1, ConcatProperties
    <3>2. Tail(l)[q - Len(x)] = l[(q - Len(x)) + 1]
      BY <1>1, <1>3, <2>2
    <3>3. s[q + 1] = l[(q + 1) - Len(x)]
      <4>1. q + 1 \in 1 .. Len(x) + Len(l) /\ ~(q + 1 <= Len(x))
        BY <1>1, <1>3, <2>2
      <4> QED
        BY <1>1, <4>1, ConcatProperties
    <3>4. (q - Len(x)) + 1 = (q + 1) - Len(x) /\ q + 1 \in 1 .. Len(s) /\ ~(q <= Len(x))
      BY <1>1, <1>2, <1>3, <2>2
    <3> QED
      BY <3>1, <3>2, <3>3, <3>4
  <2> QED
    BY <1>1, <2>1, <2>2
<1>5. ASSUME NEW p \in 1 .. Len(t), NEW q \in 1 .. Len(t), p < q PROVE f(p) < f(q)
  BY <1>1, <1>5
<1> HIDE DEF f, s, t
<1>6. Ordered(s, out, n)
  BY DEF s
<1>7. ASSUME NEW p \in 1 .. Len(t), NEW q \in 1 .. Len(t), p < q, t[q].i = 1
      PROVE  t[p].m < t[q].m
  <2>1. /\ t[p] = s[f(p)] /\ t[q] = s[f(q)] /\ f(p) < f(q)
        /\ f(p) \in 1 .. Len(s) /\ f(q) \in 1 .. Len(s)
    BY <1>4, <1>5, <1>7
  <2> QED
    BY <1>6, <1>7, <2>1 DEF Ordered
<1>8. \A q \in 1 .. Len(t) : t[q].m <= n
  BY <1>4, <1>6 DEF Ordered
<1>9. \A p \in 1 .. Len(out), q \in 1 .. Len(t) : t[q].i = 1 => out[p] < t[q].m
  BY <1>4, <1>6 DEF Ordered
<1>10. Ordered(t, out, n)
  BY <1>6, <1>7, <1>8, <1>9 DEF Ordered
<1> QED
  BY <1>10 DEF t

LEMMA OrderedNoise ==
  ASSUME NEW g, NEW x \in Seq(GoodByte(g)), NEW l \in Seq(GoodByte(g)),
         NEW b \in GoodByte(g), b.m = 0, b.i = 0, NEW out, NEW n \in Nat,
         Ordered(x \o l, out, n)
  PROVE  Ordered(Append(x, b) \o l, out, n)
<1> DEFINE s == x \o l
<1> DEFINE t == Append(x, b) \o l
<1>1. /\ Len(x) \in Nat /\ Len(l) \in Nat /\ Len(s) = Len(x) + Len(l)
      /\ Len(t) = Len(x) + 1 + Len(l)
  OBVIOUS
<1>2. \A q \in 1 .. Len(x) : t[q] = s[q]
  OBVIOUS
<1>3. t[Len(x) + 1] = b
  OBVIOUS
<1>4. \A q \in 1 .. Len(l) : t[Len(x) + 1 + q] = s[Len(x) + q]
  OBVIOUS
<1>5. \A q \in 1 .. Len(s) : s[q].i = 1 => s[q].m > 0
  <2>1. \A q \in 1 .. Len(s) : s[q] \in GoodByte(g)
    OBVIOUS
  <2> HIDE DEF s
  <2> QED
    BY <2>1 DEF GoodByte
<1> HIDE DEF s, t
<1> DEFINE f(q) == IF q <= Len(x) THEN q ELSE q - 1
<1>6. ASSUME NEW q \in 1 .. Len(t), q # Len(x) + 1
      PROVE  t[q] = s[f(q)] /\ f(q) \in 1 .. Len(s)
  <2>1. CASE q <= Len(x)
    BY <1>1, <1>2, <2>1
  <2>2. CASE q > Len(x) + 1
    <3>1. q - (Len(x) + 1) \in 1 .. Len(l)
      BY <1>1, <2>2
    <3>2. t[Len(x) + 1 + (q - (Len(x) + 1))] = s[Len(x) + (q - (Len(x) + 1))]
      BY <1>4, <3>1
    <3>3. /\ Len(x) + 1 + (q - (Len(x) + 1)) = q /\ Len(x) + (q - (Len(x) + 1)) = q - 1
          /\ ~(q <= Len(x)) /\ q - 1 \in 1 .. Len(s)
      BY <1>1, <2>2
    <3> QED
      BY <3>2, <3>3
  <2> QED
    BY <1>1, <1>6, <2>1, <2>2
<1>7. ASSUME NEW p \in 1 .. Len(t), NEW q \in 1 .. Len(t), p < q,
             p # Len(x) + 1, q # Len(x) + 1
      PROVE  f(p) < f(q)
  BY <1>1, <1>7
<1> HIDE DEF f
<1>8. Ordered(s, out, n)
  BY DEF s
<1>9. ASSUME NEW p \in 1 .. Len(t), NEW q \in 1 .. Len(t), p < q, t[q].i = 1
      PROVE  t[p].m < t[q].m
  <2>1. q # Len(x) + 1
    BY <1>3, <1>9
  <2>2. t[q] = s[f(q)] /\ f(q) \in 1 .. Len(s)
    BY <1>6, <2>1
  <2>3. CASE p = Len(x) + 1
    BY <1>3, <1>5, <1>9, <2>2, <2>3
  <2>4. CASE p # Len(x) + 1
    <3>1. t[p] = s[f(p)] /\ f(p) \in 1 .. Len(s) /\ f(p) < f(q)
      BY <1>6, <1>7, <1>9, <2>1, <2>4
    <3> QED
      BY <1>8, <1>9, <2>2, <3>1 DEF Ordered
  <2> QED
    BY <2>3, <2>4
<1>10. \A q \in 1 .. Len(t) : t[q].m <= n
  <2>1. 0 <= n
    OBVIOUS
  <2> QED
    BY <1>3, <1>6, <1>8, <2>1 DEF Ordered
<1>11. \A p \in 1 .. Len(out), q \in 1 .. Len(t) : t[q].i = 1 => out[p] < t[q].m
  BY <1>3, <1>6, <1>8 DEF Ordered
<1>12. Ordered(t, out, n)
  BY <1>8, <1>9, <1>10, <1>11 DEF Ordered
<1> QED
  BY <1>12 DEF t

LEMMA OrderedJoin ==
  ASSUME NEW g, NEW b \in Seq(GoodByte(g)), NEW r \in Seq(GoodByte(g)),
         NEW l \in Seq(GoodByte(g)), NEW e \in GoodByte(g), e.m = 0, e.i = 0,
         NEW out, NEW n \in Nat, Ordered(Join(b, r, l), out, n)
  PROVE  Ordered(Join(b, Append(r, e), l), out, n)
<1>1. b \o r \in Seq(GoodByte(g)) /\ Join(b, r, l) = (b \o r) \o l
  BY ConcatAssociative DEF Join
<1>2. Ordered(Append(b \o r, e) \o l, out, n)
  BY <1>1, OrderedNoise
<1> DEFINE x == Append(r, e)
<1>3. b \o x = Append(b \o r, e)
  BY ConcatAppend
<1>4. x \in Seq(GoodByte(g))
  OBVIOUS
<1> HIDE DEF x
<1>5. (b \o x) \o l = b \o (x \o l)
  BY <1>4, ConcatAssociative
<1> QED
  BY <1>2, <1>3, <1>5 DEF Join, x

LEMMA OrderedSent ==
  ASSUME NEW B, NEW x \in Seq(B), NEW l \in Seq(B), NEW out, NEW n \in Nat,
         Ordered(x, out, n), \A q \in 1 .. Len(x) : x[q].m \in Nat,
         out \in Seq(Nat), \A q \in 1 .. Len(l) : l[q].m = n + 1 /\ l[q].i = q
  PROVE  Ordered(x \o l, out, n + 1)
<1> DEFINE t == x \o l
<1>1. /\ Len(x) \in Nat /\ Len(l) \in Nat /\ Len(t) = Len(x) + Len(l)
      /\ \A q \in 1 .. Len(x) : t[q] = x[q]
      /\ \A q \in 1 .. Len(t) : q > Len(x) => t[q] = l[q - Len(x)] /\ q - Len(x) \in 1 .. Len(l)
  OBVIOUS
<1> HIDE DEF t
<1>2. \A q \in 1 .. Len(x) : x[q].m <= n /\ x[q].m < n + 1
  BY SMTT(40) DEF Ordered
<1>3. \A p \in 1 .. Len(out) : out[p] \in Nat /\ out[p] <= n
  BY DEF Ordered
<1>4. ASSUME NEW q \in 1 .. Len(t), q > Len(x)
      PROVE  t[q].m = n + 1 /\ (t[q].i = 1 => q = Len(x) + 1)
  <2>1. t[q] = l[q - Len(x)] /\ q - Len(x) \in 1 .. Len(l)
    BY <1>1, <1>4
  <2>2. t[q].m = n + 1 /\ t[q].i = q - Len(x)
    BY <2>1
  <2> QED
    BY <1>1, <2>2
<1>5. ASSUME NEW p \in 1 .. Len(t), NEW q \in 1 .. Len(t), p < q, t[q].i = 1
      PROVE  t[p].m < t[q].m
  <2>1. CASE q <= Len(x)
    BY <1>1, <1>5, <2>1 DEF Ordered
  <2>2. CASE q > Len(x)
    <3>1. t[q].m = n + 1 /\ p \in 1 .. Len(x)
      BY <1>1, <1>4, <1>5, <2>2
    <3> QED
      BY <1>1, <1>2, <3>1
  <2> QED
    BY <1>1, <2>1, <2>2
<1>6. ASSUME NEW q \in 1 .. Len(t) PROVE t[q].m <= n + 1
  <2>1. CASE q <= Len(x)
    <3>1. t[q] = x[q] /\ x[q].m \in Nat /\ x[q].m <= n
      BY <1>1, <1>2, <2>1
    <3> QED
      BY <3>1
  <2>2. CASE q > Len(x)
    BY <1>4, <2>2
  <2> QED
    BY <1>1, <2>1, <2>2
<1>7. ASSUME NEW p \in 1 .. Len(out) PROVE out[p] <= n + 1
  BY SMTT(40), <1>3
<1>8. ASSUME NEW p \in 1 .. Len(out), NEW q \in 1 .. Len(t), t[q].i = 1
      PROVE  out[p] < t[q].m
  <2>1. CASE q <= Len(x)
    <3>1. q \in 1 .. Len(x) /\ t[q] = x[q]
      BY <1>1, <2>1
    <3> QED
      BY <1>8, <3>1 DEF Ordered
  <2>2. CASE q > Len(x)
    BY <1>3, <1>4, <2>2
  <2> QED
    BY <1>1, <2>1, <2>2
<1>9. Ordered(t, out, n + 1)
  BY <1>5, <1>6, <1>7, <1>8 DEF Ordered
<1> QED
  BY <1>9 DEF t

FramesInOrder == port = "cps" =>
  /\ output \in Seq(Nat)
  /\ muted <=> phase # "IDLE"
  /\ phase \in {"IDLE", "HANDSHAKE"} => owed = {}
  /\ phase = "TRANSFER" => owed \subseteq WholeFrames(buf)
  /\ Ordered(Join(buf, ring, line), output, sent)
  /\ \A p, q \in DOMAIN output : p < q => output[p] < output[q]

LEMMA FramesInit == ASSUME SerialInit PROVE FramesInOrder
<1>1. Join(<< >>, << >>, << >>) = << >>
  BY DEF Join
<1>2. << >> \in Seq(Nat) /\ Len(<< >>) = 0 /\ DOMAIN << >> = {}
  OBVIOUS
<1>3. Ordered(<< >>, << >>, 0)
  BY DEF Ordered
<1>4. port = "cps" => phase = "IDLE" /\ muted = FALSE
  BY DEF SerialInit
<1> QED
  BY <1>1, <1>2, <1>3, <1>4 DEF SerialInit, FramesInOrder

LEMMA EndBefore ==
  ASSUME NEW B, NEW s \in Seq(B), NEW c \in Seq(B), NEW l \in Seq(B), NEW k,
         IsEnd(c, s, k)
  PROVE  IsEnd(c \o l, s \o l, k)
<1>1. << >> \in Seq(B) /\ << >> \o s = s
  OBVIOUS
<1>2. IsEnd(c \o l, Join(<< >>, s, l), k)
  BY <1>1, JoinEnds
<1>3. Join(<< >>, s, l) = s \o l
  BY DEF Join
<1> QED
  BY <1>2, <1>3

(* A frame that is answered is of a later message than those before.       *)
LEMMA Answered ==
  ASSUME NEW s, NEW out \in Seq(Nat), NEW n \in Nat, Ordered(s, out, n),
         \A p, q \in DOMAIN out : p < q => out[p] < out[q],
         NEW j \in 1 .. Len(s), s[j].i = 1, s[j].m \in Nat,
         NEW t, NEW k, IsEnd(t, s, k), Ordered(t, out, n), j <= k
  PROVE  LET new == Append(out, s[j].m)
         IN /\ new \in Seq(Nat) /\ Ordered(t, new, n)
            /\ \A p, q \in DOMAIN new : p < q => new[p] < new[q]
<1> DEFINE m == s[j].m
<1> DEFINE new == Append(out, m)
<1>1. /\ new \in Seq(Nat) /\ Len(new) = Len(out) + 1 /\ Len(out) \in Nat
      /\ DOMAIN new = 1 .. Len(out) + 1 /\ DOMAIN out = 1 .. Len(out)
      /\ new[Len(out) + 1] = m /\ \A p \in 1 .. Len(out) : new[p] = out[p]
  OBVIOUS
<1>2. /\ m <= n /\ \A p \in 1 .. Len(out) : out[p] < m
      /\ \A q \in 1 .. Len(s) : j < q /\ s[q].i = 1 => m < s[q].m
  BY DEF Ordered
<1>3. \A q \in 1 .. Len(t) : t[q].i = 1 => m < t[q].m
  <2> TAKE q \in 1 .. Len(t)
  <2>1. t[q] = s[q + k] /\ q + k \in 1 .. Len(s) /\ j < q + k
    BY DEF IsEnd
  <2> QED
    BY <1>2, <2>1
<1> HIDE DEF new, m
<1>4. \A p \in DOMAIN new : p \in 1 .. Len(out) \/ p = Len(out) + 1
  BY <1>1
<1>5. ASSUME NEW p \in DOMAIN new, NEW q \in DOMAIN new, p < q PROVE new[p] < new[q]
  <2>1. CASE q \in 1 .. Len(out)
    <3>1. p \in 1 .. Len(out)
      BY <1>1, <1>5, <2>1
    <3> QED
      BY <1>1, <1>5, <2>1, <3>1
  <2>2. CASE q = Len(out) + 1
    <3>1. p \in 1 .. Len(out)
      BY <1>1, <1>5, <2>2
    <3> QED
      BY <1>1, <1>2, <2>2, <3>1
  <2> QED
    BY <1>4, <2>1, <2>2
<1>6. \A p \in 1 .. Len(new) : new[p] <= n
  BY <1>1, <1>2, <1>4 DEF Ordered
<1>7. \A p \in 1 .. Len(new), q \in 1 .. Len(t) : t[q].i = 1 => new[p] < t[q].m
  BY <1>1, <1>3, <1>4 DEF Ordered
<1>8. Ordered(t, new, n)
  BY <1>6, <1>7 DEF Ordered
<1> QED
  BY <1>1, <1>5, <1>8 DEF new, m

LEMMA FramesStep ==
  ASSUME SerialBytes, SerialStates, FramesInOrder, SerialNext
  PROVE  FramesInOrder'
<1> DEFINE B == GoodByte("cps")
<1> SUFFICES ASSUME port = "cps"
             PROVE  /\ output' \in Seq(Nat)
                    /\ muted' <=> phase' # "IDLE"
                    /\ phase' \in {"IDLE", "HANDSHAKE"} => owed' = {}
                    /\ phase' = "TRANSFER" => owed' \subseteq WholeFrames(buf')
                    /\ Ordered(Join(buf', ring', line'), output', sent')
                    /\ \A p, q \in DOMAIN output' : p < q => output'[p] < output'[q]
  BY SerialPortKept DEF FramesInOrder, Ordered, WholeFrames, WholeAt
<1>a. \A b \in B : b \in [m : Nat, i : Nat, v : Nat]
  BY DEF GoodByte
<1>c. /\ buf \in Seq(B) /\ ring \in Seq(B) /\ line \in Seq(B) /\ got \in Seq(B)
      /\ Len(ring) < RingSize /\ lost \in Nat /\ sent \in Nat /\ Len(buf) <= BufSize
  BY DEF SerialBytes
<1>d. /\ output \in Seq(Nat)
      /\ muted <=> phase # "IDLE"
      /\ phase \in {"IDLE", "HANDSHAKE"} => owed = {}
      /\ phase = "TRANSFER" => owed \subseteq WholeFrames(buf)
      /\ Ordered(Join(buf, ring, line), output, sent)
      /\ \A p, q \in DOMAIN output : p < q => output[p] < output[q]
  BY DEF FramesInOrder
<1> HIDE DEF B
<1> USE <1>c
<1> DEFINE J == Join(buf, ring, line)
<1>e. J \in Seq(B) /\ J = (buf \o ring) \o line /\ buf \o ring \in Seq(B)
  <2>1. J \in Seq(B)
    BY Joined
  <2>2. J = (buf \o ring) \o line
    BY ConcatAssociative DEF Join
  <2> QED
    BY <2>1, <2>2
<1>1. CASE SendMessage
  <2>1. /\ line = << >> /\ sent' = sent + 1
        /\ ring' = ring /\ buf' = buf /\ phase' = phase /\ output' = output
        /\ muted' = muted /\ owed' = owed
    BY <1>1 DEF SendMessage
  <2>2. PICK w \in Messages[port] : line' = MessageBytes(sent', w)
    BY <1>1 DEF SendMessage
  <2>3. sent' \in Nat \ {0}
    BY <2>1
  <2>4. line' \in Seq(B) /\ port \in Ports
    BY <2>2, <2>3, MessageIsGood DEF B, Ports
  <2>5. \A q \in 1 .. Len(line') : line'[q].m = sent + 1 /\ line'[q].i = q
    BY <2>1, <2>2, <2>3, <2>4, MessageInRow
  <2>6. J = buf \o ring
    BY <1>e, <2>1
  <2>7. \A q \in 1 .. Len(buf \o ring) : (buf \o ring)[q].m \in Nat
    <3>1. \A q \in 1 .. Len(buf \o ring) : (buf \o ring)[q] \in B
      BY <1>e
    <3> QED
      BY <1>a, <3>1
  <2>8. Ordered((buf \o ring) \o line', output, sent + 1)
    BY <1>d, <1>e, <2>4, <2>5, <2>6, <2>7, OrderedSent
  <2>9. (buf \o ring) \o line' = Join(buf, ring, line')
    BY <2>4, ConcatAssociative DEF Join
  <2> QED
    BY <1>d, <2>1, <2>8, <2>9
<1>2. CASE ReceiveByte
  <2>1. line # << >> /\ line' = Tail(line)
    BY <1>2 DEF ReceiveByte
  <2>2. Head(line) \in B /\ Tail(line) \in Seq(B)
    BY <2>1
  <2>3. PICK dropped \in BOOLEAN : Accept1(Head(line), dropped)
    BY <1>2 DEF ReceiveByte
  <2>4. /\ output' = output /\ phase' = phase /\ buf' = buf /\ sent' = sent
        /\ muted' = muted /\ owed' = owed
    BY <2>3 DEF Accept1
  <2>5. Ordered(Join(buf, ring', line'), output, sent)
    <3>1. CASE ring' = ring
      <4>1. Ordered((buf \o ring) \o Tail(line), output, sent)
        BY <1>d, <1>e, <2>1, OrderedLost
      <4>2. (buf \o ring) \o Tail(line) = Join(buf, ring, Tail(line))
        BY <2>2, ConcatAssociative DEF Join
      <4> QED
        BY <2>1, <3>1, <4>1, <4>2
    <3>2. CASE ring' = Append(ring, Head(line))
      <4>1. Join(buf, ring', line') = J
        BY <2>1, <3>2, JoinMoves
      <4> QED
        BY <1>d, <4>1
    <3> QED
      BY <2>2, <2>3, <3>1, <3>2, ByteAccepted
  <2> QED
    BY <1>d, <2>4, <2>5
<1>3. CASE ReceiveNoise
  <2>1. PICK v \in Noise : Accept1(Byte(0, 0, v), FALSE)
    BY <1>3 DEF ReceiveNoise
  <2> DEFINE b == Byte(0, 0, v)
  <2>2. b \in B /\ b.m = 0 /\ b.i = 0
    BY NoiseIsGood DEF B
  <2>3. /\ output' = output /\ phase' = phase /\ buf' = buf /\ sent' = sent
        /\ muted' = muted /\ owed' = owed /\ line' = line
    BY <1>3, <2>1 DEF ReceiveNoise, Accept1
  <2>4. ring' = ring \/ ring' = Append(ring, b)
    <3>1. FALSE \in BOOLEAN
      OBVIOUS
    <3> QED
      BY <2>1, <2>2, <3>1, ByteAccepted
  <2> HIDE DEF b
  <2>5. Ordered(Join(buf, ring', line), output, sent)
    <3>1. CASE ring' = ring
      BY <1>d, <3>1
    <3>2. CASE ring' = Append(ring, b)
      BY <1>d, <2>2, <3>2, OrderedJoin DEF B
    <3> QED
      BY <2>4, <3>1, <3>2
  <2> QED
    BY <1>d, <2>3, <2>5
<1>4. CASE cps_poll
  <2>1. /\ Drained.buf \in Seq(B) /\ Drained.ring \in Seq(B)
        /\ Len(Drained.buf) >= Len(buf) /\ \A q \in 1 .. Len(buf) : Drained.buf[q] = buf[q]
        /\ Drained.buf \o Drained.ring = buf \o ring
    BY DrainedSplits
  <2>2. ~parsing /\ ring' = Drained.ring /\ line' = line /\ output' = output /\ sent' = sent
    BY <1>4 DEF cps_poll, Wire
  <2>3. CASE CpsSession
    <3>1. /\ phase \in {"HANDSHAKE", "TRANSFER"} /\ phase' = "TRANSFER"
          /\ buf' = Drained.buf /\ owed' = owed \cup WholeFrames(buf') /\ muted' = muted
      BY <2>3 DEF CpsSession
    <3>2. WholeFrames(buf) \subseteq WholeFrames(Drained.buf)
      BY <2>1, FramesStay DEF B
    <3>3. owed' \subseteq WholeFrames(buf')
      BY <1>d, <3>1, <3>2
    <3>4. Join(buf', ring', line') = J
      <4>1. (Drained.buf \o Drained.ring) \o line = Drained.buf \o (Drained.ring \o line)
        <5> DEFINE x == Drained.buf
        <5> DEFINE y == Drained.ring
        <5>1. x \in Seq(B) /\ y \in Seq(B)
          BY <2>1
        <5> HIDE DEF x, y
        <5>2. (x \o y) \o line = x \o (y \o line)
          BY <5>1, ConcatAssociative
        <5> QED
          BY <5>2 DEF x, y
      <4> QED
        BY <1>e, <2>1, <2>2, <3>1, <4>1 DEF Join
    <3>5. muted' <=> phase' # "IDLE"
      BY <1>d, <3>1
    <3>6. Ordered(Join(buf', ring', line'), output', sent')
      BY <1>d, <2>2, <3>4
    <3> QED
      BY <1>d, <2>2, <3>1, <3>3, <3>5, <3>6
  <2>4. CASE CpsIdle \/ CpsDone
    <3>1. buf' = << >> /\ owed' = {}
      BY <1>d, <2>4 DEF CpsIdle, CpsDone
    <3>2. phase' \in {"IDLE", "HANDSHAKE"} /\ (muted' <=> phase' # "IDLE")
      <4>1. CASE CpsDone
        BY <4>1 DEF CpsDone
      <4>2. CASE CpsIdle
        <5>1. \/ phase' = "HANDSHAKE" /\ muted' = TRUE
              \/ phase = "IDLE" /\ phase' = phase /\ muted' = muted
          BY <4>2 DEF CpsIdle
        <5> QED
          BY <1>d, <5>1
      <4> QED
        BY <2>4, <4>1, <4>2
    <3>3. Join(buf', ring', line') = Drained.ring \o line
      <4>1. Drained.ring \o line \in Seq(B)
        BY <2>1
      <4> QED
        BY <2>2, <3>1, <4>1 DEF Join
    <3>4. IsEnd(Drained.ring, buf \o ring, Len(Drained.buf))
      <4> DEFINE x == Drained.buf
      <4> DEFINE y == Drained.ring
      <4>1. x \in Seq(B) /\ y \in Seq(B)
        BY <2>1
      <4> HIDE DEF x, y
      <4>2. IsEnd(y, x \o y, Len(x))
        BY <4>1 DEF IsEnd
      <4> QED
        BY <2>1, <4>2 DEF x, y
    <3>5. IsEnd(Drained.ring \o line, J, Len(Drained.buf))
      BY <2>1, <3>4, JoinEnds
    <3>6. Drained.ring \o line \in Seq(B)
      BY <2>1
    <3>7. Ordered(Drained.ring \o line, output, sent)
      <4> DEFINE t == Drained.ring \o line
      <4> DEFINE k == Len(Drained.buf)
      <4>1. IsEnd(t, J, k) /\ t \in Seq(B) /\ J \in Seq(B) /\ Ordered(J, output, sent)
        BY <1>d, <1>e, <3>5, <3>6
      <4> HIDE DEF t, k, J
      <4>2. Ordered(t, output, sent)
        BY <4>1, OrderedEnd
      <4> QED
        BY <4>2 DEF t
    <3> QED
      BY <1>d, <2>2, <3>1, <3>2, <3>3, <3>7
  <2> QED
    BY <1>4, <2>3, <2>4 DEF cps_poll
<1>5. CASE cps_try_parse_frame
  <2>1. /\ ring' = ring /\ line' = line /\ sent' = sent /\ muted' = muted
        /\ phase \in {"TRANSFER", "DONE"}
    BY <1>5 DEF cps_try_parse_frame, Wire, SerialStates
  <2>2. PICK b \in Seq(B), k \in 0 .. Len(buf) :
          /\ IsEnd(b, buf, k) /\ \A q \in 1 .. k : buf[q].v # HeaderByte
          /\ \/ buf' = b /\ StopParsing
             \/ /\ Complete(b) /\ WholeAt(b, 1)
                /\ buf' = SubSeq(b, FrameLength(b) + 1, Len(b))
                /\ Handle(b) /\ UNCHANGED parsing
             \/ /\ Complete(b) /\ ~WholeAt(b, 1)
                /\ buf' = Tail(b) /\ StopParsing
    BY <1>5, ParseDoes
  <2>3. WholeFrames(buf) \subseteq WholeFrames(b)
    BY <2>2, NoFrameSkipped DEF B
  <2> DEFINE rest == ring \o line
  <2>4. rest \in Seq(B) /\ J = buf \o rest /\ Join(buf', ring', line') = buf' \o rest
    BY <2>1 DEF Join
  <2> HIDE DEF rest, J
  <2>5. buf' \in Seq(B) /\ \E j \in 0 .. Len(buf) : IsEnd(buf', buf, j)
    BY <1>5, ParseLeaves DEF B
  <2>6. Ordered(buf' \o rest, output, sent)
    <3>1. PICK j : IsEnd(buf', buf, j)
      BY <2>5
    <3>2. IsEnd(buf' \o rest, buf \o rest, j)
      BY <2>4, <2>5, <3>1, EndBefore
    <3>3. buf' \o rest \in Seq(B) /\ buf \o rest \in Seq(B)
      BY <2>4, <2>5
    <3> QED
      BY <1>d, <2>4, <3>2, <3>3, OrderedEnd DEF J
  <2>7. CASE StopParsing /\ WholeFrames(b) \subseteq WholeFrames(buf')
    <3>1. output' = output /\ phase' = phase /\ owed' = owed
      BY <2>7 DEF StopParsing
    <3> QED
      BY <1>d, <2>1, <2>3, <2>4, <2>6, <2>7, <3>1
  <2>8. CASE /\ Complete(b) /\ WholeAt(b, 1)
             /\ buf' = SubSeq(b, FrameLength(b) + 1, Len(b))
             /\ Handle(b)
    <3>1. /\ output' = output \/ output' = Append(output, b[1].m)
          /\ phase' \in {phase, "DONE"} /\ owed' = owed \ {b[1].m}
      BY <2>8 DEF Handle
    <3>2. WholeFrames(b) \ {b[1].m} \subseteq WholeFrames(buf')
      BY <2>8, FrameTaken DEF B
    <3>3. phase' = "TRANSFER" => owed' \subseteq WholeFrames(buf')
      BY <1>d, <2>1, <2>3, <3>1, <3>2
    <3>4. /\ phase' \notin {"IDLE", "HANDSHAKE"}
          /\ muted' <=> phase' # "IDLE"
      BY <1>d, <2>1, <3>1
    <3>5. /\ Append(output, b[1].m) \in Seq(Nat)
          /\ Ordered(buf' \o rest, Append(output, b[1].m), sent)
          /\ \A p, q \in DOMAIN Append(output, b[1].m) :
               p < q => Append(output, b[1].m)[p] < Append(output, b[1].m)[q]
      <4> DEFINE n == FrameLength(b)
      <4> DEFINE s == buf \o rest
      <4> DEFINE t == buf' \o rest
      <4>1. n \in 1 .. Len(b)
        BY <2>8, CompleteLength DEF B
      <4>2. /\ b[1] = buf[k + 1] /\ k \in Nat /\ k + 1 \in 1 .. Len(buf)
            /\ Len(buf) \in Nat /\ Len(rest) \in Nat
        <5>1. 1 \in 1 .. Len(b) /\ Len(b) = Len(buf) - k /\ k \in 0 .. Len(buf)
          BY <2>2, <4>1 DEF IsEnd
        <5>2. b[1] = buf[1 + k]
          BY <2>2, <5>1 DEF IsEnd
        <5> QED
          BY <2>4, <5>1, <5>2
      <4>3. buf[k + 1].i = 1 /\ buf[k + 1].m \in Nat
        <5>1. buf[k + 1] \in B
          BY <4>2
        <5>2. b[1].i = 1
          BY <2>8 DEF WholeAt
        <5> QED
          BY <1>a, <4>2, <5>1, <5>2
      <4>4. s[k + 1] = buf[k + 1] /\ k + 1 \in 1 .. Len(s)
        BY <2>4, <4>2
      <4>5. IsEnd(t, s, k + n) /\ k + 1 <= k + n
        <5>1. n \in 0 .. Len(b) /\ k + 1 <= k + n
          BY <4>1, <4>2
        <5> HIDE DEF n
        <5>2. IsEnd(buf', b, n)
          BY <2>8, <5>1, EndOf DEF n
        <5>3. IsEnd(buf', buf, k + n)
          BY <2>2, <2>5, <5>2, EndOfEnd
        <5> QED
          BY <2>4, <2>5, <5>1, <5>3, EndBefore
      <4>6. Ordered(s, output, sent) /\ Ordered(t, output, sent)
        BY <1>d, <2>4, <2>6 DEF J
      <4> HIDE DEF n, s, t
      <4>7. s[k + 1].i = 1 /\ s[k + 1].m \in Nat /\ s[k + 1].m = b[1].m
        BY <4>2, <4>3, <4>4
      <4>8. LET new == Append(output, s[k + 1].m)
            IN /\ new \in Seq(Nat) /\ Ordered(t, new, sent)
               /\ \A p, q \in DOMAIN new : p < q => new[p] < new[q]
        BY <1>d, <4>4, <4>5, <4>6, <4>7, Answered
      <4> QED
        BY <4>7, <4>8 DEF t
    <3> QED
      BY <1>d, <2>4, <2>6, <2>1, <3>1, <3>3, <3>4, <3>5
  <2>9. Complete(b) /\ ~WholeAt(b, 1) => WholeFrames(b) \subseteq WholeFrames(Tail(b))
    BY CompleteLength, FirstSkipped DEF B
  <2> QED
    BY <2>2, <2>7, <2>8, <2>9
<1>6. CASE GpsByte \/ bt_poll
  BY <1>6 DEF GpsByte, bt_poll
<1> QED
  BY <1>1, <1>2, <1>3, <1>4, <1>5, <1>6 DEF SerialNext

SerialInv == SerialBytes /\ SerialStates /\ RelayInOrder /\ SentencesInOrder /\ FramesInOrder

LEMMA SerialInvInit == ASSUME SerialInit PROVE SerialInv
BY SerialBytesInit, RelayInit, SentencesInit, FramesInit DEF SerialInv

LEMMA SerialInvStep == ASSUME SerialInv, SerialNext PROVE SerialInv'
BY SerialBytesStep, SerialStatesStep, RelayStep, SentencesStep, FramesStep DEF SerialInv

LEMMA SerialInvImplies == ASSUME SerialInv PROVE SerialTypeOK /\ BytesKeepTheirOrder
<1>1. SerialTypeOK
  <2>1. port \in Ports /\ Len(ring) < RingSize /\ Len(buf) <= BufSize
    BY DEF SerialInv, SerialBytes
  <2>2. phase \in {"IDLE", "HANDSHAKE", "TRANSFER", "DONE", "CONNECTED", "CPS_RELAY",
                   "WAIT", "LINE"}
    BY <2>1 DEF SerialInv, SerialStates, Ports
  <2>3. /\ count \in 0 .. IF port = "bt" THEN IdleLimit ELSE 255
        /\ {parsing, muted} \subseteq BOOLEAN
    BY DEF SerialInv, SerialStates
  <2> QED
    BY <2>1, <2>2, <2>3 DEF SerialTypeOK
<1>2. WholeFramesAreHandled
  BY DEF SerialInv, FramesInOrder, WholeFramesAreHandled
<1>3. SentencesAreWhole
  BY DEF SerialInv, SentencesInOrder, SentencesAreWhole, FromStart
<1>4. RelayLosesNothing
  BY DEF SerialInv, RelayInOrder, RelayLosesNothing
<1> QED
  BY <1>1, <1>2, <1>3, <1>4 DEF BytesKeepTheirOrder

LEMMA SerialInvKept == ASSUME SerialInv, UNCHANGED serialVars PROVE SerialInv'
BY SMTT(40) DEF SerialInv, SerialBytes, SerialStates, RelayInOrder, SentencesInOrder, FramesInOrder,
       LineSoFar, InRow, FromStart, Ordered, WholeFrames, WholeAt, serialVars

-----------------------------------------------------------------------------
(* The GPS data. *)

GpsInv == GpsTypeOK /\ GpsShowsTheFix

(* Writing an angle and reading it gives its size, and a time itself.      *)
LEMMA AngleReadsBack ==
  ASSUME NEW a \in Int
  PROVE  nmea_to_degrees(Ddmm(a)) = Magnitude(a) /\ Ddmm(a) \in Nat
<1> DEFINE q == Magnitude(a) \div 60
<1> DEFINE r == Magnitude(a) % 60
<1>1. /\ Magnitude(a) \in Nat /\ q \in Nat /\ r \in 0 .. 59
      /\ Magnitude(a) = 60 * q + r
  BY DEF Magnitude
<1>2. Ddmm(a) = 100 * q + r
  BY DEF Ddmm
<1> HIDE DEF q, r
<1>3. (100 * q + r) \div 100 = q /\ (100 * q + r) % 100 = r
  BY <1>1
<1> QED
  BY <1>1, <1>2, <1>3 DEF nmea_to_degrees

LEMMA TimeReadsBack ==
  ASSUME NEW t \in (0 .. 23) \X (0 .. 59) \X (0 .. 59)
  PROVE  TimeOf(Hhmmss(t)) = t
<1> DEFINE h == t[1]
<1> DEFINE m == t[2]
<1> DEFINE s == t[3]
<1> DEFINE f == 10000 * h + 100 * m + s
<1>1. t = <<h, m, s>> /\ h \in 0 .. 23 /\ m \in 0 .. 59 /\ s \in 0 .. 59
  OBVIOUS
<1>2. Hhmmss(t) = f
  BY DEF Hhmmss
<1> HIDE DEF h, m, s
<1>3. f \div 10000 = h
  BY <1>1
<1>4. f \div 100 = 100 * h + m
  BY <1>1
<1>5. (100 * h + m) % 100 = m
  BY <1>1
<1>6. f % 100 = s
  BY <1>1
<1> HIDE DEF f
<1>7. TimeOf(f) = <<h, m, s>>
  BY <1>3, <1>4, <1>5, <1>6 DEF TimeOf
<1> QED
  BY <1>1, <1>2, <1>7

LEMMA GpsInvInit == ASSUME GpsInit PROVE GpsInv
BY DEF GpsInit, GpsInv, GpsTypeOK, GpsShowsTheFix, Maybe

(* What the fields of a sentence do to the position.                       *)
LEMMA AnglesRead ==
  ASSUME GpsTypeOK, NEW place \in Maybe(GpsPlaces), NEW at \in AngleFields(place),
         ReadAngles(at)
  PROVE  /\ place = <<>> => latitude' = latitude /\ longitude' = longitude
         /\ \A p \in GpsPlaces : place = <<p>> => latitude' = p.lat /\ longitude' = p.lon
<1>1. CASE place = <<>>
  <2>1. at.lat = <<>> /\ at.lon = <<>>
    <3>1. at \in AtNone
      BY <1>1 DEF AngleFields
    <3>2. PICK l \in {<<"", "">>, <<"S", "W">>} :
            at = [lat |-> <<>>, ns |-> l[1], lon |-> <<>>, ew |-> l[2]]
      BY <3>1 DEF AtNone
    <3> QED
      BY <3>2
  <2> QED
    BY <1>1, <2>1 DEF ReadAngles, Signed
<1>2. ASSUME NEW p \in GpsPlaces, place = <<p>>
      PROVE  latitude' = p.lat /\ longitude' = p.lon
  <2>1. p.lat \in Int /\ p.lon \in Int
    BY GpsAssumption
  <2>2. at = AtPlace(p)
    BY <1>2 DEF AngleFields
  <2>3. /\ at.lat = <<Ddmm(p.lat)>> /\ at.lon = <<Ddmm(p.lon)>>
        /\ at.ns = (IF p.lat < 0 THEN "S" ELSE "N")
        /\ at.ew = (IF p.lon < 0 THEN "W" ELSE "E")
    BY <2>2 DEF AtPlace
  <2>4. /\ nmea_to_degrees(Ddmm(p.lat)) = Magnitude(p.lat)
        /\ nmea_to_degrees(Ddmm(p.lon)) = Magnitude(p.lon)
    BY <2>1, AngleReadsBack
  <2>5. latitude' = IF at.ns = "S" THEN -Magnitude(p.lat) ELSE Magnitude(p.lat)
    BY <2>3, <2>4 DEF ReadAngles, Signed
  <2>6. longitude' = IF at.ew = "W" THEN -Magnitude(p.lon) ELSE Magnitude(p.lon)
    BY <2>3, <2>4 DEF ReadAngles, Signed
  <2>7. latitude' = p.lat
    BY <2>1, <2>3, <2>5 DEF Magnitude
  <2>8. longitude' = p.lon
    BY <2>1, <2>3, <2>6 DEF Magnitude
  <2> QED
    BY <2>7, <2>8
<1> QED
  BY <1>1, <1>2

LEMMA TimeRead ==
  ASSUME NEW time \in Maybe(GpsClocks), ReadTime(TimeField(time))
  PROVE  /\ time = <<>> => utc' = utc
         /\ time # <<>> => time = <<utc'>> /\ utc' \in Nat \X Nat \X Nat
<1>1. CASE time = <<>>
  BY <1>1 DEF ReadTime, TimeField
<1>2. ASSUME NEW t \in GpsClocks, time = <<t>>
      PROVE  time = <<utc'>> /\ utc' \in Nat \X Nat \X Nat
  <2>1. t \in (0 .. 23) \X (0 .. 59) \X (0 .. 59)
    BY GpsAssumption
  <2>2. TimeOf(Hhmmss(t)) = t
    BY <2>1, TimeReadsBack
  <2>3. utc' = t
    BY <1>2, <2>2 DEF ReadTime, TimeField
  <2> QED
    BY <1>2, <2>1, <2>3
<1> QED
  BY <1>1, <1>2 DEF Maybe

LEMMA GpsInvStep == ASSUME GpsInv, GpsNext PROVE GpsInv'
<1> USE DEF GpsInv
<1> PICK place \in Maybe(GpsPlaces), time \in Maybe(GpsClocks) :
      process_nmea(place, time)
  BY DEF GpsNext
<1> PICK at \in AngleFields(place) :
      \/ /\ \E q \in IF place = <<>> THEN {<<>>, <<0>>} ELSE {<<v>> : v \in Qualities} :
              parse_gga(TimeField(time), at, q, AltField(place))
         /\ Says(place, time, AltField(place))
      \/ /\ parse_rmc(TimeField(time), IF place = <<>> THEN "V" ELSE "A", at)
         /\ Says(place, time, <<>>)
  BY DEF process_nmea
<1>1. place = <<>> \/ \E p \in GpsPlaces : place = <<p>>
  BY DEF Maybe
<1>2. ReadTime(TimeField(time))
  BY DEF parse_gga, parse_rmc
<1>3. /\ utc' \in Nat \X Nat \X Nat
      /\ time = <<>> => utc' = utc
      /\ time # <<>> => time = <<utc'>>
  BY <1>2, TimeRead DEF GpsTypeOK
<1>4. /\ fix_quality' \in 0 .. 9
      /\ fix_quality' > 0 <=> place # <<>>
  <2>1. Qualities \subseteq 1 .. 9 /\ fix_quality \in 0 .. 9
    BY GpsAssumption DEF GpsTypeOK
  <2> DEFINE said == IF place = <<>> THEN {<<>>, <<0>>} ELSE {<<v>> : v \in Qualities}
  <2>2. ASSUME NEW q \in said,
               parse_gga(TimeField(time), at, q, AltField(place))
        PROVE  fix_quality' \in 0 .. 9 /\ (fix_quality' > 0 <=> place # <<>>)
    BY <2>1, <2>2 DEF parse_gga
  <2>3. CASE parse_rmc(TimeField(time), IF place = <<>> THEN "V" ELSE "A", at)
    BY <2>1, <2>3 DEF parse_rmc
  <2> QED
    BY <2>2, <2>3
<1>5. /\ place = <<>> => latitude' = latitude /\ longitude' = longitude
      /\ \A p \in GpsPlaces : place = <<p>> => latitude' = p.lat /\ longitude' = p.lon
  BY AnglesRead DEF parse_gga, parse_rmc
<1>6. PICK alt \in {<<>>, AltField(place)} :
        /\ Says(place, time, alt)
        /\ altitude' = IF alt = <<>> THEN altitude ELSE alt[1]
  BY DEF parse_gga, parse_rmc
<1>7. alt = <<>> \/ \E p \in GpsPlaces : place = <<p>> /\ alt = <<p.alt>>
  BY <1>1, <1>6 DEF AltField
<1>8. /\ reported'.fixed = (place # <<>>)
      /\ reported'.place = IF place = <<>> THEN reported.place ELSE place
      /\ reported'.alt = IF alt = <<>> THEN reported.alt ELSE alt
      /\ reported'.time = IF time = <<>> THEN reported.time ELSE time
  BY <1>6 DEF Says
<1>9. \A p \in GpsPlaces : p.lat \in Int /\ p.lon \in Int /\ p.alt \in Int
  BY GpsAssumption
<1>10. latitude' \in Int /\ longitude' \in Int
  BY <1>1, <1>5, <1>9 DEF GpsTypeOK
<1>11. altitude' \in Int /\ (reported'.alt # <<>> => reported'.alt = <<altitude'>>)
       /\ reported'.alt \in Maybe({p.alt : p \in GpsPlaces})
  BY <1>6, <1>7, <1>8, <1>9 DEF GpsTypeOK, GpsShowsTheFix, Maybe
<1>12. \A p \in GpsPlaces :
         reported'.place = <<p>> => latitude' = p.lat /\ longitude' = p.lon
  BY <1>1, <1>5, <1>8 DEF GpsShowsTheFix
<1>13. reported'.place \in Maybe(GpsPlaces) /\ reported'.time \in Maybe(GpsClocks)
  BY <1>8 DEF GpsTypeOK
<1>14. reported'.time # <<>> => reported'.time = <<utc'>>
  BY <1>3, <1>8 DEF GpsShowsTheFix
<1>15. reported'.fixed \in BOOLEAN /\ (fix_quality' > 0 <=> reported'.fixed)
  BY <1>4, <1>8
<1> QED
  BY <1>3, <1>4, <1>10, <1>11, <1>12, <1>13, <1>14, <1>15 DEF GpsTypeOK, GpsShowsTheFix

LEMMA GpsInvKept == ASSUME GpsInv, UNCHANGED gpsVars PROVE GpsInv'
BY DEF GpsInv, GpsTypeOK, GpsShowsTheFix, gpsVars

-----------------------------------------------------------------------------
(* The broadcast receivers. *)

ChipFuncs == {"FM", "AM", "WB"}
ChipStates == [func : ChipFuncs \cup {"OFF"}, freq : Int, filter : Int, mode : Int,
               bfo : Int]
Commands ==
  [op : {"UP"}, func : ChipFuncs] \cup [op : {"DOWN"}]
    \cup [op : {"TUNE"}, func : ChipFuncs, freq : Int]
    \cup [op : {"SET"}, prop : {"filter", "mode", "bfo"}, val : Int]
    \cup [op : {"STATUS"}]

LEMMA CommandTypes ==
  /\ \A f \in ChipFuncs : UpFor(f) \in Commands
  /\ PowerDown \in Commands /\ TuneStatus \in Commands
  /\ \A f \in ChipFuncs, x \in Int : Tune(f, x) \in Commands
  /\ \A p \in {"filter", "mode", "bfo"}, x \in Int : SetProperty(p, x) \in Commands
BY DEF Commands, UpFor, PowerDown, TuneStatus, Tune, SetProperty

(* What the chip does with each command.                                   *)
LEMMA ObeyRules ==
  ASSUME NEW c
  PROVE  /\ \A f : Obey(c, UpFor(f)) = IF c.func = "OFF" THEN [ChipOff EXCEPT !.func = f] ELSE c
         /\ Obey(c, PowerDown) = ChipOff
         /\ \A f, x : Obey(c, Tune(f, x)) = IF c.func = f THEN [c EXCEPT !.freq = x] ELSE c
         /\ \A p, x : Obey(c, SetProperty(p, x)) =
                        IF c.func = "OFF" THEN c ELSE [c EXCEPT ![p] = x]
         /\ Obey(c, TuneStatus) = c
<1>1. \A f : Obey(c, UpFor(f)) = IF c.func = "OFF" THEN [ChipOff EXCEPT !.func = f] ELSE c
  BY DEF Obey, UpFor
<1>2. Obey(c, PowerDown) = ChipOff
  BY DEF Obey, PowerDown
<1>3. \A f, x : Obey(c, Tune(f, x)) = IF c.func = f THEN [c EXCEPT !.freq = x] ELSE c
  BY DEF Obey, Tune
<1>4. \A p, x : Obey(c, SetProperty(p, x)) = IF c.func = "OFF" THEN c ELSE [c EXCEPT ![p] = x]
  BY DEF Obey, SetProperty
<1>5. Obey(c, TuneStatus) = c
  BY DEF Obey, TuneStatus
<1> QED
  BY <1>1, <1>2, <1>3, <1>4, <1>5

LEMMA ChipOffState == ChipOff \in ChipStates /\ ChipOff.func = "OFF"
BY DEF ChipOff, ChipStates

LEMMA ObeyTypes ==
  ASSUME NEW c \in ChipStates, NEW cmd \in Commands
  PROVE  Obey(c, cmd) \in ChipStates
<1>1. \A f \in ChipFuncs : [ChipOff EXCEPT !.func = f] \in ChipStates
  <2>1. \A e \in ChipStates, f \in ChipFuncs : [e EXCEPT !.func = f] \in ChipStates
    BY DEF ChipStates
  <2> QED
    BY <2>1, ChipOffState
<1>2. CASE cmd \in [op : {"UP"}, func : ChipFuncs]
  BY <1>1, <1>2 DEF Obey
<1>3. CASE cmd \in [op : {"DOWN"}]
  BY <1>3, ChipOffState DEF Obey
<1>4. CASE cmd \in [op : {"TUNE"}, func : ChipFuncs, freq : Int]
  <2>1. \A x \in Int : [c EXCEPT !.freq = x] \in ChipStates
    BY DEF ChipStates
  <2> QED
    BY <1>4, <2>1 DEF Obey
<1>5. CASE cmd \in [op : {"SET"}, prop : {"filter", "mode", "bfo"}, val : Int]
  <2>1. \A x \in Int : /\ [c EXCEPT !.filter = x] \in ChipStates
                       /\ [c EXCEPT !.mode = x] \in ChipStates
                       /\ [c EXCEPT !.bfo = x] \in ChipStates
    BY DEF ChipStates
  <2>2. cmd.prop \in {"filter", "mode", "bfo"} /\ cmd.val \in Int /\ cmd.op = "SET"
    BY <1>5
  <2>3. Obey(c, cmd) = IF c.func = "OFF" THEN c ELSE [c EXCEPT ![cmd.prop] = cmd.val]
    BY <2>2 DEF Obey
  <2> QED
    BY <2>1, <2>2, <2>3
<1>6. CASE cmd \in [op : {"STATUS"}]
  BY <1>6 DEF Obey
<1> QED
  BY <1>2, <1>3, <1>4, <1>5, <1>6 DEF Commands

(* The states the chip goes through.                                       *)
Runs(c, cmds, after) ==
  /\ after \in [0 .. Len(cmds) -> ChipStates] /\ after[0] = c
  /\ \A n \in 1 .. Len(cmds) : after[n] = Obey(after[n - 1], cmds[n])

LEMMA ChipRuns ==
  ASSUME NEW c \in ChipStates, NEW cmds \in Seq(Commands)
  PROVE  \E after : Runs(c, cmds, after) /\ AfterAll(c, cmds) = after[Len(cmds)]
<1> DEFINE L == Len(cmds)
           Body(g) == [n \in 0 .. L |-> IF n = 0 THEN c ELSE Obey(g[n - 1], cmds[n])]
           step == [p \in (1 .. L) \X ChipStates |-> Obey(p[2], cmds[p[1]])]
           v == CHOOSE g : g = Body(g)
<1>1. L \in Nat /\ \A n \in 1 .. L : cmds[n] \in Commands
  OBVIOUS
<1>2. AfterAll(c, cmds) = v[L]
  BY DEF AfterAll
<1> HIDE DEF L
<1>3. step \in [(1 .. L) \X ChipStates -> ChipStates]
  <2> SUFFICES ASSUME NEW n \in 1 .. L, NEW x \in ChipStates
               PROVE  Obey(x, cmds[n]) \in ChipStates
    OBVIOUS
  <2> QED
    BY <1>1, ObeyTypes
<1>4. \A n \in 1 .. L, x \in ChipStates : step[<<n, x>>] = Obey(x, cmds[n])
  OBVIOUS
<1> HIDE DEF step
<1>5. PICK f : UnfoldsTo(L, f, ChipStates, c, step)
  BY <1>1, <1>3, BoundedRecursion
<1>6. ASSUME NEW n \in 0 .. L PROVE f[n] = IF n = 0 THEN c ELSE Obey(f[n - 1], cmds[n])
  <2>1. CASE n = 0
    BY <1>5, <2>1 DEF UnfoldsTo
  <2>2. CASE n # 0
    <3>1. n \in 1 .. L /\ n - 1 \in 0 .. L
      BY <1>1, <2>2
    <3>2. f[n - 1] \in ChipStates /\ f[n] = step[<<n, f[n - 1]>>]
      BY <1>5, <3>1 DEF UnfoldsTo
    <3> QED
      BY <1>4, <2>2, <3>1, <3>2
  <2> QED
    BY <2>1, <2>2
<1>7. f = Body(f)
  <2>1. f = [n \in 0 .. L |-> f[n]]
    BY <1>5 DEF UnfoldsTo
  <2> QED
    BY <1>6, <2>1
<1>8. v = Body(v)
  <2> HIDE DEF Body
  <2> QED
    BY <1>7
<1> HIDE DEF v
<1>9. DOMAIN v = 0 .. L /\ v = [n \in 0 .. L |-> v[n]]
  BY <1>8
<1>10. v[0] = c
  BY <1>1, <1>8
<1>11. \A n \in 1 .. L : v[n] = Obey(v[n - 1], cmds[n])
  BY <1>1, <1>8
<1>12. \A n \in 0 .. L : v[n] \in ChipStates
  <2> DEFINE S == {n \in 0 .. L : v[n] \in ChipStates}
  <2>1. 0 \in S
    BY <1>1, <1>10
  <2>2. ASSUME NEW n \in 1 .. L, n - 1 \in S PROVE n \in S
    BY <1>1, <1>11, <2>2, ObeyTypes
  <2> HIDE DEF S
  <2>3. 0 .. L \subseteq S
    BY <1>1, <2>1, <2>2, Climb
  <2> QED
    BY <2>3 DEF S
<1>13. Runs(c, cmds, v)
  BY <1>9, <1>10, <1>11, <1>12 DEF Runs, L
<1> QED
  BY <1>2, <1>13 DEF L

LEMMA RunIsUnique ==
  ASSUME NEW c, NEW cmds \in Seq(Commands), NEW f, NEW g, Runs(c, cmds, f), Runs(c, cmds, g)
  PROVE  f[Len(cmds)] = g[Len(cmds)]
<1> DEFINE L == Len(cmds)
           S == {n \in 0 .. L : f[n] = g[n]}
<1>1. L \in Nat
  OBVIOUS
<1>2. f[0] = g[0] /\ \A n \in 1 .. L : f[n] = Obey(f[n - 1], cmds[n]) /\ g[n] = Obey(g[n - 1], cmds[n])
  BY DEF Runs
<1> HIDE DEF L
<1>3. 0 \in S
  BY <1>1, <1>2
<1>4. ASSUME NEW n \in 1 .. L, n - 1 \in S PROVE n \in S
  BY <1>1, <1>2, <1>4
<1> HIDE DEF S
<1>5. 0 .. L \subseteq S
  BY <1>1, <1>3, <1>4, Climb
<1> QED
  BY <1>1, <1>5 DEF S, L

LEMMA RunEnds ==
  ASSUME NEW c \in ChipStates, NEW cmds \in Seq(Commands), NEW f, Runs(c, cmds, f)
  PROVE  AfterAll(c, cmds) = f[Len(cmds)]
<1>1. PICK after : Runs(c, cmds, after) /\ AfterAll(c, cmds) = after[Len(cmds)]
  BY ChipRuns
<1> QED
  BY <1>1, RunIsUnique

LEMMA AfterTypes ==
  ASSUME NEW c \in ChipStates, NEW cmds \in Seq(Commands)
  PROVE  AfterAll(c, cmds) \in ChipStates
<1>1. PICK after : Runs(c, cmds, after) /\ AfterAll(c, cmds) = after[Len(cmds)]
  BY ChipRuns
<1>2. Len(cmds) \in 0 .. Len(cmds)
  OBVIOUS
<1> QED
  BY <1>1, <1>2 DEF Runs

LEMMA AfterConcat ==
  ASSUME NEW c \in ChipStates, NEW s \in Seq(Commands), NEW t \in Seq(Commands)
  PROVE  AfterAll(c, s \o t) = AfterAll(AfterAll(c, s), t)
<1> DEFINE L == Len(s)
           M == Len(t)
           u == s \o t
           d == AfterAll(c, s)
<1>1. L \in Nat /\ M \in Nat /\ u \in Seq(Commands) /\ Len(u) = L + M
  OBVIOUS
<1>2. /\ \A n \in 1 .. L : u[n] = s[n]
      /\ \A n \in 1 .. L + M : n > L => u[n] = t[n - L]
  OBVIOUS
<1>3. d \in ChipStates
  BY AfterTypes
<1>4. PICK f : Runs(c, s, f) /\ d = f[L]
  BY ChipRuns
<1>5. PICK g : Runs(d, t, g) /\ AfterAll(d, t) = g[M]
  BY <1>3, ChipRuns
<1>6. /\ f \in [0 .. L -> ChipStates] /\ f[0] = c
      /\ \A n \in 1 .. L : f[n] = Obey(f[n - 1], s[n])
  BY <1>4 DEF Runs
<1>7. /\ g \in [0 .. M -> ChipStates] /\ g[0] = d
      /\ \A n \in 1 .. M : g[n] = Obey(g[n - 1], t[n])
  BY <1>5 DEF Runs
<1> HIDE DEF L, M, u, d
<1> DEFINE h == [n \in 0 .. L + M |-> IF n <= L THEN f[n] ELSE g[n - L]]
<1>8. \A n \in 0 .. L + M : h[n] = IF n <= L THEN f[n] ELSE g[n - L]
  OBVIOUS
<1>9. h \in [0 .. L + M -> ChipStates]
  <2> SUFFICES ASSUME NEW n \in 0 .. L + M
               PROVE  (IF n <= L THEN f[n] ELSE g[n - L]) \in ChipStates
    OBVIOUS
  <2>1. CASE n <= L
    BY <1>1, <1>6, <2>1
  <2>2. CASE ~(n <= L)
    <3>1. n - L \in 0 .. M
      BY <1>1, <2>2
    <3> QED
      BY <1>7, <2>2, <3>1
  <2> QED
    BY <2>1, <2>2
<1> HIDE DEF h
<1>10. h[0] = c
  BY <1>1, <1>6, <1>8
<1>11. ASSUME NEW n \in 1 .. L + M PROVE h[n] = Obey(h[n - 1], u[n])
  <2>1. n \in 0 .. L + M /\ n - 1 \in 0 .. L + M
    BY <1>1
  <2>2. CASE n <= L
    <3>1. n \in 1 .. L /\ n - 1 <= L
      BY <1>1, <2>2
    <3> QED
      BY <1>2, <1>6, <1>8, <2>1, <2>2, <3>1
  <2>3. CASE n = L + 1
    <3>1. 1 \in 1 .. M /\ n - L = 1 /\ n - 1 = L /\ n > L /\ ~(n <= L) /\ L <= L
      BY <1>1, <2>3
    <3>2. h[n] = g[1] /\ h[n - 1] = f[L] /\ u[n] = t[1]
      BY <1>2, <1>8, <2>1, <3>1
    <3>3. g[1] = Obey(g[1 - 1], t[1])
      BY <1>7, <3>1
    <3> QED
      BY <1>4, <1>7, <3>2, <3>3
  <2>4. CASE n > L + 1
    <3>1. n - L \in 1 .. M /\ (n - L) - 1 = (n - 1) - L /\ n > L /\ ~(n <= L) /\ ~(n - 1 <= L)
      BY <1>1, <2>4
    <3>2. h[n] = g[n - L] /\ h[n - 1] = g[(n - 1) - L] /\ u[n] = t[n - L]
      BY <1>2, <1>8, <2>1, <3>1
    <3> QED
      BY <1>7, <3>1, <3>2
  <2> QED
    BY <1>1, <2>2, <2>3, <2>4
<1>12. Runs(c, u, h)
  BY <1>1, <1>9, <1>10, <1>11 DEF Runs
<1>13. AfterAll(c, u) = h[L + M]
  BY <1>1, <1>12, RunEnds
<1>14. h[L + M] = g[M]
  <2>1. CASE M = 0
    BY <1>1, <1>4, <1>7, <1>8, <2>1
  <2>2. CASE M # 0
    <3>1. ~(L + M <= L) /\ (L + M) - L = M /\ L + M \in 0 .. L + M
      BY <1>1, <2>2
    <3> QED
      BY <1>8, <3>1
  <2> QED
    BY <2>1, <2>2
<1> QED
  BY <1>5, <1>13, <1>14 DEF u, d

LEMMA AfterFew ==
  ASSUME NEW c \in ChipStates
  PROVE  /\ AfterAll(c, << >>) = c
         /\ \A x \in Commands : AfterAll(c, <<x>>) = Obey(c, x)
         /\ \A x, y \in Commands : AfterAll(c, <<x, y>>) = Obey(Obey(c, x), y)
         /\ \A x, y, z \in Commands :
              AfterAll(c, <<x, y, z>>) = Obey(Obey(Obey(c, x), y), z)
<1>1. AfterAll(c, << >>) = c
  <2>1. << >> \in Seq(Commands) /\ Len(<< >>) = 0
    OBVIOUS
  <2>2. PICK f : Runs(c, << >>, f) /\ AfterAll(c, << >>) = f[0]
    BY <2>1, ChipRuns
  <2> QED
    BY <2>2 DEF Runs
<1>2. ASSUME NEW x \in Commands PROVE AfterAll(c, <<x>>) = Obey(c, x)
  <2> DEFINE s == <<x>>
  <2>1. s \in Seq(Commands) /\ Len(s) = 1 /\ s[1] = x
    OBVIOUS
  <2> HIDE DEF s
  <2>2. PICK f : Runs(c, s, f) /\ AfterAll(c, s) = f[1]
    BY <2>1, ChipRuns
  <2>3. f[0] = c /\ f[1] = Obey(f[0], s[1])
    BY <2>1, <2>2 DEF Runs
  <2> QED
    BY <2>1, <2>2, <2>3 DEF s
<1>3. ASSUME NEW x \in Commands, NEW y \in Commands
      PROVE  AfterAll(c, <<x, y>>) = Obey(Obey(c, x), y)
  <2> DEFINE s == <<x, y>>
  <2>1. s \in Seq(Commands) /\ Len(s) = 2 /\ s[1] = x /\ s[2] = y
    OBVIOUS
  <2> HIDE DEF s
  <2>2. PICK f : Runs(c, s, f) /\ AfterAll(c, s) = f[2]
    BY <2>1, ChipRuns
  <2>3. f[0] = c /\ f[1] = Obey(f[1 - 1], s[1]) /\ f[2] = Obey(f[2 - 1], s[2])
    BY <2>1, <2>2 DEF Runs
  <2> QED
    BY <2>1, <2>2, <2>3 DEF s
<1>4. ASSUME NEW x \in Commands, NEW y \in Commands, NEW z \in Commands
      PROVE  AfterAll(c, <<x, y, z>>) = Obey(Obey(Obey(c, x), y), z)
  <2> DEFINE s == <<x, y, z>>
  <2>1. s \in Seq(Commands) /\ Len(s) = 3 /\ s[1] = x /\ s[2] = y /\ s[3] = z
    OBVIOUS
  <2> HIDE DEF s
  <2>2. PICK f : Runs(c, s, f) /\ AfterAll(c, s) = f[3]
    BY <2>1, ChipRuns
  <2>3. f[0] = c /\ f[1] = Obey(f[1 - 1], s[1]) /\ f[2] = Obey(f[2 - 1], s[2])
        /\ f[3] = Obey(f[3 - 1], s[3])
    BY <2>1, <2>2 DEF Runs
  <2> QED
    BY <2>1, <2>2, <2>3 DEF s
<1> QED
  BY <1>1, <1>2, <1>3, <1>4

LEMMA UpEffect ==
  ASSUME NEW c \in ChipStates, NEW f \in ChipFuncs, c.func = "OFF"
  PROVE  Obey(c, UpFor(f)) \in ChipStates /\ Obey(c, UpFor(f)).func = f
<1>1. Obey(c, UpFor(f)) = [ChipOff EXCEPT !.func = f]
  BY ObeyRules
<1>2. \A e \in ChipStates : [e EXCEPT !.func = f].func = f
  BY DEF ChipStates
<1>3. Obey(c, UpFor(f)) \in ChipStates
  BY CommandTypes, ObeyTypes
<1> QED
  BY <1>1, <1>2, <1>3, ChipOffState

LEMMA TuneEffect ==
  ASSUME NEW f \in ChipFuncs, NEW c \in ChipStates, c.func = f, NEW x \in Int, NEW d,
         d = Obey(c, Tune(f, x))
  PROVE  /\ d \in ChipStates /\ d.func = f /\ d.freq = x
         /\ d.filter = c.filter /\ d.mode = c.mode /\ d.bfo = c.bfo
<1>1. d = [c EXCEPT !.freq = x]
  BY ObeyRules
<1> QED
  BY <1>1 DEF ChipStates

LEMMA FilterSet ==
  ASSUME NEW c \in ChipStates, c.func = "AM", NEW x \in Int, NEW d,
         d = Obey(c, SetProperty("filter", x))
  PROVE  /\ d \in ChipStates /\ d.func = "AM" /\ d.freq = c.freq
         /\ d.filter = x /\ d.mode = c.mode /\ d.bfo = c.bfo
<1>1. d = [c EXCEPT !.filter = x]
  BY ObeyRules
<1> QED
  BY <1>1 DEF ChipStates

LEMMA ModeSet ==
  ASSUME NEW c \in ChipStates, c.func = "AM", NEW x \in Int, NEW d,
         d = Obey(c, SetProperty("mode", x))
  PROVE  /\ d \in ChipStates /\ d.func = "AM" /\ d.freq = c.freq
         /\ d.filter = c.filter /\ d.mode = x /\ d.bfo = c.bfo
<1>1. d = [c EXCEPT !.mode = x]
  BY ObeyRules
<1> QED
  BY <1>1 DEF ChipStates

LEMMA BfoSet ==
  ASSUME NEW c \in ChipStates, c.func = "AM", NEW x \in Int, NEW d,
         d = Obey(c, SetProperty("bfo", x))
  PROVE  /\ d \in ChipStates /\ d.func = "AM" /\ d.freq = c.freq
         /\ d.filter = c.filter /\ d.mode = c.mode /\ d.bfo = x
<1>1. d = [c EXCEPT !.bfo = x]
  BY ObeyRules
<1> QED
  BY <1>1 DEF ChipStates

(* The receivers.  What a chip does that agrees with each.                 *)
FmStates == [on : BOOLEAN, freq : 0 .. FmMax, presets : [Slots -> Nat], active : Slots,
             heard : Nat]
FmRecords == [magic : {TRUE}, freq : Nat, presets : [Slots -> Nat], active : Slots]
AmStates == [on : BOOLEAN, band : Bands, freq : Int, step : Nat, filter : 1 .. Filters,
             side : {LSB, USB}, bfo : -BfoMax .. BfoMax, edit : BOOLEAN, patched : BOOLEAN,
             heard : Int]
InBand(a) == /\ a.freq \in AmBands[a.band].min .. AmBands[a.band].max
             /\ a.step \in 1 .. Len(AmBands[a.band].steps)
NoaaStates == [on : BOOLEAN, channel : 0 .. NoaaChannels - 1, triggered : BOOLEAN]

FmAgrees(c, f) == c.func = "FM" /\ c.freq = f.freq /\ (Waits \/ f.heard = f.freq)
AmAgrees(c, a) ==
  /\ c.func = "AM" /\ c.freq = a.freq /\ (Waits \/ a.heard = a.freq)
  /\ c.filter = a.filter
  /\ a.patched <=> a.band = "SSB"
  /\ a.patched => c.mode = a.side /\ c.bfo = a.bfo
NoaaAgrees(c, n) == c.func = "WB" /\ c.freq = NoaaWord(n.channel)

NoneOn == ~fm.on /\ ~am.on /\ ~noaa.on
ChipShows ==
  /\ NoneOn => chip = ChipOff
  /\ ~overlapped => /\ fm.on => FmAgrees(chip, fm)
                    /\ am.on => AmAgrees(chip, am)
                    /\ noaa.on => NoaaAgrees(chip, noaa)

ReceiverTypes ==
  /\ chip \in ChipStates
  /\ fm \in FmStates /\ (fm_record = NoRecord \/ fm_record \in FmRecords)
  /\ am \in AmStates /\ InBand(am)
  /\ noaa \in NoaaStates
OneIsOn == ~overlapped => /\ ~(fm.on /\ am.on) /\ ~(fm.on /\ noaa.on)
                          /\ ~(am.on /\ noaa.on)
BroadcastInv == /\ ReceiverTypes /\ OneIsOn
                /\ ~failed => ChipShows
                /\ OneAlert

LEMMA ShownIsTold == ChipIsToldWhatIsShown <=> (~failed => ChipShows)
BY DEF ChipIsToldWhatIsShown, ChipShows, NoneOn, FmAgrees, AmAgrees, NoaaAgrees

LEMMA TalkResult ==
  ASSUME NEW cmds \in Seq(Commands), NEW bad, NEW refused, chip \in ChipStates,
         Talk(cmds, bad, refused)
  PROVE  /\ chip' \in ChipStates /\ part' = part
         /\ ~failed' => /\ bad \notin DOMAIN cmds /\ chip' = AfterAll(chip, cmds)
                        /\ ~failed \/ (NoneOn /\ chip = ChipOff)
<1> DEFINE rest == RemoveAt(cmds, bad)
           obeyed == IF bad \in DOMAIN cmds /\ refused THEN rest ELSE cmds
<1>1. bad \in DOMAIN cmds => rest \in Seq(Commands)
  BY DEF RemoveAt
<1>2. obeyed \in Seq(Commands)
  BY <1>1
<1>3. chip' = AfterAll(chip, obeyed)
  BY DEF Talk
<1>4. chip' \in ChipStates
  <2> HIDE DEF obeyed
  <2> QED
    BY <1>2, <1>3, AfterTypes
<1>5. ~failed' => bad \notin DOMAIN cmds /\ (~failed \/ (NoneOn /\ chip = ChipOff))
  BY DEF Talk, NoneOn
<1>6. bad \notin DOMAIN cmds => chip' = AfterAll(chip, cmds)
  BY <1>3
<1>7. part' = part
  BY DEF Talk
<1> QED
  BY <1>4, <1>5, <1>6, <1>7

(* A receiver that is on and stays on talks to the chip.                   *)
LEMMA StillShown ==
  ASSUME BroadcastInv, NEW cmds \in Seq(Commands), NEW bad, NEW refused,
         Talk(cmds, bad, refused), ~NoneOn, overlapped' = overlapped,
         fm'.on = fm.on, am'.on = am.on, noaa'.on = noaa.on,
         bad \notin DOMAIN cmds =>
           /\ fm.on /\ FmAgrees(chip, fm) /\ ~am.on /\ ~noaa.on
              => FmAgrees(AfterAll(chip, cmds), fm')
           /\ am.on /\ AmAgrees(chip, am) /\ ~fm.on /\ ~noaa.on
              => AmAgrees(AfterAll(chip, cmds), am')
           /\ noaa.on /\ NoaaAgrees(chip, noaa) /\ ~fm.on /\ ~am.on
              => NoaaAgrees(AfterAll(chip, cmds), noaa')
  PROVE  chip' \in ChipStates /\ OneIsOn' /\ (~failed' => ChipShows')
<1>1. chip \in ChipStates /\ OneIsOn /\ (~failed => ChipShows)
  BY DEF BroadcastInv, ReceiverTypes
<1>2. chip' \in ChipStates
  BY <1>1, TalkResult
<1>3. OneIsOn'
  BY <1>1 DEF OneIsOn
<1>4. ASSUME ~failed' PROVE ChipShows'
  <2>1. bad \notin DOMAIN cmds /\ chip' = AfterAll(chip, cmds) /\ ~failed
    BY <1>1, <1>4, TalkResult
  <2>2. ChipShows
    BY <1>1, <2>1
  <2>3. Waits' = Waits
    BY <1>1, TalkResult DEF Waits, PatchBoot
  <2> QED
    BY <1>1, <2>1, <2>2, <2>3
    DEF ChipShows, OneIsOn, NoneOn, FmAgrees, AmAgrees, NoaaAgrees
<1> QED
  BY <1>2, <1>3, <1>4

(* A receiver goes off, or a poll ends.                                    *)
LEMMA SwitchedOff ==
  ASSUME BroadcastInv, NEW cmds \in Seq(Commands), NEW bad, NEW refused,
         Talk(cmds, bad, refused), ~overlapped' => NoneOn',
         bad \notin DOMAIN cmds => AfterAll(chip, cmds) = ChipOff
  PROVE  chip' \in ChipStates /\ OneIsOn' /\ (~failed' => ChipShows')
<1>1. chip \in ChipStates
  BY DEF BroadcastInv, ReceiverTypes
<1>2. chip' \in ChipStates
  BY <1>1, TalkResult
<1>3. OneIsOn'
  BY DEF OneIsOn, NoneOn
<1>4. ASSUME ~failed' PROVE ChipShows'
  <2>1. chip' = ChipOff
    BY <1>1, <1>4, TalkResult
  <2> QED
    BY <2>1 DEF ChipShows, NoneOn
<1> QED
  BY <1>2, <1>3, <1>4

(* A receiver comes on.                                                    *)
LEMMA SwitchedOn ==
  ASSUME BroadcastInv, NEW cmds \in Seq(Commands), NEW bad, NEW refused,
         Talk(cmds, bad, refused), ~NoneOn', OneIsOn', ~overlapped' => NoneOn,
         NoneOn /\ bad \notin DOMAIN cmds =>
           LET d == AfterAll(ChipOff, cmds)
           IN /\ fm'.on => FmAgrees(d, fm')
              /\ am'.on => AmAgrees(d, am')
              /\ noaa'.on => NoaaAgrees(d, noaa')
  PROVE  chip' \in ChipStates /\ (~failed' => ChipShows')
<1>1. chip \in ChipStates /\ (~failed => ChipShows)
  BY DEF BroadcastInv, ReceiverTypes
<1>2. chip' \in ChipStates
  BY <1>1, TalkResult
<1>3. ASSUME ~failed' PROVE ChipShows'
  <2>1. bad \notin DOMAIN cmds /\ chip' = AfterAll(chip, cmds)
        /\ (~failed \/ (NoneOn /\ chip = ChipOff))
    BY <1>1, <1>3, TalkResult
  <2>2. NoneOn => chip = ChipOff
    BY <1>1, <2>1 DEF ChipShows
  <2>3. Waits' = Waits
    BY <1>1, TalkResult DEF Waits, PatchBoot
  <2> QED
    BY <2>1, <2>2, <2>3 DEF ChipShows, NoneOn, FmAgrees, AmAgrees, NoaaAgrees
<1> QED
  BY <1>2, <1>3

LEMMA BroadcastNats ==
  /\ FmMin \in Nat /\ FmMax \in Nat /\ FmStep \in Nat /\ FmDefault \in 0 .. FmMax
  /\ 0 < FmStep /\ FmStep <= FmMin /\ FmMin <= FmMax
  /\ PresetSlots \in Nat \ {0} /\ NoaaChannels \in Nat \ {0} /\ Filters \in Nat \ {0}
  /\ BfoMax \in Nat
  /\ 0 \in Slots /\ 0 \in 0 .. FmMax /\ 0 \in 0 .. NoaaChannels - 1 /\ 1 \in 1 .. Filters
  /\ 0 \in -BfoMax .. BfoMax
BY BroadcastAssumption DEF Slots

LEMMA BandNats ==
  ASSUME NEW b \in Bands
  PROVE  /\ AmBands[b].min \in Int /\ AmBands[b].max \in Int
         /\ AmBands[b].default \in AmBands[b].min .. AmBands[b].max
         /\ AmBands[b].min \in AmBands[b].min .. AmBands[b].max
         /\ AmBands[b].max \in AmBands[b].min .. AmBands[b].max
         /\ AmBands[b].steps \in Seq(Int) /\ 1 \in 1 .. Len(AmBands[b].steps)
<1>1. /\ AmBands[b].min \in Int /\ AmBands[b].max \in Int
      /\ AmBands[b].default \in AmBands[b].min .. AmBands[b].max
      /\ AmBands[b].steps \in Seq(Int) /\ AmBands[b].steps # << >>
  BY BroadcastAssumption
<1> DEFINE s == AmBands[b].steps
<1>2. s \in Seq(Int) /\ s # << >>
  BY <1>1
<1> HIDE DEF s
<1>3. 1 \in 1 .. Len(s)
  BY <1>2
<1> QED
  BY <1>1, <1>3 DEF s

(* What is sent and what the chip then does.                               *)
LEMMA PowerDownSent ==
  /\ <<PowerDown>> \in Seq(Commands)
  /\ \A c \in ChipStates : AfterAll(c, <<PowerDown>>) = ChipOff
<1>1. <<PowerDown>> \in Seq(Commands)
  BY CommandTypes
<1>2. ASSUME NEW c \in ChipStates PROVE AfterAll(c, <<PowerDown>>) = ChipOff
  BY CommandTypes, AfterFew, ObeyRules
<1> QED
  BY <1>1, <1>2

LEMMA TuneSent ==
  ASSUME NEW f \in ChipFuncs, NEW x \in Int, NEW cmds, cmds = <<Tune(f, x), TuneStatus>>
  PROVE  /\ cmds \in Seq(Commands) /\ Len(cmds) = 2 /\ 2 \in DOMAIN cmds
         /\ \A c \in ChipStates : AfterAll(c, cmds) = Obey(c, Tune(f, x))
<1>1. Tune(f, x) \in Commands /\ TuneStatus \in Commands
  BY CommandTypes
<1>2. cmds \in Seq(Commands) /\ Len(cmds) = 2 /\ 2 \in DOMAIN cmds
  BY <1>1
<1>3. ASSUME NEW c \in ChipStates PROVE AfterAll(c, cmds) = Obey(c, Tune(f, x))
  <2>1. AfterAll(c, cmds) = Obey(Obey(c, Tune(f, x)), TuneStatus)
    BY <1>1, AfterFew
  <2> QED
    BY <2>1, ObeyRules
<1> QED
  BY <1>2, <1>3

LEMMA FmRecordKept ==
  ASSUME fm' \in FmStates
  PROVE  FmRecord \in FmRecords
BY BroadcastNats DEF FmStates, FmRecord, FmRecords

LEMMA FmEnters == ASSUME BroadcastInv, fm_radio_enter PROVE BroadcastInv'
<1> DEFINE cmds == <<UpFor("FM"), Tune("FM", fm.freq), TuneStatus>>
<1>1. PICK f \in Faults : /\ Talk(cmds, f[1], f[2])
                          /\ fm' = [fm EXCEPT !.on = TRUE,
                                              !.heard = Heard(@, fm.freq, cmds, f[1])]
  BY DEF fm_radio_enter
<1>2. ReceiverTypes /\ OneIsOn /\ OneAlert
  BY DEF BroadcastInv
<1>3. fm.freq \in Nat /\ fm.freq \in Int /\ "FM" \in ChipFuncs
  BY <1>2, BroadcastNats DEF ReceiverTypes, FmStates, ChipFuncs
<1>4. UpFor("FM") \in Commands /\ Tune("FM", fm.freq) \in Commands /\ TuneStatus \in Commands
  BY <1>3, CommandTypes
<1>5. cmds \in Seq(Commands) /\ Len(cmds) = 3 /\ 3 \in DOMAIN cmds
  BY <1>4
<1>6. AfterAll(ChipOff, cmds) = Obey(Obey(ChipOff, UpFor("FM")), Tune("FM", fm.freq))
  <2>1. AfterAll(ChipOff, cmds)
        = Obey(Obey(Obey(ChipOff, UpFor("FM")), Tune("FM", fm.freq)), TuneStatus)
    BY <1>4, AfterFew, ChipOffState
  <2> QED
    BY <2>1, ObeyRules
<1>7. AfterAll(ChipOff, cmds).func = "FM" /\ AfterAll(ChipOff, cmds).freq = fm.freq
  <2> DEFINE u == Obey(ChipOff, UpFor("FM"))
             d == AfterAll(ChipOff, cmds)
  <2>1. u \in ChipStates /\ u.func = "FM"
    BY <1>3, ChipOffState, UpEffect
  <2>2. d = Obey(u, Tune("FM", fm.freq))
    BY <1>6
  <2> HIDE DEF u, d
  <2>3. d.func = "FM" /\ d.freq = fm.freq
    BY <1>3, <2>1, <2>2, TuneEffect
  <2> QED
    BY <2>3 DEF d
<1> HIDE DEF cmds
<1>8. /\ fm' \in FmStates /\ fm'.on /\ fm'.freq = fm.freq
      /\ f[1] \notin DOMAIN cmds => Waits \/ fm'.heard = fm.freq
  BY <1>1, <1>2, <1>3, <1>5 DEF ReceiverTypes, FmStates, Heard
<1>9. /\ UNCHANGED <<am, noaa, fm_record, beeps>>
      /\ overlapped' = ((overlapped /\ (fm.on \/ am.on \/ noaa.on)) \/ (am.on \/ noaa.on))
      /\ ~fm.on
  BY DEF fm_radio_enter, Overlap
<1>10. OneIsOn' /\ (~overlapped' => NoneOn) /\ ~NoneOn'
  BY <1>2, <1>8, <1>9 DEF OneIsOn, NoneOn
<1>11. NoneOn /\ f[1] \notin DOMAIN cmds =>
         LET d == AfterAll(ChipOff, cmds)
         IN /\ fm'.on => FmAgrees(d, fm')
            /\ am'.on => AmAgrees(d, am')
            /\ noaa'.on => NoaaAgrees(d, noaa')
  BY <1>7, <1>8, <1>9 DEF NoneOn, FmAgrees
<1>12. chip' \in ChipStates /\ (~failed' => ChipShows')
  BY <1>1, <1>5, <1>10, <1>11, SwitchedOn
<1> QED
  BY <1>2, <1>8, <1>9, <1>10, <1>12 DEF BroadcastInv, ReceiverTypes, OneAlert

LEMMA FmExits == ASSUME BroadcastInv, fm_radio_exit PROVE BroadcastInv'
<1>1. PICK f \in Faults : Talk(<<PowerDown>>, f[1], f[2])
  BY DEF fm_radio_exit
<1>2. ReceiverTypes /\ OneIsOn /\ OneAlert
  BY DEF BroadcastInv
<1>3. /\ fm.on /\ fm' = [fm EXCEPT !.on = FALSE]
      /\ UNCHANGED <<am, noaa, overlapped, beeps>> /\ fm_record' = FmRecord
  BY DEF fm_radio_exit, FmKeeps, fm_radio_persist
<1>4. fm' \in FmStates /\ ~fm'.on
  BY <1>2, <1>3 DEF ReceiverTypes, FmStates
<1>5. fm_record' \in FmRecords
  BY <1>3, <1>4, FmRecordKept
<1>6. ~overlapped' => NoneOn'
  BY <1>2, <1>3, <1>4 DEF OneIsOn, NoneOn
<1>7. chip \in ChipStates
  BY <1>2 DEF ReceiverTypes
<1>8. chip' \in ChipStates /\ OneIsOn' /\ (~failed' => ChipShows')
  BY <1>1, <1>6, <1>7, PowerDownSent, SwitchedOff
<1> QED
  BY <1>2, <1>3, <1>4, <1>5, <1>8 DEF BroadcastInv, ReceiverTypes, OneAlert

(* The receiver is on another frequency.                                   *)
LEMMA FmRetuned ==
  ASSUME BroadcastInv, fm.on, NEW cmds \in Seq(Commands), NEW bad, NEW refused,
         Talk(cmds, bad, refused), UNCHANGED fm_record, FmKeeps, fm' \in FmStates, fm'.on,
         bad \notin DOMAIN cmds => Waits \/ fm'.heard = fm'.freq,
         \A c \in ChipStates : c.func = "FM" =>
           AfterAll(c, cmds).func = "FM" /\ AfterAll(c, cmds).freq = fm'.freq
  PROVE  BroadcastInv'
<1>1. ReceiverTypes /\ OneAlert
  BY DEF BroadcastInv
<1>2. UNCHANGED <<am, noaa, overlapped, beeps>>
  BY DEF FmKeeps
<1>3. chip' \in ChipStates /\ OneIsOn' /\ (~failed' => ChipShows')
  <2>1. bad \notin DOMAIN cmds =>
          /\ fm.on /\ FmAgrees(chip, fm) /\ ~am.on /\ ~noaa.on
             => FmAgrees(AfterAll(chip, cmds), fm')
          /\ am.on /\ AmAgrees(chip, am) /\ ~fm.on /\ ~noaa.on
             => AmAgrees(AfterAll(chip, cmds), am')
          /\ noaa.on /\ NoaaAgrees(chip, noaa) /\ ~fm.on /\ ~am.on
             => NoaaAgrees(AfterAll(chip, cmds), noaa')
    BY <1>1 DEF FmAgrees, ReceiverTypes
  <2>2. /\ ~NoneOn /\ overlapped' = overlapped
        /\ fm'.on = fm.on /\ am'.on = am.on /\ noaa'.on = noaa.on
    BY <1>1, <1>2 DEF NoneOn, ReceiverTypes, FmStates
  <2> QED
    BY <2>1, <2>2, StillShown
<1> QED
  BY <1>1, <1>2, <1>3 DEF BroadcastInv, ReceiverTypes, OneAlert

LEMMA FmTuned ==
  ASSUME BroadcastInv, fm.on, NEW freq \in FmMin .. FmMax, NEW s \in Slots, NEW f \in Faults,
         Talk(<<Tune("FM", freq), TuneStatus>>, f[1], f[2]), UNCHANGED fm_record, FmKeeps,
         fm' = [fm EXCEPT !.active = s, !.freq = freq,
                          !.heard = Heard(@, freq, <<Tune("FM", freq), TuneStatus>>, f[1])]
  PROVE  BroadcastInv'
<1> DEFINE cmds == <<Tune("FM", freq), TuneStatus>>
<1>1. ReceiverTypes
  BY DEF BroadcastInv
<1>2. freq \in Int /\ freq \in 0 .. FmMax /\ freq \in Nat /\ "FM" \in ChipFuncs
  BY BroadcastNats DEF ChipFuncs
<1>3. /\ cmds \in Seq(Commands) /\ Len(cmds) = 2 /\ 2 \in DOMAIN cmds
      /\ \A c \in ChipStates : AfterAll(c, cmds) = Obey(c, Tune("FM", freq))
  BY <1>2, TuneSent
<1>4. ASSUME NEW c \in ChipStates, c.func = "FM"
      PROVE  AfterAll(c, cmds).func = "FM" /\ AfterAll(c, cmds).freq = freq
  BY <1>2, <1>3, <1>4, TuneEffect
<1> HIDE DEF cmds
<1>5. /\ fm' \in FmStates /\ fm'.on /\ fm'.freq = freq
      /\ f[1] \notin DOMAIN cmds => Waits \/ fm'.heard = freq
  BY <1>1, <1>2, <1>3 DEF ReceiverTypes, FmStates, Heard, cmds
<1>6. Talk(cmds, f[1], f[2])
  BY DEF cmds
<1> QED
  BY <1>3, <1>4, <1>5, <1>6, FmRetuned

LEMMA FmSteps == ASSUME BroadcastInv, fm_radio_tune_step PROVE BroadcastInv'
<1>1. fm.on /\ UNCHANGED fm_record /\ FmKeeps
  BY DEF fm_radio_tune_step
<1>2. fm \in FmStates
  BY DEF BroadcastInv, ReceiverTypes
<1>3. PICK d \in {1, -1} :
        LET freq == fm.freq + d * FmStep
        IN FmTune(IF freq > FmMax THEN FmMin ELSE IF freq < FmMin THEN FmMax ELSE freq)
  BY DEF fm_radio_tune_step
<1> DEFINE to == fm.freq + d * FmStep
           freq == IF to > FmMax THEN FmMin ELSE IF to < FmMin THEN FmMax ELSE to
<1>4. to \in Int
  BY <1>2, BroadcastNats DEF FmStates
<1>5. FmTune(freq)
  BY <1>3
<1>6. freq \in FmMin .. FmMax
  <2> HIDE DEF to
  <2> QED
    BY <1>4, BroadcastNats
<1> HIDE DEF freq
<1>7. PICK f \in Faults :
        /\ Talk(<<Tune("FM", freq), TuneStatus>>, f[1], f[2])
        /\ fm' = [fm EXCEPT !.freq = freq,
                            !.heard = Heard(@, freq, <<Tune("FM", freq), TuneStatus>>, f[1])]
  BY <1>5 DEF FmTune
<1>8. fm.active \in Slots
  BY <1>2 DEF FmStates
<1>9. fm' = [fm EXCEPT !.active = fm.active, !.freq = freq,
                       !.heard = Heard(@, freq, <<Tune("FM", freq), TuneStatus>>, f[1])]
  BY <1>2, <1>7 DEF FmStates
<1> QED
  BY <1>1, <1>6, <1>7, <1>8, <1>9, FmTuned

LEMMA FmLoads == ASSUME BroadcastInv, fm_radio_load_preset PROVE BroadcastInv'
<1>1. fm.on /\ UNCHANGED fm_record /\ FmKeeps
  BY DEF fm_radio_load_preset
<1>2. fm \in FmStates
  BY DEF BroadcastInv, ReceiverTypes
<1>3. PICK s \in Slots :
        LET p == fm.presets[s]
            freq == IF p < FmMin THEN FmMin ELSE IF p > FmMax THEN FmMax ELSE p
            cmds == <<Tune("FM", freq), TuneStatus>>
        IN \E f \in Faults :
             /\ Talk(cmds, f[1], f[2])
             /\ fm' = [fm EXCEPT !.active = s, !.freq = freq,
                                 !.heard = Heard(@, freq, cmds, f[1])]
  BY DEF fm_radio_load_preset
<1> DEFINE p == fm.presets[s]
           freq == IF p < FmMin THEN FmMin ELSE IF p > FmMax THEN FmMax ELSE p
<1>4. p \in Nat
  BY <1>2 DEF FmStates
<1>5. PICK f \in Faults :
        /\ Talk(<<Tune("FM", freq), TuneStatus>>, f[1], f[2])
        /\ fm' = [fm EXCEPT !.active = s, !.freq = freq,
                            !.heard = Heard(@, freq, <<Tune("FM", freq), TuneStatus>>, f[1])]
  BY <1>3
<1>6. freq \in FmMin .. FmMax
  <2> HIDE DEF p
  <2> QED
    BY <1>4, BroadcastNats
<1> HIDE DEF freq
<1> QED
  BY <1>1, <1>5, <1>6, FmTuned

LEMMA FmKeepsPlaying ==
  ASSUME BroadcastInv, fm.on, UNCHANGED <<chip, part, failed>>, FmKeeps, fm' \in FmStates, fm'.on,
         fm'.freq = fm.freq, fm'.heard = fm.heard, fm_record' = fm_record \/ fm_record' \in FmRecords
  PROVE  BroadcastInv'
<1>1. Waits' = Waits
  BY DEF Waits, PatchBoot
<1> QED
  BY <1>1 DEF BroadcastInv, ReceiverTypes, OneIsOn, ChipShows, NoneOn, OneAlert, FmAgrees, FmKeeps

LEMMA FmSaves == ASSUME BroadcastInv, fm_radio_save_preset \/ FmNextSlot PROVE BroadcastInv'
<1>1. fm.on /\ fm \in FmStates
  BY DEF BroadcastInv, ReceiverTypes, fm_radio_save_preset, FmNextSlot
<1>2. CASE fm_radio_save_preset
  <2>1. /\ UNCHANGED <<chip, part, failed>> /\ FmKeeps /\ fm_record' = FmRecord
        /\ fm' = [fm EXCEPT !.presets[fm.active] = fm.freq]
    BY <1>2 DEF fm_radio_save_preset, fm_radio_persist
  <2>2. fm' \in FmStates /\ fm'.on /\ fm'.freq = fm.freq /\ fm'.heard = fm.heard
    BY <1>1, <2>1, BroadcastNats DEF FmStates
  <2>3. fm_record' \in FmRecords
    BY <2>1, <2>2, FmRecordKept
  <2> QED
    BY <1>1, <2>1, <2>2, <2>3, FmKeepsPlaying
<1>3. CASE FmNextSlot
  <2>1. /\ UNCHANGED <<chip, part, failed, fm_record>> /\ FmKeeps
        /\ fm' = [fm EXCEPT !.active = (@ + 1) % PresetSlots]
    BY <1>3 DEF FmNextSlot
  <2>2. fm.active \in Nat
    BY <1>1, BroadcastNats DEF FmStates, Slots
  <2>3. (fm.active + 1) % PresetSlots \in Slots
    <3> DEFINE a == fm.active
    <3>1. a \in Nat
      BY <2>2
    <3> HIDE DEF a
    <3> QED
      BY <3>1, BroadcastNats DEF Slots, a
  <2>4. fm' \in FmStates /\ fm'.on /\ fm'.freq = fm.freq /\ fm'.heard = fm.heard
    BY <1>1, <2>1, <2>3 DEF FmStates
  <2> QED
    BY <1>1, <2>1, <2>4, FmKeepsPlaying
<1> QED
  BY <1>2, <1>3

LEMMA SeekNextInBand ==
  ASSUME NEW x \in 0 .. FmMax, NEW d \in {1, -1}
  PROVE  SeekNext(x, d) \in 0 .. FmMax
BY BroadcastNats DEF SeekNext

LEMMA SeekPathInBand ==
  ASSUME fm.freq \in 0 .. FmMax, NEW d \in {1, -1}
  PROVE  SeekPath(d) \in Seq(0 .. FmMax)
<1> DEFINE L == (FmMax - FmMin) \div FmStep
           X == 0 .. FmMax
           Body(g) == [n \in 0 .. L |-> IF n = 0 THEN fm.freq ELSE SeekNext(g[n - 1], d)]
           step == [p \in (1 .. L) \X X |-> SeekNext(p[2], d)]
           v == CHOOSE g : g = Body(g)
<1>1. L \in Nat
  <2> DEFINE w == FmMax - FmMin
  <2>1. w \in Nat /\ FmStep \in Nat \ {0}
    BY BroadcastNats
  <2> HIDE DEF w
  <2>2. w \div FmStep \in Nat
    BY <2>1, DivMod
  <2> QED
    BY <2>2 DEF w
<1>2. SeekPath(d) = [n \in 1 .. L |-> v[n]]
  BY DEF SeekPath
<1> HIDE DEF L, X
<1>3. step \in [(1 .. L) \X X -> X]
  <2> SUFFICES ASSUME NEW n \in 1 .. L, NEW x \in X PROVE SeekNext(x, d) \in X
    OBVIOUS
  <2> QED
    BY SeekNextInBand DEF X
<1>4. \A n \in 1 .. L, x \in X : step[<<n, x>>] = SeekNext(x, d)
  OBVIOUS
<1> HIDE DEF step
<1>5. fm.freq \in X
  BY DEF X
<1>6. PICK f : UnfoldsTo(L, f, X, fm.freq, step)
  BY <1>1, <1>3, <1>5, BoundedRecursion
<1>7. ASSUME NEW n \in 0 .. L
      PROVE  f[n] = IF n = 0 THEN fm.freq ELSE SeekNext(f[n - 1], d)
  <2>1. CASE n = 0
    BY <1>6, <2>1 DEF UnfoldsTo
  <2>2. CASE n # 0
    <3>1. n \in 1 .. L /\ n - 1 \in 0 .. L
      BY <1>1, <2>2
    <3>2. f[n - 1] \in X /\ f[n] = step[<<n, f[n - 1]>>]
      BY <1>6, <3>1 DEF UnfoldsTo
    <3> QED
      BY <1>4, <2>2, <3>1, <3>2
  <2> QED
    BY <2>1, <2>2
<1>8. f = Body(f)
  <2>1. f = [n \in 0 .. L |-> f[n]]
    BY <1>6 DEF UnfoldsTo
  <2> QED
    BY <1>7, <2>1
<1>9. v = Body(v)
  <2> HIDE DEF Body
  <2> QED
    BY <1>8
<1> HIDE DEF v
<1>10. v[0] = fm.freq /\ \A n \in 1 .. L : v[n] = SeekNext(v[n - 1], d)
  BY <1>1, <1>9
<1>11. \A n \in 0 .. L : v[n] \in X
  <2> DEFINE S == {n \in 0 .. L : v[n] \in X}
  <2>1. 0 \in S
    BY <1>1, <1>5, <1>10
  <2>2. ASSUME NEW n \in 1 .. L, n - 1 \in S PROVE n \in S
    BY <1>1, <1>10, <2>2, SeekNextInBand DEF X
  <2> HIDE DEF S
  <2>3. 0 .. L \subseteq S
    BY <1>1, <2>1, <2>2, Climb
  <2> QED
    BY <2>3 DEF S
<1>12. [n \in 1 .. L |-> v[n]] \in Seq(X)
  BY <1>1, <1>11
<1> QED
  BY <1>2, <1>12 DEF X

(* A row of tunes leaves the chip at the last.                             *)
LEMMA TunesSent ==
  ASSUME NEW route, NEW last \in Nat, \A n \in 1 .. last : route[n] \in Nat
  PROVE  LET row == [n \in 1 .. last |-> Tune("FM", route[n])]
         IN /\ row \in Seq(Commands) /\ Len(row) = last
            /\ \A c \in ChipStates : c.func = "FM" =>
                 /\ AfterAll(c, row) \in ChipStates /\ AfterAll(c, row).func = "FM"
                 /\ last > 0 => AfterAll(c, row).freq = route[last]
<1> DEFINE row == [n \in 1 .. last |-> Tune("FM", route[n])]
<1>1. "FM" \in ChipFuncs
  BY DEF ChipFuncs
<1>2. \A n \in 1 .. last : Tune("FM", route[n]) \in Commands
  BY <1>1, CommandTypes
<1>3. row \in Seq(Commands) /\ Len(row) = last /\ \A n \in 1 .. last : row[n] = Tune("FM", route[n])
  BY <1>2
<1> HIDE DEF row
<1>4. ASSUME NEW c \in ChipStates, c.func = "FM"
      PROVE  /\ AfterAll(c, row) \in ChipStates /\ AfterAll(c, row).func = "FM"
             /\ last > 0 => AfterAll(c, row).freq = route[last]
  <2>1. PICK f : Runs(c, row, f) /\ AfterAll(c, row) = f[last]
    BY <1>3, ChipRuns
  <2>2. /\ f[0] = c /\ \A n \in 0 .. last : f[n] \in ChipStates
        /\ \A n \in 1 .. last : f[n] = Obey(f[n - 1], Tune("FM", route[n]))
    BY <1>3, <2>1 DEF Runs
  <2> DEFINE S == {n \in 0 .. last : f[n].func = "FM" /\ (n > 0 => f[n].freq = route[n])}
  <2>3. 0 \in S
    BY <1>4, <2>2
  <2>4. ASSUME NEW n \in 1 .. last, n - 1 \in S PROVE n \in S
    <3>1. f[n - 1].func = "FM" /\ f[n - 1] \in ChipStates /\ n \in 0 .. last
      BY <2>2, <2>4
    <3>2. f[n].func = "FM" /\ f[n].freq = route[n]
      <4> DEFINE e == f[n - 1]
                 g == f[n]
                 x == route[n]
      <4>1. e \in ChipStates /\ e.func = "FM" /\ x \in Int /\ g = Obey(e, Tune("FM", x))
        BY <2>2, <3>1
      <4> HIDE DEF e, g, x
      <4>2. g.func = "FM" /\ g.freq = x
        BY <1>1, <4>1, TuneEffect
      <4> QED
        BY <4>2 DEF g, x
    <3> QED
      BY <3>1, <3>2
  <2> HIDE DEF S
  <2>5. last \in S
    <3>1. 0 .. last \subseteq S
      BY <2>3, <2>4, Climb
    <3> QED
      BY <3>1
  <2> QED
    BY <2>1, <2>2, <2>5 DEF S
<1> QED
  BY <1>3, <1>4 DEF row

LEMMA FmSeeks == ASSUME BroadcastInv, fm_radio_seek PROVE BroadcastInv'
<1>1. fm.on /\ UNCHANGED fm_record /\ FmKeeps
  BY DEF fm_radio_seek
<1>2. fm \in FmStates /\ fm.freq \in 0 .. FmMax
  BY DEF BroadcastInv, ReceiverTypes, FmStates
<1>3. PICK d \in {1, -1}, stations \in StationSets, f \in Faults :
        LET route == SeekPath(d)
            unread == IF f[1] = 0 THEN 0 ELSE f[1]
            found == {n \in DOMAIN route : route[n] \in stations /\ n # unread /\ ~Waits}
            last == IF found = {} THEN Len(route)
                    ELSE CHOOSE n \in found : \A m \in found : n <= m
            path_tunes == [n \in 1 .. last |-> Tune("FM", route[n])]
        IN IF found # {}
           THEN /\ Talk(path_tunes, unread, f[2])
                /\ fm' = [fm EXCEPT !.freq = route[last], !.heard = route[last]]
           ELSE LET cmds == path_tunes \o <<Tune("FM", fm.freq), TuneStatus>>
                IN /\ Talk(cmds, unread, f[2])
                   /\ fm' = [fm EXCEPT !.heard = Heard(@, fm.freq, cmds, unread)]
  BY DEF fm_radio_seek
<1> DEFINE route == SeekPath(d)
           unread == IF f[1] = 0 THEN 0 ELSE f[1]
           found == {n \in DOMAIN route : route[n] \in stations /\ n # unread /\ ~Waits}
           last == IF found = {} THEN Len(route)
                   ELSE CHOOSE n \in found : \A m \in found : n <= m
           row == [n \in 1 .. last |-> Tune("FM", route[n])]
           back == <<Tune("FM", fm.freq), TuneStatus>>
           cmds == row \o back
<1>4. route \in Seq(0 .. FmMax)
  BY <1>2, SeekPathInBand
<1>5. IF found # {}
      THEN /\ Talk(row, unread, f[2])
           /\ fm' = [fm EXCEPT !.freq = route[last], !.heard = route[last]]
      ELSE /\ Talk(cmds, unread, f[2])
           /\ fm' = [fm EXCEPT !.heard = Heard(@, fm.freq, cmds, unread)]
  BY <1>3
<1> HIDE DEF route, unread, back, cmds, row
<1>6. Len(route) \in Nat /\ DOMAIN route = 1 .. Len(route)
      /\ \A n \in 1 .. Len(route) : route[n] \in 0 .. FmMax
  <2>1. \A X : \A s \in Seq(X) : /\ Len(s) \in Nat /\ DOMAIN s = 1 .. Len(s)
                                /\ \A n \in 1 .. Len(s) : s[n] \in X
    OBVIOUS
  <2> QED
    BY <1>4, <2>1
<1>7. found # {} => last \in 1 .. Len(route)
  <2> DEFINE first == CHOOSE n \in found : \A m \in found : n <= m
  <2>1. found \subseteq 1 .. Len(route) /\ found \subseteq Nat
    BY <1>6
  <2>2. ASSUME found # {} PROVE first \in found
    <3> HIDE DEF found
    <3>1. \E k \in found : \A j \in found : k <= j
      BY <2>1, <2>2, LeastNatural
    <3> QED
      BY <3>1
  <2> HIDE DEF found
  <2>3. found # {} => last = first
    OBVIOUS
  <2> HIDE DEF first, last
  <2> QED
    BY <2>1, <2>2, <2>3
<1>8. last \in Nat /\ last <= Len(route)
  <2>1. found = {} => last = Len(route)
    OBVIOUS
  <2> HIDE DEF last, found
  <2> QED
    BY <1>6, <1>7, <2>1
<1> HIDE DEF last, found
<1>9. \A n \in 1 .. last : route[n] \in Nat
  BY <1>6, <1>8, BroadcastNats
<1>10. /\ row \in Seq(Commands) /\ Len(row) = last
       /\ \A c \in ChipStates : c.func = "FM" =>
            /\ AfterAll(c, row) \in ChipStates /\ AfterAll(c, row).func = "FM"
            /\ last > 0 => AfterAll(c, row).freq = route[last]
  BY <1>8, <1>9, TunesSent DEF row
<1>11. CASE found # {}
  <2>1. fm' = [fm EXCEPT !.freq = route[last], !.heard = route[last]] /\ Talk(row, unread, f[2])
    BY <1>5, <1>11
  <2>2. route[last] \in 0 .. FmMax /\ route[last] \in Nat /\ last > 0
    BY <1>6, <1>7, <1>9, <1>11
  <2>3. fm' \in FmStates /\ fm'.on /\ fm'.freq = route[last] /\ fm'.heard = fm'.freq
    BY <1>1, <1>2, <2>1, <2>2 DEF FmStates
  <2>4. \A c \in ChipStates : c.func = "FM" =>
          AfterAll(c, row).func = "FM" /\ AfterAll(c, row).freq = fm'.freq
    BY <1>10, <2>2, <2>3
  <2> QED
    BY <1>1, <1>10, <2>1, <2>3, <2>4, FmRetuned
<1>12. CASE found = {}
  <2>1. fm' = [fm EXCEPT !.heard = Heard(@, fm.freq, cmds, unread)] /\ Talk(cmds, unread, f[2])
    BY <1>5, <1>12
  <2>2. fm.freq \in Int /\ fm.freq \in Nat /\ fm.heard \in Nat /\ "FM" \in ChipFuncs
    BY <1>2, BroadcastNats DEF ChipFuncs, FmStates
  <2>3. /\ back \in Seq(Commands) /\ Len(back) = 2
        /\ \A c \in ChipStates : AfterAll(c, back) = Obey(c, Tune("FM", fm.freq))
    BY <2>2, TuneSent DEF back
  <2>4. cmds \in Seq(Commands) /\ Len(cmds) \in DOMAIN cmds
    <3>1. cmds \in Seq(Commands) /\ Len(cmds) = last + 2
      <4>1. row \in Seq(Commands) /\ Len(row) = last
        BY <1>10
      <4>2. back \in Seq(Commands) /\ Len(back) = 2
        BY <2>3
      <4>3. row \o back \in Seq(Commands) /\ Len(row \o back) = Len(row) + Len(back)
        BY <4>1, <4>2, ConcatProperties, Zenon
      <4> QED
        BY <4>1, <4>2, <4>3, Zenon DEF cmds
    <3> HIDE DEF cmds
    <3> QED
      BY <1>8, <3>1
  <2>5. ASSUME NEW c \in ChipStates, c.func = "FM"
        PROVE  AfterAll(c, cmds).func = "FM" /\ AfterAll(c, cmds).freq = fm.freq
    <3> DEFINE e == AfterAll(c, row)
               g == AfterAll(c, cmds)
    <3>1. e \in ChipStates /\ e.func = "FM"
      BY <1>10, <2>5
    <3>2. g = AfterAll(e, back)
      BY <1>10, <2>3, AfterConcat DEF cmds
    <3> HIDE DEF e, g
    <3>3. g = Obey(e, Tune("FM", fm.freq))
      BY <2>3, <3>1, <3>2
    <3>4. g.func = "FM" /\ g.freq = fm.freq
      BY <2>2, <3>1, <3>3, TuneEffect
    <3> QED
      BY <3>4 DEF g
  <2>6. /\ fm' \in FmStates /\ fm'.on /\ fm'.freq = fm.freq
        /\ unread \notin DOMAIN cmds => Waits \/ fm'.heard = fm'.freq
    BY <1>1, <1>2, <2>1, <2>2, <2>4 DEF FmStates, Heard
  <2> QED
    BY <1>1, <2>1, <2>4, <2>5, <2>6, FmRetuned
<1> QED
  BY <1>11, <1>12

(* The AM receiver talks to the chip while it is on.                       *)
LEMMA AmTalked ==
  ASSUME BroadcastInv, am.on, NEW cmds \in Seq(Commands), NEW bad, NEW refused,
         Talk(cmds, bad, refused), UNCHANGED overlapped, AmKeeps,
         am' \in AmStates, InBand(am'), am'.on,
         bad \notin DOMAIN cmds /\ AmAgrees(chip, am) => AmAgrees(AfterAll(chip, cmds), am')
  PROVE  BroadcastInv'
<1>1. ReceiverTypes /\ OneAlert
  BY DEF BroadcastInv
<1>2. UNCHANGED <<fm, noaa, overlapped, fm_record, beeps>>
  BY DEF AmKeeps
<1>3. chip' \in ChipStates /\ OneIsOn' /\ (~failed' => ChipShows')
  <2>1. ~NoneOn /\ fm'.on = fm.on /\ noaa'.on = noaa.on
    BY <1>2 DEF NoneOn
  <2>2. am'.on = am.on
    BY <1>1 DEF ReceiverTypes, AmStates
  <2>3. bad \notin DOMAIN cmds =>
          /\ fm.on /\ FmAgrees(chip, fm) /\ ~am.on /\ ~noaa.on
             => FmAgrees(AfterAll(chip, cmds), fm')
          /\ am.on /\ AmAgrees(chip, am) /\ ~fm.on /\ ~noaa.on
             => AmAgrees(AfterAll(chip, cmds), am')
          /\ noaa.on /\ NoaaAgrees(chip, noaa) /\ ~fm.on /\ ~am.on
             => NoaaAgrees(AfterAll(chip, cmds), noaa')
    OBVIOUS
  <2> QED
    BY <2>1, <2>2, <2>3, StillShown
<1> QED
  BY <1>1, <1>2, <1>3 DEF BroadcastInv, ReceiverTypes, OneAlert, InBand

LEMMA AmKeepsPlaying ==
  ASSUME BroadcastInv, am.on, UNCHANGED <<chip, part, failed, overlapped>>, AmKeeps,
         am' \in AmStates, InBand(am'), am'.on,
         AmAgrees(chip, am) => AmAgrees(chip, am')
  PROVE  BroadcastInv'
<1>1. Waits' = Waits
  BY DEF Waits, PatchBoot
<1> QED
  BY <1>1
  DEF BroadcastInv, ReceiverTypes, OneIsOn, ChipShows, NoneOn, OneAlert, AmKeeps, InBand,
      AmAgrees

LEMMA PatchSent ==
  ASSUME NEW c \in ChipStates
  PROVE  LET restart == <<PowerDown, UpFor("AM")>>
             d == AfterAll(c, restart \o SsbPatchLoad)
         IN /\ restart \in Seq(Commands) /\ restart \o SsbPatchLoad \in Seq(Commands)
            /\ AfterAll(c, restart) \in ChipStates /\ AfterAll(c, restart).func = "AM"
            /\ d \in ChipStates /\ d.func = "AM"
<1> DEFINE restart == <<PowerDown, UpFor("AM")>>
           e == AfterAll(c, restart)
           d == AfterAll(c, restart \o SsbPatchLoad)
           e1 == Obey(e, SetProperty("mode", USB))
           e2 == Obey(e1, SetProperty("bfo", 0))
<1>1. /\ PowerDown \in Commands /\ UpFor("AM") \in Commands
      /\ SetProperty("mode", USB) \in Commands /\ SetProperty("bfo", 0) \in Commands
      /\ USB \in Int /\ 0 \in Int /\ "AM" \in ChipFuncs
  BY CommandTypes DEF ChipFuncs, USB
<1>2. restart \in Seq(Commands) /\ SsbPatchLoad \in Seq(Commands)
  BY <1>1 DEF SsbPatchLoad
<1>3. e = Obey(Obey(c, PowerDown), UpFor("AM"))
  BY <1>1, AfterFew
<1>4. e = Obey(ChipOff, UpFor("AM"))
  BY <1>3, ObeyRules
<1>5. d = AfterAll(e, SsbPatchLoad)
  BY <1>2, AfterConcat
<1> HIDE DEF e
<1>6. e \in ChipStates /\ e.func = "AM"
  BY <1>1, <1>4, ChipOffState, UpEffect
<1>7. AfterAll(e, SsbPatchLoad) = e2
  BY <1>1, <1>6, AfterFew DEF SsbPatchLoad
<1> HIDE DEF e2, d
<1>8. d = e2
  BY <1>5, <1>7
<1>9. e1 \in ChipStates /\ e1.func = "AM"
  BY <1>1, <1>6, ModeSet
<1> HIDE DEF e1
<1>10. e2 \in ChipStates /\ e2.func = "AM"
  BY <1>1, <1>9, BfoSet DEF e2
<1>11. restart \o SsbPatchLoad \in Seq(Commands)
  BY <1>2
<1> QED
  BY <1>2, <1>6, <1>8, <1>10, <1>11 DEF e, d

LEMMA LongConcat ==
  ASSUME NEW S, NEW s \in Seq(S), NEW t \in Seq(S), t # << >>
  PROVE  s \o t \in Seq(S) /\ Len(s \o t) > 0 /\ Len(s \o t) \in DOMAIN (s \o t)
<1>1. /\ Len(s) \in Nat /\ Len(t) \in Nat \ {0}
      /\ s \o t \in Seq(S) /\ Len(s \o t) = Len(s) + Len(t)
  OBVIOUS
<1> QED
  BY <1>1

LEMMA EnterBandSent ==
  ASSUME NEW a \in AmStates, NEW band \in Bands, NEW freq \in Int, NEW c \in ChipStates,
         c.func = "AM"
  PROVE  LET cmds == EnterBandCommands(a, band, freq)
             d == AfterAll(c, cmds)
         IN /\ cmds \in Seq(Commands) /\ Len(cmds) > 0
            /\ d \in ChipStates /\ d.func = "AM" /\ d.freq = freq /\ d.filter = a.filter
            /\ band = "SSB" => d.mode = a.side /\ d.bfo = a.bfo
<1> DEFINE restart == <<PowerDown, UpFor("AM")>>
           load == IF a.patched THEN << >> ELSE restart \o SsbPatchLoad
           side == <<SetProperty("mode", a.side), SetProperty("bfo", a.bfo)>>
           leave == IF a.patched THEN restart ELSE << >>
           first == IF band = "SSB" THEN load \o side ELSE leave
           filter == <<SetProperty("filter", a.filter)>>
           tune == <<Tune("AM", freq), TuneStatus>>
           cmds == (first \o filter) \o tune
           e == AfterAll(c, first)
<1>1. EnterBandCommands(a, band, freq) = cmds
  BY DEF EnterBandCommands, FilterSetting, ApplyTune
<1>2. /\ a.side \in Int /\ a.bfo \in Int /\ a.filter \in Int /\ a.patched \in BOOLEAN
      /\ "AM" \in ChipFuncs
  BY BroadcastNats DEF AmStates, ChipFuncs, LSB, USB
<1>3. /\ SetProperty("mode", a.side) \in Commands /\ SetProperty("bfo", a.bfo) \in Commands
      /\ SetProperty("filter", a.filter) \in Commands
  BY <1>2, CommandTypes
<1>4. side \in Seq(Commands) /\ filter \in Seq(Commands)
  BY <1>3
<1>5. /\ restart \in Seq(Commands) /\ restart \o SsbPatchLoad \in Seq(Commands)
      /\ AfterAll(c, restart) \in ChipStates /\ AfterAll(c, restart).func = "AM"
      /\ LET d == AfterAll(c, restart \o SsbPatchLoad)
         IN d \in ChipStates /\ d.func = "AM"
  BY PatchSent
<1>6. AfterAll(c, << >>) = c /\ << >> \in Seq(Commands)
  BY AfterFew
<1>7. tune \in Seq(Commands) /\ tune # << >>
      /\ \A x \in ChipStates : AfterAll(x, tune) = Obey(x, Tune("AM", freq))
  <2>1. tune # << >>
    OBVIOUS
  <2> QED
    BY <1>2, <2>1, TuneSent
<1>8. \A x \in ChipStates :
        /\ AfterAll(x, filter) = Obey(x, SetProperty("filter", a.filter))
        /\ AfterAll(x, side) = Obey(Obey(x, SetProperty("mode", a.side)), SetProperty("bfo", a.bfo))
  BY <1>3, AfterFew
<1> HIDE DEF restart, side, filter, tune
<1>9. /\ load \in Seq(Commands)
      /\ AfterAll(c, load) \in ChipStates /\ AfterAll(c, load).func = "AM"
  BY <1>2, <1>5, <1>6
<1>10. /\ leave \in Seq(Commands)
       /\ AfterAll(c, leave) \in ChipStates /\ AfterAll(c, leave).func = "AM"
  BY <1>2, <1>5, <1>6
<1> HIDE DEF load, leave
<1>11. /\ first \in Seq(Commands) /\ e \in ChipStates /\ e.func = "AM"
       /\ band = "SSB" => e.mode = a.side /\ e.bfo = a.bfo
  <2>1. CASE band = "SSB"
    <3> DEFINE e1 == AfterAll(c, load)
               e2 == Obey(e1, SetProperty("mode", a.side))
               e3 == Obey(e2, SetProperty("bfo", a.bfo))
    <3>1. first = load \o side /\ first \in Seq(Commands)
      BY <1>4, <1>9, <2>1
    <3>2. e = AfterAll(e1, side)
      <4> HIDE DEF first
      <4> QED
        BY <1>4, <1>9, <3>1, AfterConcat
    <3>3. e1 \in ChipStates /\ e1.func = "AM"
      BY <1>9
    <3>4. e = e3
      BY <1>8, <3>2, <3>3
    <3> HIDE DEF e1, e3, e, first
    <3>5. e2 \in ChipStates /\ e2.func = "AM" /\ e2.mode = a.side
      BY <1>2, <3>3, ModeSet
    <3> HIDE DEF e2
    <3>6. /\ e3 \in ChipStates /\ e3.func = "AM"
          /\ e3.mode = a.side /\ e3.bfo = a.bfo
      BY <1>2, <3>5, BfoSet DEF e3
    <3> QED
      BY <2>1, <3>1, <3>4, <3>6
  <2>2. CASE band # "SSB"
    BY <1>10, <2>2
  <2> QED
    BY <2>1, <2>2
<1> HIDE DEF e, first
<1> DEFINE g == AfterAll(c, first \o filter)
           d == AfterAll(c, cmds)
<1>12. g = AfterAll(e, filter) /\ first \o filter \in Seq(Commands)
  BY <1>4, <1>11, AfterConcat DEF e
<1>13. g = Obey(e, SetProperty("filter", a.filter))
  BY <1>8, <1>11, <1>12
<1>14. d = AfterAll(g, tune) /\ cmds \in Seq(Commands) /\ Len(cmds) > 0
  <2> DEFINE front == first \o filter
  <2>1. front \in Seq(Commands)
    BY <1>12
  <2> HIDE DEF front
  <2>2. front \o tune \in Seq(Commands) /\ Len(front \o tune) > 0
        /\ AfterAll(c, front \o tune) = AfterAll(AfterAll(c, front), tune)
    <3>1. front \o tune \in Seq(Commands) /\ Len(front \o tune) > 0
      BY <1>7, <2>1, LongConcat
    <3>2. AfterAll(c, front \o tune) = AfterAll(AfterAll(c, front), tune)
      BY <1>7, <2>1, AfterConcat
    <3> QED
      BY <3>1, <3>2
  <2> QED
    BY <2>2 DEF front
<1> HIDE DEF g, d, cmds
<1>15. /\ g \in ChipStates /\ g.func = "AM" /\ g.filter = a.filter
       /\ g.mode = e.mode /\ g.bfo = e.bfo
  <2>1. e \in ChipStates /\ e.func = "AM" /\ a.filter \in Int
    BY <1>2, <1>11
  <2> QED
    BY <1>13, <2>1, FilterSet
<1>16. d = Obey(g, Tune("AM", freq))
  BY <1>7, <1>14, <1>15
<1>17. /\ d \in ChipStates /\ d.func = "AM" /\ d.freq = freq
       /\ d.filter = g.filter /\ d.mode = g.mode /\ d.bfo = g.bfo
  <2>1. g \in ChipStates /\ g.func = "AM" /\ "AM" \in ChipFuncs
    BY <1>2, <1>15
  <2> QED
    BY <1>16, <2>1, TuneEffect
<1>18. EnterBandCommands(a, band, freq) \in Seq(Commands)
       /\ Len(EnterBandCommands(a, band, freq)) > 0
       /\ AfterAll(c, EnterBandCommands(a, band, freq)) = d
  BY <1>1, <1>14 DEF d
<1>19. d.filter = a.filter
       /\ (band = "SSB" => d.mode = a.side /\ d.bfo = a.bfo)
  BY <1>11, <1>15, <1>17
<1> QED
  BY <1>17, <1>18, <1>19

(* What enter_band leaves when nothing fails: a, in band, at freq.         *)
LEMMA BandEntered ==
  ASSUME NEW a \in AmStates, a.on, NEW band \in Bands, EnterBand(a, band, << >>)
  PROVE  \E cmds \in Seq(Commands), f \in (Nat \X BOOLEAN) :
           /\ Talk(cmds, f[1], f[2])
           /\ am' \in AmStates /\ InBand(am') /\ am'.on
           /\ f[1] \notin DOMAIN cmds =>
                \A c \in ChipStates : c.func = "AM" =>
                  AmAgrees(AfterAll(c, cmds), am')
<1> DEFINE b == AmBands[band]
           freq == IF a.freq \in b.min .. b.max THEN a.freq ELSE b.default
           words == EnterBandCommands(a, band, freq)
           cmds == << >> \o words
<1>1. PICK f \in {<<0, FALSE>>} \cup ((DOMAIN cmds) \X BOOLEAN) :
        /\ Talk(cmds, f[1], f[2])
        /\ am' = [a EXCEPT !.band = band, !.step = 1, !.freq = freq,
                           !.patched = (band = "SSB"),
                           !.heard = Heard(@, freq, cmds, f[1])]
  BY DEF EnterBand
<1>2. freq \in b.min .. b.max /\ freq \in Int /\ 1 \in 1 .. Len(b.steps)
  BY BandNats DEF AmStates
<1> HIDE DEF freq, b
<1>3. \A c \in ChipStates : c.func = "AM" =>
        LET d == AfterAll(c, words)
        IN /\ words \in Seq(Commands) /\ Len(words) > 0
           /\ d \in ChipStates /\ d.func = "AM" /\ d.freq = freq /\ d.filter = a.filter
           /\ band = "SSB" => d.mode = a.side /\ d.bfo = a.bfo
  BY <1>2, EnterBandSent
<1>4. words \in Seq(Commands) /\ Len(words) > 0
  <2> DEFINE c == Obey(ChipOff, UpFor("AM"))
  <2>1. c \in ChipStates /\ c.func = "AM"
    BY ChipOffState, UpEffect DEF ChipFuncs
  <2> HIDE DEF c
  <2> QED
    BY <1>3, <2>1
<1> HIDE DEF words
<1>5. cmds = words /\ cmds \in Seq(Commands) /\ Len(cmds) \in DOMAIN cmds
  BY <1>4
<1> HIDE DEF cmds
<1>6. DOMAIN cmds \subseteq Nat
  BY <1>5
<1>7. f \in Nat \X BOOLEAN
  <2>1. f \in {<<0, FALSE>>} \cup ((DOMAIN cmds) \X BOOLEAN)
    BY <1>1
  <2>2. CASE f = <<0, FALSE>>
    BY <2>2
  <2>3. CASE f \in (DOMAIN cmds) \X BOOLEAN
    BY <1>6, <2>3
  <2> QED
    BY <2>1, <2>2, <2>3
<1>8. a.heard \in Int /\ Heard(a.heard, freq, cmds, f[1]) \in Int
      /\ (f[1] \notin DOMAIN cmds => Waits \/ Heard(a.heard, freq, cmds, f[1]) = freq)
  BY <1>2, <1>5 DEF AmStates, Heard
<1>9. /\ am' \in AmStates /\ am'.band = band /\ am'.freq = freq /\ am'.step = 1
      /\ am'.heard = Heard(a.heard, freq, cmds, f[1]) /\ am'.on
      /\ am'.patched = (band = "SSB")
      /\ am'.filter = a.filter /\ am'.side = a.side /\ am'.bfo = a.bfo
  <2> DEFINE h == Heard(a.heard, freq, cmds, f[1])
             p == (band = "SSB")
  <2>1. h \in Int /\ p \in BOOLEAN
    BY <1>8
  <2>2. am' = [a EXCEPT !.band = band, !.step = 1, !.freq = freq, !.patched = p, !.heard = h]
    BY <1>1
  <2> HIDE DEF h, p
  <2>3. /\ am' \in AmStates /\ am'.band = band /\ am'.freq = freq /\ am'.step = 1
        /\ am'.heard = h /\ am'.on /\ am'.patched = p
        /\ am'.filter = a.filter /\ am'.side = a.side /\ am'.bfo = a.bfo
    BY <1>2, <2>1, <2>2 DEF AmStates
  <2> QED
    BY <2>3 DEF h, p
<1>10. InBand(am')
  BY <1>2, <1>9 DEF InBand, b
<1>11. ASSUME f[1] \notin DOMAIN cmds, NEW c \in ChipStates, c.func = "AM"
       PROVE  AmAgrees(AfterAll(c, cmds), am')
  <2> DEFINE d == AfterAll(c, cmds)
  <2>1. /\ d.func = "AM" /\ d.freq = freq /\ d.filter = a.filter
        /\ band = "SSB" => d.mode = a.side /\ d.bfo = a.bfo
    BY <1>3, <1>5, <1>11
  <2>2. Waits \/ am'.heard = freq
    BY <1>8, <1>9, <1>11
  <2> HIDE DEF d
  <2>3. AmAgrees(d, am')
    BY <1>9, <2>1, <2>2 DEF AmAgrees
  <2> QED
    BY <2>3 DEF d
<1> QED
  BY <1>1, <1>5, <1>7, <1>9, <1>10, <1>11

LEMMA AmCycles == ASSUME BroadcastInv, am_radio_cycle_band PROVE BroadcastInv'
<1> DEFINE a == [am EXCEPT !.edit = FALSE]
           band == NextBand[am.band]
<1>1. am \in AmStates
  BY DEF BroadcastInv, ReceiverTypes
<1>2. am.on /\ EnterBand(a, band, << >>) /\ UNCHANGED overlapped /\ AmKeeps
  BY DEF am_radio_cycle_band
<1>3. a \in AmStates /\ a.on /\ band \in Bands
  <2>1. am.band \in Bands
    BY <1>1 DEF AmStates
  <2>2. band \in Bands
    BY <2>1 DEF NextBand, Bands
  <2> QED
    BY <1>1, <1>2, <2>2 DEF AmStates
<1> HIDE DEF a, band
<1>4. PICK cmds \in Seq(Commands), f \in (Nat \X BOOLEAN) :
        /\ Talk(cmds, f[1], f[2])
        /\ am' \in AmStates /\ InBand(am') /\ am'.on
        /\ f[1] \notin DOMAIN cmds =>
             \A c \in ChipStates : c.func = "AM" =>
               AmAgrees(AfterAll(c, cmds), am')
  BY <1>2, <1>3, BandEntered
<1>5. f[1] \notin DOMAIN cmds /\ AmAgrees(chip, am) => AmAgrees(AfterAll(chip, cmds), am')
  <2>1. chip \in ChipStates
    BY DEF BroadcastInv, ReceiverTypes
  <2> QED
    BY <1>3, <1>4, <2>1 DEF AmAgrees
<1> QED
  BY <1>2, <1>4, <1>5, AmTalked

LEMMA AmEnters == ASSUME BroadcastInv, am_radio_enter PROVE BroadcastInv'
<1> DEFINE a == [am EXCEPT !.on = TRUE, !.patched = FALSE]
           b == AmBands["MW"]
           freq == IF a.freq \in b.min .. b.max THEN a.freq ELSE b.default
           up == <<UpFor("AM")>>
           words == EnterBandCommands(a, "MW", freq)
           cmds == up \o words
<1>1. am \in AmStates /\ ReceiverTypes /\ OneIsOn /\ OneAlert
  BY DEF BroadcastInv, ReceiverTypes
<1>2. /\ ~am.on /\ ~fm.on /\ EnterBand(a, "MW", up) /\ AmKeeps
      /\ overlapped' = ((overlapped /\ (fm.on \/ am.on \/ noaa.on)) \/ noaa.on)
  BY DEF am_radio_enter, Overlap
<1>3. a \in AmStates /\ a.on /\ a.patched = FALSE /\ "MW" \in Bands /\ "AM" \in ChipFuncs
  BY <1>1 DEF AmStates, Bands, ChipFuncs
<1> HIDE DEF a
<1>4. PICK f \in {<<0, FALSE>>} \cup ((DOMAIN cmds) \X BOOLEAN) :
        /\ Talk(cmds, f[1], f[2])
        /\ am' = [a EXCEPT !.band = "MW", !.step = 1, !.freq = freq,
                           !.patched = ("MW" = "SSB"),
                           !.heard = Heard(@, freq, cmds, f[1])]
  BY <1>2 DEF EnterBand
<1>5. freq \in b.min .. b.max /\ freq \in Int /\ 1 \in 1 .. Len(b.steps)
  BY <1>3, BandNats DEF AmStates
<1> HIDE DEF freq, b
<1> DEFINE u == AfterAll(ChipOff, up)
           d == AfterAll(ChipOff, cmds)
<1>6. up \in Seq(Commands) /\ u = Obey(ChipOff, UpFor("AM"))
  <2>1. UpFor("AM") \in Commands
    BY <1>3, CommandTypes
  <2> QED
    BY <2>1, ChipOffState, AfterFew
<1> HIDE DEF u, up
<1>7. u \in ChipStates /\ u.func = "AM"
  BY <1>3, <1>6, ChipOffState, UpEffect
<1>8. /\ words \in Seq(Commands) /\ Len(words) > 0
      /\ AfterAll(u, words).func = "AM" /\ AfterAll(u, words).freq = freq
      /\ AfterAll(u, words).filter = a.filter
  BY <1>3, <1>5, <1>7, EnterBandSent
<1> HIDE DEF words
<1>9. cmds \in Seq(Commands) /\ Len(cmds) \in DOMAIN cmds
  <2>1. Len(up) \in Nat /\ Len(words) \in Nat /\ Len(cmds) = Len(up) + Len(words)
        /\ cmds \in Seq(Commands)
    BY <1>6, <1>8
  <2> HIDE DEF cmds
  <2> QED
    BY <1>8, <2>1
<1>10. d = AfterAll(u, words)
  BY <1>6, <1>8, ChipOffState, AfterConcat DEF u
<1> HIDE DEF cmds, d
<1>11. /\ d.func = "AM" /\ d.freq = freq /\ d.filter = a.filter
  BY <1>8, <1>10
<1>12. a.heard \in Int /\ Heard(a.heard, freq, cmds, f[1]) \in Int
      /\ (f[1] \notin DOMAIN cmds => Waits \/ Heard(a.heard, freq, cmds, f[1]) = freq)
  BY <1>3, <1>5, <1>9 DEF AmStates, Heard
<1>13. /\ am' \in AmStates /\ am'.band = "MW" /\ am'.freq = freq /\ am'.step = 1
       /\ am'.heard = Heard(a.heard, freq, cmds, f[1]) /\ am'.on
       /\ am'.patched = FALSE /\ am'.filter = a.filter
  <2> DEFINE h == Heard(a.heard, freq, cmds, f[1])
  <2>1. h \in Int
    BY <1>12
  <2>2. am' = [a EXCEPT !.band = "MW", !.step = 1, !.freq = freq, !.patched = FALSE, !.heard = h]
    BY <1>4
  <2> HIDE DEF h
  <2>3. /\ am' \in AmStates /\ am'.band = "MW" /\ am'.freq = freq /\ am'.step = 1
        /\ am'.heard = h /\ am'.on /\ am'.patched = FALSE /\ am'.filter = a.filter
    BY <1>3, <1>5, <2>1, <2>2 DEF AmStates
  <2> QED
    BY <2>3 DEF h
<1>14. InBand(am')
  BY <1>5, <1>13 DEF InBand, b
<1>15. UNCHANGED <<fm, noaa, fm_record, beeps>>
  BY <1>2 DEF AmKeeps
<1>16. OneIsOn' /\ (~overlapped' => NoneOn) /\ ~NoneOn'
  BY <1>1, <1>2, <1>13, <1>15 DEF OneIsOn, NoneOn
<1>17. NoneOn /\ f[1] \notin DOMAIN cmds =>
         /\ fm'.on => FmAgrees(d, fm')
         /\ am'.on => AmAgrees(d, am')
         /\ noaa'.on => NoaaAgrees(d, noaa')
  BY <1>11, <1>12, <1>13, <1>15 DEF NoneOn, AmAgrees
<1>18. chip' \in ChipStates /\ (~failed' => ChipShows')
  BY <1>4, <1>9, <1>16, <1>17, SwitchedOn DEF d
<1> QED
  BY <1>1, <1>13, <1>14, <1>15, <1>16, <1>18 DEF BroadcastInv, ReceiverTypes, OneAlert, InBand

LEMMA AmExits == ASSUME BroadcastInv, am_radio_exit PROVE BroadcastInv'
<1>1. PICK f \in Faults : Talk(<<PowerDown>>, f[1], f[2])
  BY DEF am_radio_exit
<1>2. ReceiverTypes /\ OneIsOn /\ OneAlert
  BY DEF BroadcastInv
<1>3. /\ am.on /\ am' = [am EXCEPT !.on = FALSE, !.patched = FALSE, !.edit = FALSE]
      /\ UNCHANGED <<fm, noaa, overlapped, fm_record, beeps>>
  BY DEF am_radio_exit, AmKeeps
<1>4. am' \in AmStates /\ ~am'.on /\ InBand(am')
  BY <1>2, <1>3 DEF ReceiverTypes, AmStates, InBand
<1>5. ~overlapped' => NoneOn'
  BY <1>2, <1>3, <1>4 DEF OneIsOn, NoneOn
<1>6. chip \in ChipStates
  BY <1>2 DEF ReceiverTypes
<1>7. chip' \in ChipStates /\ OneIsOn' /\ (~failed' => ChipShows')
  BY <1>1, <1>5, <1>6, PowerDownSent, SwitchedOff
<1> QED
  BY <1>2, <1>3, <1>4, <1>7 DEF BroadcastInv, ReceiverTypes, OneAlert, InBand

LEMMA AmSets ==
  ASSUME BroadcastInv,
         am_radio_cycle_step \/ am_radio_toggle_sideband \/ am_radio_cycle_bandwidth
           \/ AmToggleEdit
  PROVE  BroadcastInv'
<1>1. am \in AmStates /\ InBand(am) /\ chip \in ChipStates /\ am.band \in Bands
  BY DEF BroadcastInv, ReceiverTypes, AmStates
<1>2. CASE am_radio_cycle_step
  <2> DEFINE sizes == AmBands[am.band].steps
             next == (am.step % Len(sizes)) + 1
  <2>1. /\ am.on /\ am' = [am EXCEPT !.step = next]
        /\ UNCHANGED <<chip, part, failed, overlapped>> /\ AmKeeps
    BY <1>2 DEF am_radio_cycle_step
  <2>2. next \in 1 .. Len(sizes)
    <3> DEFINE n == Len(sizes)
               k == am.step
    <3>1. n \in Nat \ {0} /\ k \in Nat
      <4>1. sizes \in Seq(Int) /\ 1 \in 1 .. Len(sizes)
        BY <1>1, BandNats
      <4> HIDE DEF sizes
      <4>2. Len(sizes) \in Nat /\ Len(sizes) # 0
        BY <4>1
      <4> QED
        BY <1>1, <4>2 DEF AmStates
    <3> HIDE DEF n, k
    <3>2. (k % n) + 1 \in 1 .. n
      BY <3>1
    <3> QED
      BY <3>2 DEF n, k
  <2>3. next \in Nat
    BY <2>2
  <2> HIDE DEF next
  <2>4. am' \in AmStates /\ am'.on /\ am'.step = next /\ am'.band = am.band
        /\ am'.freq = am.freq
    BY <1>1, <2>1, <2>3 DEF AmStates
  <2>5. InBand(am')
    BY <1>1, <2>2, <2>4 DEF InBand
  <2>6. AmAgrees(chip, am) => AmAgrees(chip, am')
    BY <1>1, <2>1 DEF AmAgrees, AmStates
  <2> QED
    BY <2>1, <2>4, <2>5, <2>6, AmKeepsPlaying
<1>3. CASE am_radio_toggle_sideband
  <2> DEFINE x == IF am.side = USB THEN LSB ELSE USB
             cmds == <<SetProperty("mode", x)>>
  <2>1. /\ am.on /\ am.band = "SSB" /\ am' = [am EXCEPT !.side = x]
        /\ \E f \in Faults : Talk(<<SetProperty("mode", am'.side)>>, f[1], f[2])
        /\ UNCHANGED overlapped /\ AmKeeps
    BY <1>3 DEF am_radio_toggle_sideband
  <2>2. x \in {LSB, USB} /\ x \in Int
    BY DEF LSB, USB
  <2> HIDE DEF x
  <2>3. am' \in AmStates /\ InBand(am') /\ am'.on /\ am'.side = x
    BY <1>1, <2>1, <2>2 DEF AmStates, InBand
  <2>4. PICK f \in Faults : Talk(cmds, f[1], f[2])
    BY <2>1, <2>3
  <2>5. cmds \in Seq(Commands) /\ \A c \in ChipStates : AfterAll(c, cmds) = Obey(c, SetProperty("mode", x))
    <3>1. SetProperty("mode", x) \in Commands
      BY <2>2, CommandTypes
    <3> QED
      BY <3>1, AfterFew
  <2> HIDE DEF cmds
  <2>6. ASSUME AmAgrees(chip, am) PROVE AmAgrees(AfterAll(chip, cmds), am')
    <3> DEFINE d == AfterAll(chip, cmds)
    <3>1. d = Obey(chip, SetProperty("mode", x)) /\ chip.func = "AM"
      BY <1>1, <2>5, <2>6 DEF AmAgrees
    <3> HIDE DEF d
    <3>2. /\ d.func = "AM" /\ d.freq = chip.freq
          /\ d.filter = chip.filter /\ d.mode = x /\ d.bfo = chip.bfo
      BY <1>1, <2>2, <3>1, ModeSet
    <3>3. AmAgrees(d, am')
      BY <1>1, <2>1, <2>3, <2>6, <3>2 DEF AmAgrees, AmStates
    <3> QED
      BY <3>3 DEF d
  <2> QED
    BY <2>1, <2>3, <2>4, <2>5, <2>6, AmTalked
<1>4. CASE am_radio_cycle_bandwidth
  <2> DEFINE x == (am.filter % Filters) + 1
             cmds == <<SetProperty("filter", x)>>
  <2>1. /\ am.on /\ am' = [am EXCEPT !.filter = x]
        /\ \E f \in Faults : Talk(<<SetProperty("filter", am'.filter)>>, f[1], f[2])
        /\ UNCHANGED overlapped /\ AmKeeps
    BY <1>4 DEF am_radio_cycle_bandwidth
  <2>2. x \in 1 .. Filters /\ x \in Int
    <3> DEFINE k == am.filter
    <3>1. k \in Nat
      BY <1>1, BroadcastNats DEF AmStates
    <3> HIDE DEF k
    <3>2. (k % Filters) + 1 \in 1 .. Filters
      BY <3>1, BroadcastNats
    <3> QED
      BY <3>2 DEF k
  <2> HIDE DEF x
  <2>3. am' \in AmStates /\ InBand(am') /\ am'.on /\ am'.filter = x
    BY <1>1, <2>1, <2>2 DEF AmStates, InBand
  <2>4. PICK f \in Faults : Talk(cmds, f[1], f[2])
    BY <2>1, <2>3
  <2>5. cmds \in Seq(Commands) /\ \A c \in ChipStates : AfterAll(c, cmds) = Obey(c, SetProperty("filter", x))
    <3>1. SetProperty("filter", x) \in Commands
      BY <2>2, CommandTypes
    <3> QED
      BY <3>1, AfterFew
  <2> HIDE DEF cmds
  <2>6. ASSUME AmAgrees(chip, am) PROVE AmAgrees(AfterAll(chip, cmds), am')
    <3> DEFINE d == AfterAll(chip, cmds)
    <3>1. d = Obey(chip, SetProperty("filter", x)) /\ chip.func = "AM"
      BY <1>1, <2>5, <2>6 DEF AmAgrees
    <3> HIDE DEF d
    <3>2. /\ d.func = "AM" /\ d.freq = chip.freq
          /\ d.filter = x /\ d.mode = chip.mode /\ d.bfo = chip.bfo
      BY <1>1, <2>2, <3>1, FilterSet
    <3>3. AmAgrees(d, am')
      BY <1>1, <2>1, <2>3, <2>6, <3>2 DEF AmAgrees, AmStates
    <3> QED
      BY <3>3 DEF d
  <2> QED
    BY <2>1, <2>3, <2>4, <2>5, <2>6, AmTalked
<1>5. CASE AmToggleEdit
  <2>1. /\ am.on /\ am' = [am EXCEPT !.edit = ~@]
        /\ UNCHANGED <<chip, part, failed, overlapped>> /\ AmKeeps
    BY <1>5 DEF AmToggleEdit
  <2>2. am' \in AmStates /\ InBand(am') /\ am'.on
    <3> DEFINE x == ~am.edit
    <3>1. x \in BOOLEAN /\ am' = [am EXCEPT !.edit = x]
      BY <2>1
    <3> HIDE DEF x
    <3> QED
      BY <1>1, <2>1, <3>1 DEF AmStates, InBand
  <2>3. AmAgrees(chip, am) => AmAgrees(chip, am')
    BY <1>1, <2>1 DEF AmAgrees, AmStates
  <2> QED
    BY <2>1, <2>2, <2>3, AmKeepsPlaying
<1> QED
  BY <1>2, <1>3, <1>4, <1>5

LEMMA AmTurns == ASSUME BroadcastInv, am_radio_handle_encoder PROVE BroadcastInv'
<1>1. am \in AmStates /\ InBand(am) /\ chip \in ChipStates /\ am.band \in Bands
  BY DEF BroadcastInv, ReceiverTypes, AmStates
<1>2. am.on /\ UNCHANGED overlapped /\ AmKeeps
  BY DEF am_radio_handle_encoder
<1>3. PICK d \in {1, -1}, f \in Faults :
        IF am.edit /\ am.band = "SSB"
        THEN /\ am' = [am EXCEPT !.bfo = IF @ + d > BfoMax THEN BfoMax
                                         ELSE IF @ + d < -BfoMax THEN -BfoMax ELSE @ + d]
             /\ Talk(<<SetProperty("bfo", am'.bfo)>>, f[1], f[2])
        ELSE LET b == AmBands[am.band]
                 to == am.freq + d * b.steps[am.step]
                 freq == IF to < b.min THEN b.max ELSE IF to > b.max THEN b.min ELSE to
                 cmds == ApplyTune(freq)
             IN /\ Talk(cmds, f[1], f[2])
                /\ am' = [am EXCEPT !.freq = freq, !.heard = Heard(@, freq, cmds, f[1])]
  BY DEF am_radio_handle_encoder
<1>4. CASE am.edit /\ am.band = "SSB"
  <2> DEFINE y == am.bfo + d
             x == IF y > BfoMax THEN BfoMax ELSE IF y < -BfoMax THEN -BfoMax ELSE y
             cmds == <<SetProperty("bfo", x)>>
  <2>1. am' = [am EXCEPT !.bfo = x] /\ Talk(<<SetProperty("bfo", am'.bfo)>>, f[1], f[2])
    BY <1>3, <1>4
  <2>2. x \in -BfoMax .. BfoMax /\ x \in Int
    <3>1. y \in Int
      BY <1>1, BroadcastNats DEF AmStates
    <3> HIDE DEF y
    <3> QED
      BY <3>1, BroadcastNats
  <2> HIDE DEF x
  <2>3. am' \in AmStates /\ InBand(am') /\ am'.on /\ am'.bfo = x
    BY <1>1, <1>2, <2>1, <2>2 DEF AmStates, InBand
  <2>4. Talk(cmds, f[1], f[2])
    BY <2>1, <2>3
  <2>5. cmds \in Seq(Commands) /\ \A c \in ChipStates : AfterAll(c, cmds) = Obey(c, SetProperty("bfo", x))
    <3>1. SetProperty("bfo", x) \in Commands
      BY <2>2, CommandTypes
    <3> QED
      BY <3>1, AfterFew
  <2> HIDE DEF cmds
  <2>6. ASSUME AmAgrees(chip, am) PROVE AmAgrees(AfterAll(chip, cmds), am')
    <3> DEFINE g == AfterAll(chip, cmds)
    <3>1. g = Obey(chip, SetProperty("bfo", x)) /\ chip.func = "AM"
      BY <1>1, <2>5, <2>6 DEF AmAgrees
    <3> HIDE DEF g
    <3>2. /\ g.func = "AM" /\ g.freq = chip.freq
          /\ g.filter = chip.filter /\ g.mode = chip.mode /\ g.bfo = x
      BY <1>1, <2>2, <3>1, BfoSet
    <3>3. AmAgrees(g, am')
      BY <1>1, <2>1, <2>3, <2>6, <3>2 DEF AmAgrees, AmStates
    <3> QED
      BY <3>3 DEF g
  <2> QED
    BY <1>2, <2>3, <2>4, <2>5, <2>6, AmTalked
<1>5. CASE ~(am.edit /\ am.band = "SSB")
  <2> DEFINE b == AmBands[am.band]
             to == am.freq + d * b.steps[am.step]
             freq == IF to < b.min THEN b.max ELSE IF to > b.max THEN b.min ELSE to
             cmds == ApplyTune(freq)
  <2>1. Talk(cmds, f[1], f[2]) /\ am' = [am EXCEPT !.freq = freq, !.heard = Heard(@, freq, cmds, f[1])]
    BY <1>3, <1>5
  <2>2. to \in Int
    <3> DEFINE k == b.steps[am.step]
    <3>1. k \in Int
      <4>1. b.steps \in Seq(Int) /\ am.step \in 1 .. Len(b.steps)
        BY <1>1, BandNats DEF InBand
      <4> DEFINE s == b.steps
      <4> HIDE DEF s
      <4>2. s \in Seq(Int) /\ am.step \in 1 .. Len(s)
        BY <4>1 DEF s
      <4>3. s[am.step] \in Int
        BY <4>2
      <4> QED
        BY <4>3 DEF s
    <3>2. am.freq \in Int
      BY <1>1 DEF AmStates
    <3> HIDE DEF k
    <3>3. am.freq + d * k \in Int
      BY <3>1, <3>2
    <3> QED
      BY <3>3 DEF k
  <2> HIDE DEF to
  <2>3. freq \in b.min .. b.max /\ freq \in Int
    <3>1. b.min \in Int /\ b.max \in Int /\ b.min \in b.min .. b.max
      BY <1>1, BandNats
    <3> HIDE DEF b
    <3> QED
      BY <2>2, <3>1
  <2> HIDE DEF freq, b
  <2>4. "AM" \in ChipFuncs
    BY DEF ChipFuncs
  <2>5. /\ cmds \in Seq(Commands) /\ Len(cmds) = 2 /\ 2 \in DOMAIN cmds
        /\ \A c \in ChipStates : AfterAll(c, cmds) = Obey(c, Tune("AM", freq))
    BY <2>3, <2>4, TuneSent DEF ApplyTune
  <2> HIDE DEF cmds
  <2>6. am.heard \in Int /\ Heard(am.heard, freq, cmds, f[1]) \in Int
        /\ (f[1] \notin DOMAIN cmds => Waits \/ Heard(am.heard, freq, cmds, f[1]) = freq)
    BY <1>1, <2>3, <2>5 DEF AmStates, Heard
  <2>7. /\ am' \in AmStates /\ am'.on /\ am'.freq = freq /\ am'.band = am.band
        /\ am'.step = am.step /\ am'.heard = Heard(am.heard, freq, cmds, f[1])
        /\ am'.filter = am.filter /\ am'.side = am.side /\ am'.bfo = am.bfo
        /\ am'.patched = am.patched
    BY <1>1, <1>2, <2>1, <2>3, <2>6 DEF AmStates
  <2>8. InBand(am')
    BY <1>1, <2>3, <2>7 DEF InBand, b
  <2>9. ASSUME f[1] \notin DOMAIN cmds, AmAgrees(chip, am)
        PROVE  AmAgrees(AfterAll(chip, cmds), am')
    <3> DEFINE g == AfterAll(chip, cmds)
    <3>1. g = Obey(chip, Tune("AM", freq)) /\ chip.func = "AM"
      BY <1>1, <2>5, <2>9 DEF AmAgrees
    <3> HIDE DEF g
    <3>2. /\ g.func = "AM" /\ g.freq = freq
          /\ g.filter = chip.filter /\ g.mode = chip.mode /\ g.bfo = chip.bfo
      BY <1>1, <2>3, <2>4, <3>1, TuneEffect
    <3>3. Waits \/ am'.heard = freq
      BY <2>6, <2>7, <2>9
    <3>4. AmAgrees(g, am')
      BY <2>7, <2>9, <3>2, <3>3 DEF AmAgrees
    <3> QED
      BY <3>4 DEF g
  <2> QED
    BY <1>2, <2>1, <2>5, <2>7, <2>8, <2>9, AmTalked
<1> QED
  BY <1>4, <1>5

(* The NOAA receiver.                                                      *)
LEMMA WordsAreInts == \A n \in Int : NoaaWord(n) \in Int
<1>1. \A n \in Int : NoaaKhz(n) \in Int
  BY DEF NoaaKhz
<1>2. \A k \in Int : k % 65536 \in Int
  OBVIOUS
<1> QED
  BY <1>1, <1>2 DEF NoaaWord

LEMMA WeatherSent ==
  ASSUME NEW x \in Int, NEW cmds, cmds = <<PowerDown, UpFor("WB"), Tune("WB", x)>>
  PROVE  /\ cmds \in Seq(Commands) /\ SubSeq(cmds, 1, 2) \in Seq(Commands)
         /\ 2 \in DOMAIN SubSeq(cmds, 1, 2)
         /\ LET d == AfterAll(ChipOff, cmds) IN d.func = "WB" /\ d.freq = x
<1>1. /\ PowerDown \in Commands /\ UpFor("WB") \in Commands /\ Tune("WB", x) \in Commands
      /\ "WB" \in ChipFuncs
  BY CommandTypes DEF ChipFuncs
<1>2. cmds \in Seq(Commands) /\ Len(cmds) = 3
  BY <1>1
<1>3. SubSeq(cmds, 1, 2) \in Seq(Commands) /\ 2 \in DOMAIN SubSeq(cmds, 1, 2)
  BY <1>2
<1> DEFINE off == Obey(ChipOff, PowerDown)
           u == Obey(off, UpFor("WB"))
           d == AfterAll(ChipOff, cmds)
<1>4. d = Obey(u, Tune("WB", x))
  BY <1>1, ChipOffState, AfterFew
<1>5. off = ChipOff
  BY ObeyRules
<1> HIDE DEF off, d
<1>6. u \in ChipStates /\ u.func = "WB"
  BY <1>1, <1>5, ChipOffState, UpEffect
<1> HIDE DEF u
<1>7. d.func = "WB" /\ d.freq = x
  BY <1>1, <1>4, <1>6, TuneEffect
<1> QED
  BY <1>2, <1>3, <1>7 DEF d

LEMMA EndsOff ==
  ASSUME NEW c \in ChipStates, NEW cmds \in Seq(Commands), NEW n \in Nat \ {0},
         Len(cmds) = n, cmds[n] = PowerDown
  PROVE  AfterAll(c, cmds) = ChipOff
<1>1. PICK f : Runs(c, cmds, f) /\ AfterAll(c, cmds) = f[n]
  BY ChipRuns
<1>2. f[n] = Obey(f[n - 1], PowerDown)
  BY <1>1 DEF Runs
<1> QED
  BY <1>1, <1>2, ObeyRules

LEMMA FrontOfTwo ==
  ASSUME NEW S, NEW s \in Seq(S), NEW n \in Nat, n >= 2, Len(s) = n
  PROVE  SubSeq(s, 1, 2) \in Seq(S) /\ 2 \in DOMAIN SubSeq(s, 1, 2)
OBVIOUS

LEMMA NoaaEnters == ASSUME BroadcastInv, noaa_enter PROVE BroadcastInv'
<1> DEFINE x == NoaaWord(noaa.channel)
           cmds == <<PowerDown, UpFor("WB"), Tune("WB", x)>>
<1>1. /\ noaa \in NoaaStates /\ noaa.channel \in Int /\ chip \in ChipStates
      /\ ReceiverTypes /\ OneIsOn /\ OneAlert
  BY BroadcastNats DEF BroadcastInv, ReceiverTypes, NoaaStates
<1>2. PICK f \in WeatherFaults(cmds) :
        IF f[1] = 2
        THEN Talk(SubSeq(cmds, 1, 2), f[1], f[2]) /\ UNCHANGED noaa
        ELSE Talk(cmds, f[1], f[2]) /\ noaa' = [noaa EXCEPT !.on = TRUE]
  BY DEF noaa_enter, si4732_wb_tune
<1>3. /\ UNCHANGED <<fm, am, fm_record, beeps>> /\ ~noaa.on
      /\ overlapped' = ((overlapped /\ (fm.on \/ am.on \/ noaa.on)) \/ (fm.on \/ am.on))
  BY DEF noaa_enter, Overlap, NoaaKeeps
<1>4. /\ cmds \in Seq(Commands) /\ SubSeq(cmds, 1, 2) \in Seq(Commands)
      /\ 2 \in DOMAIN SubSeq(cmds, 1, 2)
      /\ LET d == AfterAll(ChipOff, cmds) IN d.func = "WB" /\ d.freq = x
  BY <1>1, WordsAreInts, WeatherSent
<1> DEFINE two == SubSeq(cmds, 1, 2)
<1> HIDE DEF two, cmds, x
<1>5. CASE f[1] = 2
  <2>1. Talk(two, f[1], f[2]) /\ noaa' = noaa /\ two \in Seq(Commands) /\ f[1] \in DOMAIN two
    BY <1>2, <1>4, <1>5 DEF two
  <2>2. chip' \in ChipStates /\ failed'
    BY <1>1, <2>1, TalkResult
  <2>3. OneIsOn'
    BY <1>1, <1>3, <2>1 DEF OneIsOn
  <2> QED
    BY <1>1, <1>3, <2>1, <2>2, <2>3 DEF BroadcastInv, ReceiverTypes, OneAlert
<1>6. CASE f[1] # 2
  <2>1. Talk(cmds, f[1], f[2]) /\ noaa' = [noaa EXCEPT !.on = TRUE]
    BY <1>2, <1>6
  <2>2. /\ noaa' \in NoaaStates /\ noaa'.on /\ noaa'.channel = noaa.channel
        /\ noaa'.triggered = noaa.triggered
    BY <1>1, <2>1 DEF NoaaStates
  <2>3. OneIsOn' /\ (~overlapped' => NoneOn) /\ ~NoneOn'
    BY <1>1, <1>3, <2>2 DEF OneIsOn, NoneOn
  <2> DEFINE d == AfterAll(ChipOff, cmds)
  <2>4. d.func = "WB" /\ d.freq = NoaaWord(noaa.channel)
    BY <1>4 DEF x
  <2> HIDE DEF d
  <2>5. NoneOn /\ f[1] \notin DOMAIN cmds =>
          /\ fm'.on => FmAgrees(d, fm')
          /\ am'.on => AmAgrees(d, am')
          /\ noaa'.on => NoaaAgrees(d, noaa')
    BY <1>3, <2>2, <2>4 DEF NoneOn, NoaaAgrees
  <2>6. chip' \in ChipStates /\ (~failed' => ChipShows')
    BY <1>4, <2>1, <2>3, <2>5, SwitchedOn DEF d
  <2> QED
    BY <1>1, <1>3, <2>2, <2>3, <2>6 DEF BroadcastInv, ReceiverTypes, OneAlert
<1> QED
  BY <1>5, <1>6

LEMMA NoaaExits == ASSUME BroadcastInv, noaa_exit PROVE BroadcastInv'
<1>1. PICK f \in Faults : Talk(<<PowerDown>>, f[1], f[2])
  BY DEF noaa_exit
<1>2. ReceiverTypes /\ OneIsOn /\ OneAlert
  BY DEF BroadcastInv
<1>3. /\ noaa.on /\ noaa' = [noaa EXCEPT !.on = FALSE]
      /\ UNCHANGED <<fm, am, overlapped, fm_record, beeps>>
  BY DEF noaa_exit, NoaaKeeps
<1>4. noaa' \in NoaaStates /\ ~noaa'.on /\ noaa'.triggered = noaa.triggered
  BY <1>2, <1>3 DEF ReceiverTypes, NoaaStates
<1>5. ~overlapped' => NoneOn'
  BY <1>2, <1>3, <1>4 DEF OneIsOn, NoneOn
<1>6. chip \in ChipStates
  BY <1>2 DEF ReceiverTypes
<1>7. chip' \in ChipStates /\ OneIsOn' /\ (~failed' => ChipShows')
  BY <1>1, <1>5, <1>6, PowerDownSent, SwitchedOff
<1> QED
  BY <1>2, <1>3, <1>4, <1>7 DEF BroadcastInv, ReceiverTypes, OneAlert

LEMMA NoaaSteps == ASSUME BroadcastInv, noaa_step PROVE BroadcastInv'
<1>1. /\ noaa \in NoaaStates /\ chip \in ChipStates
      /\ ReceiverTypes /\ OneIsOn /\ OneAlert
  BY DEF BroadcastInv, ReceiverTypes
<1>2. noaa.on /\ UNCHANGED <<fm, am, overlapped, fm_record, beeps>>
  BY DEF noaa_step, NoaaKeeps
<1>3. PICK d \in {1, -1}, f \in Faults :
        /\ noaa' = [noaa EXCEPT !.channel = (@ + d) % NoaaChannels]
        /\ Talk(<<Tune("WB", NoaaWord(noaa'.channel))>>, f[1], f[2])
  BY DEF noaa_step, si4732_wb_tune
<1> DEFINE x == (noaa.channel + d) % NoaaChannels
           w == NoaaWord(x)
           cmds == <<Tune("WB", w)>>
<1>4. x \in 0 .. NoaaChannels - 1 /\ x \in Int
  <2> DEFINE k == noaa.channel + d
  <2>1. k \in Int
    BY <1>1, BroadcastNats DEF NoaaStates
  <2> HIDE DEF k
  <2>2. k % NoaaChannels \in 0 .. NoaaChannels - 1 /\ k % NoaaChannels \in Int
    BY <2>1, BroadcastNats
  <2> QED
    BY <2>2 DEF k
<1>5. noaa' = [noaa EXCEPT !.channel = x]
  BY <1>3
<1> HIDE DEF x
<1>6. /\ noaa' \in NoaaStates /\ noaa'.on /\ noaa'.channel = x
      /\ noaa'.triggered = noaa.triggered
  BY <1>1, <1>2, <1>4, <1>5 DEF NoaaStates
<1>7. Talk(cmds, f[1], f[2])
  BY <1>3, <1>6
<1>8. /\ cmds \in Seq(Commands) /\ w \in Int
      /\ \A c \in ChipStates : AfterAll(c, cmds) = Obey(c, Tune("WB", w))
  <2>1. w \in Int /\ Tune("WB", w) \in Commands
    BY <1>4, WordsAreInts, CommandTypes DEF ChipFuncs
  <2> QED
    BY <2>1, AfterFew
<1> HIDE DEF cmds
<1>9. ASSUME NoaaAgrees(chip, noaa) PROVE NoaaAgrees(AfterAll(chip, cmds), noaa')
  <2> DEFINE g == AfterAll(chip, cmds)
  <2>1. g = Obey(chip, Tune("WB", w)) /\ chip.func = "WB" /\ "WB" \in ChipFuncs
    BY <1>1, <1>8, <1>9 DEF NoaaAgrees, ChipFuncs
  <2> HIDE DEF g
  <2>2. g.func = "WB" /\ g.freq = NoaaWord(x)
    BY <1>1, <1>8, <2>1, TuneEffect
  <2> QED
    BY <1>6, <2>2 DEF NoaaAgrees, g
<1>10. chip' \in ChipStates /\ OneIsOn' /\ (~failed' => ChipShows')
  <2>1. /\ ~NoneOn /\ overlapped' = overlapped
        /\ fm'.on = fm.on /\ am'.on = am.on /\ noaa'.on = noaa.on
    BY <1>1, <1>2, <1>6 DEF NoneOn, NoaaStates
  <2>2. f[1] \notin DOMAIN cmds =>
          /\ fm.on /\ FmAgrees(chip, fm) /\ ~am.on /\ ~noaa.on
             => FmAgrees(AfterAll(chip, cmds), fm')
          /\ am.on /\ AmAgrees(chip, am) /\ ~fm.on /\ ~noaa.on
             => AmAgrees(AfterAll(chip, cmds), am')
          /\ noaa.on /\ NoaaAgrees(chip, noaa) /\ ~fm.on /\ ~am.on
             => NoaaAgrees(AfterAll(chip, cmds), noaa')
    BY <1>2, <1>9
  <2> QED
    BY <1>7, <1>8, <2>1, <2>2, StillShown
<1> QED
  BY <1>1, <1>2, <1>6, <1>10 DEF BroadcastInv, ReceiverTypes, OneAlert

LEMMA NoaaPolls == ASSUME BroadcastInv, noaa_alert_poll PROVE BroadcastInv'
<1> DEFINE cmds == <<PowerDown, UpFor("WB"), si4732_wb_tune(noaa.channel), TuneStatus,
                     PowerDown>>
           two == SubSeq(cmds, 1, 2)
<1>1. /\ noaa \in NoaaStates /\ noaa.channel \in Int /\ chip \in ChipStates
      /\ ReceiverTypes /\ OneIsOn /\ OneAlert
  BY BroadcastNats DEF BroadcastInv, ReceiverTypes, NoaaStates
<1>2. PICK f \in WeatherFaults(cmds), strong \in BOOLEAN :
        IF f[1] = 2
        THEN Talk(two, f[1], f[2]) /\ UNCHANGED <<noaa, beeps>>
        ELSE /\ Talk(cmds, f[1], f[2])
             /\ noaa' = [noaa EXCEPT !.triggered = strong /\ f[1] # 4]
             /\ beeps' = IF ~noaa'.triggered THEN 0
                         ELSE IF noaa.triggered THEN beeps ELSE beeps + 1
  BY DEF noaa_alert_poll
<1>3. /\ UNCHANGED <<fm, am, fm_record>> /\ ~noaa.on
      /\ overlapped' = ((overlapped /\ (fm.on \/ am.on \/ noaa.on)) \/ (fm.on \/ am.on))
  BY DEF noaa_alert_poll, Overlap, NoaaKeeps
<1>4. cmds \in Seq(Commands) /\ Len(cmds) = 5 /\ cmds[5] = PowerDown
  <2>1. /\ PowerDown \in Commands /\ UpFor("WB") \in Commands /\ TuneStatus \in Commands
        /\ si4732_wb_tune(noaa.channel) \in Commands
    BY <1>1, WordsAreInts, CommandTypes DEF ChipFuncs, si4732_wb_tune
  <2> QED
    BY <2>1
<1> DEFINE n == 5
<1>5. n \in Nat \ {0} /\ n >= 2 /\ Len(cmds) = n /\ cmds[n] = PowerDown
  BY <1>4
<1> HIDE DEF cmds, n
<1>6. two \in Seq(Commands) /\ 2 \in DOMAIN two
  BY <1>4, <1>5, FrontOfTwo
<1> HIDE DEF two
<1>7. CASE f[1] = 2
  <2>1. Talk(two, f[1], f[2]) /\ noaa' = noaa /\ beeps' = beeps /\ f[1] \in DOMAIN two
    BY <1>2, <1>6, <1>7
  <2>2. chip' \in ChipStates /\ failed'
    BY <1>1, <1>6, <2>1, TalkResult
  <2>3. OneIsOn'
    BY <1>1, <1>3, <2>1 DEF OneIsOn
  <2> QED
    BY <1>1, <1>3, <2>1, <2>2, <2>3 DEF BroadcastInv, ReceiverTypes, OneAlert
<1>8. CASE f[1] # 2
  <2> DEFINE x == (strong /\ f[1] # 4)
  <2>1. /\ Talk(cmds, f[1], f[2]) /\ noaa' = [noaa EXCEPT !.triggered = x]
        /\ beeps' = IF ~noaa'.triggered THEN 0
                    ELSE IF noaa.triggered THEN beeps ELSE beeps + 1
    BY <1>2, <1>8
  <2>2. x \in BOOLEAN
    OBVIOUS
  <2> HIDE DEF x
  <2>3. noaa' \in NoaaStates /\ noaa'.on = noaa.on /\ noaa'.triggered = x
    BY <1>1, <2>1, <2>2 DEF NoaaStates
  <2>4. ~overlapped' => NoneOn'
    BY <1>3, <2>3 DEF NoneOn
  <2>5. AfterAll(chip, cmds) = ChipOff
    BY <1>1, <1>4, <1>5, EndsOff
  <2>6. chip' \in ChipStates /\ OneIsOn' /\ (~failed' => ChipShows')
    BY <1>4, <2>1, <2>4, <2>5, SwitchedOff
  <2>7. OneAlert'
    BY <1>1, <2>1, <2>3 DEF OneAlert
  <2> QED
    BY <1>1, <1>3, <2>3, <2>6, <2>7 DEF BroadcastInv, ReceiverTypes
<1> QED
  BY <1>7, <1>8

LEMMA NoaaAlarmStops == ASSUME BroadcastInv, NoaaAlarmOff PROVE BroadcastInv'
<1>1. noaa \in NoaaStates
  BY DEF BroadcastInv, ReceiverTypes
<1>2. /\ noaa' = [noaa EXCEPT !.triggered = FALSE] /\ beeps' = 0
      /\ UNCHANGED <<chip, part, failed, overlapped, fm, am, fm_record>>
  BY DEF NoaaAlarmOff, NoaaKeeps
<1>3. /\ noaa' \in NoaaStates /\ noaa'.on = noaa.on /\ noaa'.channel = noaa.channel
      /\ ~noaa'.triggered
  BY <1>1, <1>2 DEF NoaaStates
<1>4. Waits' = Waits
  BY <1>2 DEF Waits, PatchBoot
<1> QED
  BY <1>2, <1>3, <1>4 DEF FmAgrees, AmAgrees, BroadcastInv, ReceiverTypes, OneIsOn, ChipShows, NoneOn, OneAlert, NoaaAgrees

(* A radio that is switched on.                                            *)
LEMMA BootStates ==
  /\ ChipOff \in ChipStates
  /\ FmBoot \in FmStates /\ ~FmBoot.on
  /\ [FmBoot EXCEPT !.freq = FmDefault] \in FmStates /\ ~[FmBoot EXCEPT !.freq = FmDefault].on
  /\ AmInit \in AmStates /\ ~AmInit.on /\ InBand(AmInit)
  /\ NoaaInit \in NoaaStates /\ ~NoaaInit.on /\ ~NoaaInit.triggered
<1>1. FmBoot \in FmStates /\ ~FmBoot.on
  BY BroadcastNats DEF FmBoot, FmStates
<1>2. [FmBoot EXCEPT !.freq = FmDefault] \in FmStates /\ ~[FmBoot EXCEPT !.freq = FmDefault].on
  <2>1. \A g \in FmStates, x \in 0 .. FmMax :
          [g EXCEPT !.freq = x] \in FmStates /\ [g EXCEPT !.freq = x].on = g.on
    BY DEF FmStates
  <2> QED
    BY <1>1, <2>1, BroadcastNats
<1>3. AmInit \in AmStates /\ ~AmInit.on /\ InBand(AmInit)
  <2>1. "MW" \in Bands
    BY DEF Bands
  <2>2. AmBands["MW"].default \in AmBands["MW"].min .. AmBands["MW"].max
        /\ AmBands["MW"].default \in Int /\ 1 \in 1 .. Len(AmBands["MW"].steps)
    BY <2>1, BandNats
  <2>3. AmInit \in AmStates /\ ~AmInit.on
    BY <2>1, <2>2, BroadcastNats DEF AmInit, AmStates, USB
  <2>4. AmInit.band = "MW" /\ AmInit.freq = AmBands["MW"].default /\ AmInit.step = 1
    BY DEF AmInit
  <2> QED
    BY <2>2, <2>3, <2>4 DEF InBand
<1>4. NoaaInit \in NoaaStates /\ ~NoaaInit.on /\ ~NoaaInit.triggered
  BY BroadcastNats DEF NoaaInit, NoaaStates
<1> QED
  BY <1>1, <1>2, <1>3, <1>4, ChipOffState

LEMMA FmInitState ==
  ASSUME fm_record = NoRecord \/ fm_record \in FmRecords
  PROVE  FmInit \in FmStates /\ ~FmInit.on
<1>1. CASE ~fm_record.magic
  BY <1>1, BootStates DEF FmInit
<1>2. CASE fm_record.magic
  <2>1. fm_record \in FmRecords
    BY <1>2 DEF NoRecord
  <2> DEFINE x == IF fm_record.freq \in FmMin .. FmMax THEN fm_record.freq ELSE FmDefault
  <2>2. x \in 0 .. FmMax
    <3>1. fm_record.freq \in Nat
      BY <2>1 DEF FmRecords
    <3> QED
      BY <3>1, BroadcastNats
  <2>3. FmInit = [FmBoot EXCEPT !.freq = x, !.presets = fm_record.presets,
                                !.active = fm_record.active]
    BY <1>2 DEF FmInit
  <2>4. fm_record.presets \in [Slots -> Nat] /\ fm_record.active \in Slots
    BY <2>1 DEF FmRecords
  <2> DEFINE g == FmBoot
             p == fm_record.presets
             s == fm_record.active
  <2>5. FmInit = [g EXCEPT !.freq = x, !.presets = p, !.active = s] /\ g \in FmStates /\ ~g.on
    BY <2>3, BootStates
  <2> HIDE DEF x, g, p, s
  <2>6. p \in [Slots -> Nat] /\ s \in Slots
    BY <2>4 DEF p, s
  <2> QED
    BY <2>2, <2>5, <2>6 DEF FmStates
<1> QED
  BY <1>1, <1>2

LEMMA BroadcastInvInit == ASSUME BroadcastInit PROVE BroadcastInv
<1>1. /\ chip = ChipOff /\ fm_record = NoRecord /\ am = AmInit /\ noaa = NoaaInit
      /\ beeps = 0 /\ fm \in {FmBoot, [FmBoot EXCEPT !.freq = FmDefault]}
  BY DEF BroadcastInit
<1>2. fm \in FmStates /\ ~fm.on
  BY <1>1, BootStates
<1> QED
  BY <1>1, <1>2, BootStates DEF BroadcastInv, ReceiverTypes, OneIsOn, ChipShows, NoneOn, OneAlert

LEMMA BroadcastBoots == ASSUME BroadcastInv, BroadcastBoot PROVE BroadcastInv'
<1>1. /\ chip' = ChipOff /\ am' = AmInit /\ noaa' = NoaaInit
      /\ beeps' = 0 /\ fm' \in {FmBoot, FmInit} /\ fm_record' = fm_record
  BY DEF BroadcastBoot
<1>2. fm_record = NoRecord \/ fm_record \in FmRecords
  BY DEF BroadcastInv, ReceiverTypes
<1>3. fm' \in FmStates /\ ~fm'.on
  BY <1>1, <1>2, BootStates, FmInitState
<1> QED
  BY <1>1, <1>2, <1>3, BootStates
  DEF BroadcastInv, ReceiverTypes, OneIsOn, ChipShows, NoneOn, OneAlert, InBand

LEMMA BroadcastInvStep == ASSUME BroadcastInv, BroadcastNext PROVE BroadcastInv'
<1>1. CASE fm_radio_enter \/ fm_radio_exit \/ fm_radio_tune_step \/ fm_radio_seek
           \/ fm_radio_load_preset \/ fm_radio_save_preset \/ FmNextSlot
  BY <1>1, FmEnters, FmExits, FmSteps, FmSeeks, FmLoads, FmSaves
<1>2. CASE am_radio_enter \/ am_radio_exit \/ am_radio_cycle_band \/ am_radio_cycle_step
           \/ am_radio_toggle_sideband \/ am_radio_cycle_bandwidth \/ AmToggleEdit
           \/ am_radio_handle_encoder
  BY <1>2, AmEnters, AmExits, AmCycles, AmSets, AmTurns
<1>3. CASE noaa_enter \/ noaa_exit \/ noaa_step \/ noaa_alert_poll \/ NoaaAlarmOff
           \/ BroadcastBoot
  BY <1>3, NoaaEnters, NoaaExits, NoaaSteps, NoaaPolls, NoaaAlarmStops, BroadcastBoots
<1> QED
  BY <1>1, <1>2, <1>3 DEF BroadcastNext

LEMMA BroadcastInvImplies == ASSUME BroadcastInv PROVE BroadcastTypeOK /\ ReceiversAgreeWithChip
<1>1. BroadcastTypeOK
  BY DEF BroadcastInv, ReceiverTypes, ChipStates, ChipFuncs, FmStates, AmStates, InBand,
         NoaaStates, BroadcastTypeOK
<1> QED
  BY <1>1, ShownIsTold DEF BroadcastInv, ReceiversAgreeWithChip

-----------------------------------------------------------------------------
(* APRS. *)

LEMMA MinutesComeBack ==
  ASSUME NEW m \in 0 .. 59, NEW x, x = (LonMinutes(m) - 28) % 256
  PROVE  (IF x >= 60 THEN x - 60 ELSE x) = m
<1>1. x = IF m <= 9 THEN m + 60 ELSE m
  BY DEF LonMinutes
<1> QED
  BY <1>1

(* The hundred that goes with the degrees, and what becomes of both.       *)
HundredOf(d) == IF d \in 10 .. 99 THEN 0 ELSE 100
DegreesBack(raw) == IF raw \in 180 .. 189 THEN raw - 80
                    ELSE IF raw \in 190 .. 199 THEN raw - 190 ELSE raw

LEMMA DegreesComeBack ==
  ASSUME NEW d \in 0 .. 179
  PROVE  DegreesBack(((LonDegrees(d) - 28) % 256) + HundredOf(d)) = d
<1> DEFINE x == (LonDegrees(d) - 28) % 256
           raw == x + HundredOf(d)
<1>1. x = IF d <= 9 THEN d + 90 ELSE IF d <= 99 THEN d
          ELSE IF d <= 109 THEN d - 20 ELSE d - 100
  BY DEF LonDegrees
<1>2. raw = IF d <= 9 THEN d + 190 ELSE IF d <= 99 THEN d
            ELSE IF d <= 109 THEN d + 80 ELSE d
  BY <1>1 DEF HundredOf
<1> HIDE DEF raw
<1>3. DegreesBack(raw) = d
  BY <1>2 DEF DegreesBack
<1> QED
  BY <1>3 DEF raw

LEMMA AltConstants == AltOffset \in Nat /\ AltMod \in Nat /\ AltOffset < AltMod
BY DEF AltOffset, AltMod

LEMMA PositionFields ==
  ASSUME NEW p \in PositionType
  PROVE  /\ p.lat.deg \in 0 .. 99 /\ p.lat.min \in 0 .. 59 /\ p.lat.frac \in 0 .. 99
         /\ p.lon.deg \in 0 .. 179 /\ p.lon.min \in 0 .. 59 /\ p.lon.frac \in 0 .. 99
         /\ p.alt \in 0 .. AltMod - AltOffset - 1 /\ p.north \in BOOLEAN /\ p.west \in BOOLEAN
<1>1. /\ p.lat \in [deg : 0 .. 99, min : 0 .. 59, frac : 0 .. 99]
      /\ p.lon \in [deg : 0 .. 179, min : 0 .. 59, frac : 0 .. 99]
      /\ p.alt \in 0 .. AltMod - AltOffset - 1
  BY DEF PositionType
<1>2. p.north \in BOOLEAN /\ p.west \in BOOLEAN
  BY DEF PositionType
<1>3. p.lat.deg \in 0 .. 99 /\ p.lat.min \in 0 .. 59 /\ p.lat.frac \in 0 .. 99
  BY <1>1
<1>4. p.lon.deg \in 0 .. 179 /\ p.lon.min \in 0 .. 59 /\ p.lon.frac \in 0 .. 99
  BY <1>1
<1> QED
  BY <1>1, <1>2, <1>3, <1>4

(* What minutes and their hundredths add to an angle, and by how much the  *)
(* two mistakes of the encoder change it.                                  *)
MinPart(m) == (m * 100000) \div 60
HunPart(h) == (h * 100000) \div 6000

LEMMA NineMinutes ==
  ASSUME NEW m \in 0 .. 99, NEW n \in 0 .. 99, m - n \in -9 .. 9
  PROVE  MinPart(m) - MinPart(n) \in -LatSlack .. LatSlack
BY DEF LatSlack, MinPart

LEMMA FractionSent ==
  ASSUME NEW f \in 0 .. 99, NEW h, h = (f * 100) \div 60
  PROVE  /\ h \in 0 .. 165
         /\ HunPart(h) - HunPart(f) \in 0 .. LonSlack
<1>1. h \in 0 .. 165 /\ f <= h /\ 3 * h <= 5 * f
  OBVIOUS
<1>2. (h * 100000) \div 6000 = (h * 50) \div 3 /\ (f * 100000) \div 6000 = (f * 50) \div 3
  BY <1>1
<1>3. (h * 50) \div 3 - (f * 50) \div 3 \in 0 .. 1101
  BY <1>1
<1> QED
  BY <1>1, <1>2, <1>3 DEF LonSlack, HunPart

LEMMA AnglesAreNat ==
  /\ \A m \in Nat : MinPart(m) \in Nat /\ HunPart(m) \in Nat
  /\ \A d, m, h \in Nat : Deg1e5(d, m, h) \in Nat
<1>1. \A m \in Nat : MinPart(m) \in Nat /\ HunPart(m) \in Nat
  BY DEF MinPart, HunPart
<1>2. ASSUME NEW d \in Nat, NEW m \in Nat, NEW h \in Nat
      PROVE  Deg1e5(d, m, h) \in Nat
  <2>1. Deg1e5(d, m, h) = (d * 100000) + MinPart(m) + HunPart(h)
    BY DEF Deg1e5, MinPart, HunPart
  <2> QED
    BY <1>1, <2>1
<1> QED
  BY <1>1, <1>2

LEMMA AnglesDiffer ==
  ASSUME NEW d \in Nat, NEW m \in Nat, NEW n \in Nat, NEW h \in Nat, NEW k \in Nat
  PROVE  Deg1e5(d, m, h) - Deg1e5(d, n, k)
           = (MinPart(m) - MinPart(n)) + (HunPart(h) - HunPart(k))
<1> DEFINE a == MinPart(m)
           b == MinPart(n)
           x == HunPart(h)
           y == HunPart(k)
           e == d * 100000
<1>1. a \in Nat /\ b \in Nat /\ x \in Nat /\ y \in Nat /\ e \in Nat
  BY AnglesAreNat
<1>2. Deg1e5(d, m, h) = e + a + x /\ Deg1e5(d, n, k) = e + b + y
  BY DEF Deg1e5, MinPart, HunPart
<1> HIDE DEF a, b, x, y, e
<1>3. Deg1e5(d, m, h) - Deg1e5(d, n, k) = (a - b) + (x - y)
  BY <1>1, <1>2
<1> QED
  BY <1>3 DEF a, b, x, y

LonRange == 0 .. LonSlack

LEMMA LonNear ==
  ASSUME NEW d \in Nat, NEW m \in Nat, NEW h \in Nat, NEW k \in Nat,
         HunPart(h) - HunPart(k) \in LonRange
  PROVE  Deg1e5(d, m, h) - Deg1e5(d, m, k) \in LonRange
<1>1. MinPart(m) - MinPart(m) = 0
  BY AnglesAreNat
<1> QED
  BY <1>1, AnglesDiffer DEF LonRange

LEMMA LatNear ==
  ASSUME NEW d \in Nat, NEW m \in 0 .. 99, NEW n \in 0 .. 99, NEW h \in Nat,
         m - n \in -9 .. 9
  PROVE  Deg1e5(d, m, h) - Deg1e5(d, n, h) \in -LatSlack .. LatSlack
<1>1. HunPart(h) - HunPart(h) = 0
  BY AnglesAreNat
<1>2. MinPart(m) - MinPart(n) \in -LatSlack .. LatSlack
  BY NineMinutes
<1> QED
  BY <1>1, <1>2, AnglesDiffer

LEMMA SignTwice == \A x \in Int, s \in BOOLEAN : WithSign(WithSign(x, s), s) = x
BY DEF WithSign

LEMMA InfoComesBack ==
  ASSUME NEW p \in PositionType, NEW cfg, NEW lon100 \in {0, 100}, NEW west \in BOOLEAN,
         NEW q, q = mice_decode_info(mice_build_info(p, cfg), lon100, west)
  PROVE  /\ q.alt = p.alt
         /\ lon100 = HundredOf(p.lon.deg) =>
              WithSign(q.lon, ~west) - Deg1e5(p.lon.deg, p.lon.min, p.lon.frac) \in 0 .. LonSlack
<1> DEFINE info == mice_build_info(p, cfg)
           x == (LonDegrees(p.lon.deg) - 28) % 256
           m == (LonMinutes(p.lon.min) - 28) % 256
           raw == x + lon100
           deg == IF raw \in 180 .. 189 THEN raw - 80
                  ELSE IF raw \in 190 .. 199 THEN raw - 190 ELSE raw
           min == IF m >= 60 THEN m - 60 ELSE m
           scaled == (p.lon.frac * 100) \div 60
           hun == (((scaled + 28) % 256) - 28) % 256
<1>1. /\ info.lon[1] = LonDegrees(p.lon.deg) /\ info.lon[2] = LonMinutes(p.lon.min)
      /\ info.lon[3] = (scaled + 28) % 256
      /\ info.alt = (p.alt + AltOffset) % AltMod
  BY Zenon DEF mice_build_info
<1> HIDE DEF info
<1>2. /\ q.lon = WithSign(Deg1e5(deg, min, hun), ~west)
      /\ q.alt = IF info.alt > AltOffset THEN info.alt - AltOffset ELSE 0
  BY <1>1 DEF mice_decode_info, info
<1>3. min = p.lon.min
  BY PositionFields, MinutesComeBack
<1>h. /\ hun = scaled /\ hun \in Nat
      /\ HunPart(hun) - HunPart(p.lon.frac) \in 0 .. LonSlack
  <2>1. /\ scaled \in 0 .. 165
        /\ HunPart(scaled) - HunPart(p.lon.frac) \in 0 .. LonSlack
    BY PositionFields, FractionSent
  <2> HIDE DEF scaled
  <2>2. hun = scaled
    BY <2>1
  <2> QED
    BY <2>1, <2>2
<1>4. q.alt = p.alt
  <2>1. p.alt \in 0 .. AltMod - AltOffset - 1
    BY PositionFields
  <2>2. info.alt = p.alt + AltOffset
    BY <1>1, <2>1, AltConstants
  <2> QED
    BY <1>2, <2>1, <2>2, AltConstants
<1>5. ASSUME lon100 = HundredOf(p.lon.deg)
      PROVE  WithSign(q.lon, ~west) - Deg1e5(p.lon.deg, p.lon.min, p.lon.frac) \in 0 .. LonSlack
  <2>1. deg = DegreesBack(raw)
    BY Zenon DEF DegreesBack
  <2>2. /\ p.lon.deg \in 0 .. 179 /\ p.lon.deg \in Nat
        /\ p.lon.min \in Nat /\ p.lon.frac \in Nat
    BY PositionFields
  <2> HIDE DEF deg
  <2>3. deg = p.lon.deg
    BY <1>5, <2>1, <2>2, DegreesComeBack, Zenon
  <2> DEFINE a == Deg1e5(p.lon.deg, p.lon.min, hun)
             b == Deg1e5(p.lon.deg, p.lon.min, p.lon.frac)
  <2> HIDE DEF hun, min
  <2>4. q.lon = WithSign(a, ~west)
    BY <1>2, <1>3, <2>3
  <2>5. hun \in Nat /\ HunPart(hun) - HunPart(p.lon.frac) \in LonRange
    BY <1>h DEF LonRange
  <2> HIDE DEF hun
  <2>n. p.lon.deg \in Nat /\ p.lon.min \in Nat /\ p.lon.frac \in Nat
    BY <2>2
  <2>6. a - b \in LonRange
    <3> DEFINE e == p.lon.deg
               n == p.lon.min
               k == p.lon.frac
               h == hun
    <3>1. e \in Nat /\ n \in Nat /\ k \in Nat /\ h \in Nat /\ HunPart(h) - HunPart(k) \in LonRange
      BY <2>5, <2>n
    <3> HIDE DEF e, n, k, h
    <3>2. Deg1e5(e, n, h) - Deg1e5(e, n, k) \in LonRange
      BY <3>1, LonNear
    <3> QED
      BY <3>2 DEF e, n, k, h
  <2>a. a \in Nat
    BY <2>2, <2>5, AnglesAreNat
  <2>w. (~west) \in BOOLEAN
    OBVIOUS
  <2> DEFINE east == ~west
  <2> HIDE DEF a, b, east
  <2>7. WithSign(q.lon, east) = a
    <3>1. q.lon = WithSign(a, east) /\ a \in Int /\ east \in BOOLEAN
      BY <2>4, <2>a, <2>w DEF east
    <3> QED
      BY <3>1, SignTwice, Zenon
  <2> QED
    BY <2>6, <2>7, Zenon DEF b, east, LonRange
<1> QED
  BY <1>4, <1>5

LEMMA DecimalDigits ==
  ASSUME NEW d \in 0 .. 99
  PROVE  /\ (d \div 10) % 10 \in 0 .. 9 /\ d % 10 \in 0 .. 9
         /\ 10 * ((d \div 10) % 10) + (d % 10) = d
         /\ (d \div 10) % 10 = d \div 10
OBVIOUS

LEMMA MessageBits ==
  ASSUME NEW m \in 0 .. 7
  PROVE  /\ (m \div 4) % 2 \in 0 .. 1 /\ (m \div 2) % 2 \in 0 .. 1 /\ m % 2 \in 0 .. 1
         /\ (4 * ((m \div 4) % 2)) + (2 * ((m \div 2) % 2)) + (m % 2) = m
OBVIOUS

LEMMA DigitAndBit ==
  ASSUME NEW d \in 0 .. 9, NEW b \in 0 .. 1
  PROVE  LatDigit(mice_digit(d, b)) = d /\ HighBit(mice_digit(d, b)) = b
BY DEF LatDigit, mice_digit, HighBit

LEMMA DigitAndFlag ==
  ASSUME NEW d \in 0 .. 9, NEW c \in BOOLEAN
  PROVE  LatDigit(d + HighIf(c)) = d /\ (d + HighIf(c) >= 80 <=> c)
<1>1. CASE c
  BY <1>1 DEF LatDigit, HighIf
<1>2. CASE ~c
  BY <1>2 DEF LatDigit, HighIf
<1> QED
  BY <1>1, <1>2

LEMMA DestComesBack ==
  ASSUME NEW p \in PositionType, NEW msg \in 0 .. 7,
         NEW q, q = mice_decode_dest(mice_encode_dest(p, msg))
  PROVE  /\ q.msg = msg /\ q.west = p.west
         /\ WithSign(q.lat, p.north) - Deg1e5(p.lat.deg, p.lat.min, p.lat.frac)
              \in -LatSlack .. LatSlack
         /\ q.lon100 = IF p.lon.frac < 10 THEN 100 ELSE 0
<1> DEFINE bits == 7 - msg
           d == mice_encode_dest(p, msg)
           deg == (10 * LatDigit(d[1])) + LatDigit(d[2])
           min == (10 * LatDigit(d[3])) + LatDigit(d[4])
           frac == (10 * LatDigit(d[5])) + LatDigit(d[6])
<1>1. /\ p.lat.deg \in 0 .. 99 /\ p.lat.min \in 0 .. 59 /\ p.lat.frac \in 0 .. 99
      /\ p.lon.frac \in 0 .. 99 /\ p.north \in BOOLEAN /\ p.west \in BOOLEAN
  BY PositionFields
<1>2. /\ d[1] = mice_digit((p.lat.deg \div 10) % 10, (bits \div 4) % 2)
      /\ d[2] = mice_digit(p.lat.deg % 10, (bits \div 2) % 2)
      /\ d[3] = mice_digit((p.lat.min \div 10) % 10, bits % 2)
      /\ d[4] = (p.lat.frac % 10) + HighIf(p.north)
      /\ d[5] = ((p.lat.frac \div 10) % 10) + HighIf(p.lon.frac < 10)
      /\ d[6] = (p.lat.frac % 10) + HighIf(p.west)
  BY DEF mice_encode_dest
<1> HIDE DEF d
<1>3. bits \in 0 .. 7 /\ msg = 7 - bits
  OBVIOUS
<1> HIDE DEF bits
<1>4. /\ q.msg = 7 - ((4 * HighBit(d[1])) + (2 * HighBit(d[2])) + HighBit(d[3]))
      /\ q.lat = WithSign(Deg1e5(deg, min, frac), d[4] >= 80)
      /\ q.lon100 = (IF d[5] >= 80 THEN 100 ELSE 0) /\ q.west = (d[6] >= 80)
  BY Zenon DEF d, mice_decode_dest
<1>5. /\ LatDigit(d[1]) = (p.lat.deg \div 10) % 10 /\ HighBit(d[1]) = (bits \div 4) % 2
      /\ LatDigit(d[2]) = p.lat.deg % 10 /\ HighBit(d[2]) = (bits \div 2) % 2
  BY <1>1, <1>2, <1>3, DecimalDigits, MessageBits, DigitAndBit
<1>6. LatDigit(d[3]) = (p.lat.min \div 10) % 10 /\ HighBit(d[3]) = bits % 2
  <2>1. p.lat.min \in 0 .. 99
    BY <1>1
  <2> QED
    BY <2>1, <1>2, <1>3, DecimalDigits, MessageBits, DigitAndBit
<1> DEFINE tens == (p.lat.frac \div 10) % 10
           ones == p.lat.frac % 10
           near == p.lon.frac < 10
<1>t. tens \in 0 .. 9 /\ ones \in 0 .. 9 /\ near \in BOOLEAN
  BY <1>1, DecimalDigits
<1>u. /\ d[4] = ones + HighIf(p.north) /\ d[5] = tens + HighIf(near)
      /\ d[6] = ones + HighIf(p.west)
  BY <1>2
<1>v. 10 * tens + ones = p.lat.frac
  BY <1>1, DecimalDigits
<1>w. near = (p.lon.frac < 10)
  OBVIOUS
<1> HIDE DEF tens, ones, near
<1>7. LatDigit(d[4]) = ones /\ (d[4] >= 80 <=> p.north)
  BY <1>1, <1>t, <1>u, DigitAndFlag, Zenon
<1>8. LatDigit(d[5]) = tens /\ (d[5] >= 80 <=> near)
  BY <1>t, <1>u, DigitAndFlag, Zenon
<1>9. LatDigit(d[6]) = ones /\ (d[6] >= 80 <=> p.west)
  BY <1>1, <1>t, <1>u, DigitAndFlag, Zenon
<1>10. q.msg = msg
  BY <1>3, <1>4, <1>5, <1>6, MessageBits
<1>11. deg = p.lat.deg /\ frac = p.lat.frac
  BY <1>1, <1>5, <1>v, <1>8, <1>9, DecimalDigits
<1>12. min \in 0 .. 99 /\ min - p.lat.min \in -9 .. 9
  <2> DEFINE t == p.lat.min \div 10
             u == ones
  <2>1. t \in 0 .. 9 /\ u \in 0 .. 9 /\ (p.lat.min \div 10) % 10 = t
    BY <1>1, <1>t
  <2>2. min = 10 * t + u /\ p.lat.min - 10 * t \in 0 .. 9 /\ p.lat.min \in 0 .. 59
    BY <1>1, <1>6, <1>7, <2>1
  <2> HIDE DEF t, u, min
  <2> QED
    BY <2>1, <2>2
<1> HIDE DEF deg, min, frac
<1>13. q.west = p.west /\ q.lon100 = IF p.lon.frac < 10 THEN 100 ELSE 0
  <2> DEFINE w == d[6] >= 80
  <2>1. w \in BOOLEAN /\ (w <=> p.west)
    BY <1>9
  <2>2. q.west = w
    BY <1>4
  <2>3. q.lon100 = IF p.lon.frac < 10 THEN 100 ELSE 0
    BY <1>4, <1>8, <1>w
  <2> HIDE DEF w
  <2> QED
    BY <1>1, <2>1, <2>2, <2>3, Zenon
<1>14. WithSign(q.lat, p.north) - Deg1e5(p.lat.deg, p.lat.min, p.lat.frac)
         \in -LatSlack .. LatSlack
  <2> DEFINE n == d[4] >= 80
             a == Deg1e5(p.lat.deg, min, p.lat.frac)
             b == Deg1e5(p.lat.deg, p.lat.min, p.lat.frac)
  <2>1. n \in BOOLEAN /\ (n <=> p.north)
    BY <1>7
  <2>2. q.lat = WithSign(a, n)
    BY <1>4, <1>11
  <2>3. p.lat.deg \in Nat /\ p.lat.min \in 0 .. 99 /\ p.lat.frac \in Nat /\ min \in Nat
    BY <1>1, <1>12
  <2>4. a \in Nat
    BY <2>3, AnglesAreNat
  <2>8. a - b \in -LatSlack .. LatSlack
    BY <1>12, <2>3, LatNear, Zenon
  <2> HIDE DEF n, a, b
  <2>6. n = p.north
    <3>1. p.north \in BOOLEAN
      BY <1>1
    <3>2. CASE n = TRUE
      BY <2>1, <3>1, <3>2
    <3>3. CASE n = FALSE
      BY <2>1, <3>1, <3>3
    <3> QED
      BY <2>1, <3>2, <3>3
  <2>7. WithSign(q.lat, p.north) = a
    <3>1. q.lat = WithSign(a, p.north) /\ a \in Int /\ p.north \in BOOLEAN
      BY <1>1, <2>2, <2>4, <2>6
    <3> QED
      BY <3>1, SignTwice, Zenon
  <2> QED
    BY <2>7, <2>8, Zenon DEF b
<1> QED
  BY <1>10, <1>13, <1>14

LEMMA ShortConcats ==
  /\ << >> \o << >> = << >>
  /\ \A a : << >> \o <<a>> = <<a>> /\ <<a>> \o << >> = <<a>>
  /\ \A a, b : <<a>> \o <<b>> = <<a, b>>
  /\ \A a, b, c : <<a>> \o <<b, c>> = <<a, b, c>>
<1>1. ASSUME NEW a PROVE << >> \o <<a>> = <<a>> /\ <<a>> \o << >> = <<a>>
  <2>1. <<a>> \in Seq({a})
    OBVIOUS
  <2> QED
    BY <2>1, ConcatEmptySeq
<1>2. ASSUME NEW a, NEW b PROVE <<a>> \o <<b>> = <<a, b>>
  <2> DEFINE S == {a, b}
             s == <<a>>
             t == <<b>>
             u == <<a, b>>
  <2>1. /\ s \in Seq(S) /\ t \in Seq(S) /\ u \in Seq(S) /\ Len(s) = 1 /\ Len(t) = 1
        /\ Len(u) = 2 /\ s[1] = a /\ t[1] = b /\ u[1] = a /\ u[2] = b
    OBVIOUS
  <2> HIDE DEF S, s, t, u
  <2>2. /\ s \o t \in Seq(S) /\ Len(s \o t) = 2
        /\ \A i \in 1 .. 2 : (s \o t)[i] = IF i <= 1 THEN s[i] ELSE t[i - 1]
    BY <2>1, ConcatProperties
  <2>3. \A i \in 1 .. 2 : (s \o t)[i] = u[i]
    BY <2>1, <2>2
  <2>4. s \o t = u
    BY <2>1, <2>2, <2>3, SeqEqual
  <2> QED
    BY <2>4 DEF s, t, u
<1>3. ASSUME NEW a, NEW b, NEW c PROVE <<a>> \o <<b, c>> = <<a, b, c>>
  <2> DEFINE S == {a, b, c}
             s == <<a>>
             t == <<b, c>>
             u == <<a, b, c>>
  <2>1. /\ s \in Seq(S) /\ t \in Seq(S) /\ u \in Seq(S) /\ Len(s) = 1 /\ Len(t) = 2
        /\ Len(u) = 3 /\ s[1] = a /\ t[1] = b /\ t[2] = c
        /\ u[1] = a /\ u[2] = b /\ u[3] = c
    OBVIOUS
  <2> HIDE DEF S, s, t, u
  <2>2. /\ s \o t \in Seq(S) /\ Len(s \o t) = 3
        /\ \A i \in 1 .. 3 : (s \o t)[i] = IF i <= 1 THEN s[i] ELSE t[i - 1]
    <3>1. /\ s \o t \in Seq(S) /\ Len(s \o t) = Len(s) + Len(t)
          /\ \A i \in 1 .. Len(s) + Len(t) :
               (s \o t)[i] = IF i <= Len(s) THEN s[i] ELSE t[i - Len(s)]
      BY <2>1, ConcatProperties, Zenon
    <3> QED
      BY <2>1, <3>1
  <2>3. \A i \in 1 .. 3 : (s \o t)[i] = u[i]
    BY <2>1, <2>2
  <2>4. s \o t = u
    BY <2>1, <2>2, <2>3, SeqEqual
  <2> QED
    BY <2>4 DEF s, t, u
<1>4. << >> \o << >> = << >>
  OBVIOUS
<1> QED
  BY <1>1, <1>2, <1>3, <1>4

(* Where a list of addresses may end, as the receiver sees it.             *)
Ends(s) == {i \in DOMAIN s : s[i].last}

LEMMA EndsOfOne ==
  ASSUME NEW a, NEW s, s = <<a>>
  PROVE  /\ Len(s) = 1
         /\ a.last => Ends(s) = {1}
         /\ ~a.last => Ends(s) = {}
BY DEF Ends

LEMMA EndsOfTwo ==
  ASSUME NEW a, NEW b, NEW s, s = <<a, b>>, ~a.last, b.last
  PROVE  Len(s) = 2 /\ Ends(s) = {2}
<1>1. DOMAIN s = {1, 2} /\ s[1] = a /\ s[2] = b
  OBVIOUS
<1>2. Ends(s) = {2}
  <2>1. 1 # 2
    OBVIOUS
  <2> QED
  BY <1>1, <2>1, Zenon DEF Ends
<1> QED
  BY <1>2

LEMMA EndsOfThree ==
  ASSUME NEW a, NEW b, NEW c, NEW s, s = <<a, b, c>>, ~a.last, ~b.last, c.last
  PROVE  Len(s) = 3 /\ Ends(s) = {3}
<1>1. DOMAIN s = {1, 2, 3} /\ s[1] = a /\ s[2] = b /\ s[3] = c
  OBVIOUS
<1>2. Ends(s) = {3}
  <2>1. 1 # 3 /\ 2 # 3
    OBVIOUS
  <2> QED
    BY <1>1, <2>1, Zenon DEF Ends
<1> QED
  BY <1>2

(* The addresses of a frame with each kind of path.                        *)
Source(cfg) == Address(cfg.call, cfg.ssid, cfg.path = "NONE")
HeardPath(path) == [i \in DOMAIN path |-> <<path[i].call, path[i].ssid>>]
Expected(cfg) == Named(cfg.path1, cfg.ssid1) \o Named(cfg.path2, cfg.ssid2)

PathEnds(cfg, addrs) ==
  /\ Len(addrs) \in Nat
  /\ Unmarked(cfg) => Ends(addrs) = {}
  /\ ~Unmarked(cfg) => Ends(addrs) = {Len(addrs)}

LEMMA HeardOfOne ==
  ASSUME NEW a, NEW s, s = <<a>>
  PROVE  HeardPath(s) = << <<a.call, a.ssid>> >>
<1>1. DOMAIN s = 1 .. 1 /\ s[1] = a
  OBVIOUS
<1> QED
  BY <1>1 DEF HeardPath

LEMMA HeardOfTwo ==
  ASSUME NEW a, NEW b, NEW s, s = <<a, b>>
  PROVE  HeardPath(s) = << <<a.call, a.ssid>>, <<b.call, b.ssid>> >>
<1> DEFINE p == <<a.call, a.ssid>>
           q == <<b.call, b.ssid>>
           h == HeardPath(s)
           t == <<p, q>>
           S == {p, q}
<1>1. Len(s) = 2 /\ DOMAIN s = 1 .. 2 /\ s[1] = a /\ s[2] = b
  OBVIOUS
<1>2. DOMAIN h = 1 .. 2 /\ h[1] = p /\ h[2] = q /\ h \in [1 .. 2 -> S]
  BY <1>1 DEF HeardPath
<1> HIDE DEF h, p, q
<1>4. t \in [1 .. 2 -> S] /\ t[1] = p /\ t[2] = q
  OBVIOUS
<1> HIDE DEF S, t
<1>5. \A i \in 1 .. 2 : h[i] = t[i]
  BY <1>2, <1>4
<1>6. h = t
  BY <1>2, <1>4, <1>5
<1> QED
  BY <1>6 DEF h, t, p, q

LEMMA PathEndsAt ==
  ASSUME NEW cfg, NEW addrs, NEW n \in Nat, Len(addrs) = n,
         Unmarked(cfg) => Ends(addrs) = {}, ~Unmarked(cfg) => Ends(addrs) = {n}
  PROVE  PathEnds(cfg, addrs)
BY Zenon DEF PathEnds

LEMMA FixedPaths ==
  ASSUME NEW cfg \in ConfigType, cfg.path # "CUSTOM",
         NEW addrs, addrs = <<Source(cfg)>> \o DigiPath(cfg)
  PROVE  PathEnds(cfg, addrs) /\ Len(DigiPath(cfg)) \in Nat
<1> DEFINE w1 == Address("WIDE1", 1, TRUE)
           v1 == Address("WIDE1", 1, FALSE)
           v2 == Address("WIDE2", 1, TRUE)
<1>1. w1.last /\ ~v1.last /\ v2.last
  BY DEF Address
<1> HIDE DEF w1, v1, v2
<1>2. ~Unmarked(cfg)
  BY DEF Unmarked
<1>3. cfg.path \in {"NONE", "WIDE1_1", "WIDE1_WIDE2"}
  BY DEF ConfigType
<1>4. CASE cfg.path = "NONE"
  <2>1. DigiPath(cfg) = << >>
    BY <1>4 DEF DigiPath, w1, v1, v2
  <2>2. addrs = <<Source(cfg)>>
    BY <2>1, ShortConcats, Zenon
  <2>3a. Source(cfg).last
    BY <1>4 DEF Source, Address
  <2>3. Len(addrs) = 1 /\ Ends(addrs) = {1}
    BY <2>2, <2>3a, EndsOfOne, Zenon
  <2> QED
    BY <1>2, <2>1, <2>3 DEF PathEnds
<1>5. ASSUME cfg.path # "NONE" PROVE ~Source(cfg).last
  BY <1>5 DEF Source, Address
<1>6. CASE cfg.path = "WIDE1_1"
  <2>1. DigiPath(cfg) = <<w1>>
    BY <1>6, Zenon DEF DigiPath, w1
  <2>2. addrs = <<Source(cfg), w1>> /\ ~Source(cfg).last
    BY <1>5, <1>6, <2>1, ShortConcats, Zenon
  <2>3. Len(addrs) = 2 /\ Ends(addrs) = {2}
    BY <1>1, <2>2, EndsOfTwo, Zenon
  <2> QED
    BY <1>2, <2>1, <2>3 DEF PathEnds
<1>7. CASE cfg.path = "WIDE1_WIDE2"
  <2>1. DigiPath(cfg) = <<v1, v2>>
    BY <1>7, Zenon DEF DigiPath, v1, v2
  <2>2. addrs = <<Source(cfg), v1, v2>> /\ ~Source(cfg).last
    BY <1>5, <1>7, <2>1, ShortConcats, Zenon
  <2>3. Len(addrs) = 3 /\ Ends(addrs) = {3}
    BY <1>1, <2>2, EndsOfThree, Zenon
  <2> QED
    BY <1>2, <2>1, <2>3 DEF PathEnds
<1> QED
  BY <1>3, <1>4, <1>6, <1>7

LEMMA CustomPaths ==
  ASSUME NEW cfg \in ConfigType, cfg.path = "CUSTOM",
         NEW addrs, addrs = <<Source(cfg)>> \o DigiPath(cfg)
  PROVE  /\ PathEnds(cfg, addrs) /\ Len(DigiPath(cfg)) \in Nat
         /\ HeardPath(DigiPath(cfg)) = Expected(cfg)
<1> DEFINE a1 == Address(cfg.path1, cfg.ssid1, cfg.path2 = "")
           a2 == Address(cfg.path2, cfg.ssid2, TRUE)
           h1 == <<cfg.path1, cfg.ssid1>>
           h2 == <<cfg.path2, cfg.ssid2>>
<1>1. /\ a1.call = cfg.path1 /\ a1.ssid = cfg.ssid1 /\ (a1.last <=> cfg.path2 = "")
      /\ a2.call = cfg.path2 /\ a2.ssid = cfg.ssid2 /\ a2.last
      /\ ~Source(cfg).last
  BY DEF Source, Address
<1>2. /\ DigiPath(cfg) = (IF cfg.path1 = "" THEN << >> ELSE <<a1>>)
                         \o (IF cfg.path2 = "" THEN << >> ELSE <<a2>>)
      /\ Expected(cfg) = (IF cfg.path1 = "" THEN << >> ELSE <<h1>>)
                         \o (IF cfg.path2 = "" THEN << >> ELSE <<h2>>)
  <2>1. DigiPath(cfg) = CustomPath(cfg)
    BY DEF DigiPath
  <2> QED
    BY <2>1, Zenon DEF CustomPath, Expected, Named
<1>3. Unmarked(cfg) <=> cfg.path1 = "" /\ cfg.path2 = ""
  BY DEF Unmarked
<1> HIDE DEF a1, a2
<1>4. CASE cfg.path1 = "" /\ cfg.path2 = ""
  <2>1. DigiPath(cfg) = << >> /\ Expected(cfg) = << >>
    BY <1>2, <1>4, ShortConcats, Zenon
  <2>2. addrs = <<Source(cfg)>>
    BY <2>1, ShortConcats, Zenon
  <2>3. Len(addrs) = 1 /\ Ends(addrs) = {}
    BY <1>1, <2>2, EndsOfOne, Zenon
  <2>4. HeardPath(DigiPath(cfg)) = << >>
    BY <2>1 DEF HeardPath
  <2> QED
    <3>1. PathEnds(cfg, addrs)
      <4>1. Unmarked(cfg) /\ 1 \in Nat
        BY <1>3, <1>4
      <4> QED
        BY <2>3, <4>1, PathEndsAt, Zenon
    <3>2. Len(DigiPath(cfg)) \in Nat
      BY <2>1
    <3> QED
      BY <2>1, <2>4, <3>1, <3>2, Zenon
<1>5. CASE cfg.path1 # "" /\ cfg.path2 = ""
  <2>1. DigiPath(cfg) = <<a1>> /\ Expected(cfg) = <<h1>>
    BY <1>2, <1>5, ShortConcats, Zenon
  <2>2. addrs = <<Source(cfg), a1>> /\ a1.last
    BY <1>1, <1>5, <2>1, ShortConcats, Zenon
  <2>3. Len(addrs) = 2 /\ Ends(addrs) = {2}
    BY <1>1, <2>2, EndsOfTwo, Zenon
  <2>4. HeardPath(DigiPath(cfg)) = <<h1>>
    BY <1>1, <2>1, HeardOfOne, HeardOfTwo, Zenon
  <2> QED
    <3>1. PathEnds(cfg, addrs)
      <4>1. ~Unmarked(cfg) /\ 2 \in Nat
        BY <1>3, <1>5
      <4> QED
        BY <2>3, <4>1, PathEndsAt, Zenon
    <3>2. Len(DigiPath(cfg)) \in Nat
      BY <2>1
    <3> QED
      BY <2>1, <2>4, <3>1, <3>2, Zenon
<1>6. CASE cfg.path1 = "" /\ cfg.path2 # ""
  <2>1. DigiPath(cfg) = <<a2>> /\ Expected(cfg) = <<h2>>
    BY <1>2, <1>6, ShortConcats, Zenon
  <2>2. addrs = <<Source(cfg), a2>>
    BY <2>1, ShortConcats, Zenon
  <2>3. Len(addrs) = 2 /\ Ends(addrs) = {2}
    BY <1>1, <2>2, EndsOfTwo, Zenon
  <2>4. HeardPath(DigiPath(cfg)) = <<h2>>
    BY <1>1, <2>1, HeardOfOne, HeardOfTwo, Zenon
  <2> QED
    <3>1. PathEnds(cfg, addrs)
      <4>1. ~Unmarked(cfg) /\ 2 \in Nat
        BY <1>3, <1>6
      <4> QED
        BY <2>3, <4>1, PathEndsAt, Zenon
    <3>2. Len(DigiPath(cfg)) \in Nat
      BY <2>1
    <3> QED
      BY <2>1, <2>4, <3>1, <3>2, Zenon
<1>7. CASE cfg.path1 # "" /\ cfg.path2 # ""
  <2>1. DigiPath(cfg) = <<a1, a2>> /\ Expected(cfg) = <<h1, h2>>
    BY <1>2, <1>7, ShortConcats, Zenon
  <2>2. addrs = <<Source(cfg), a1, a2>> /\ ~a1.last
    <3>1. addrs = <<Source(cfg)>> \o <<a1, a2>>
      BY <2>1
    <3>2. <<Source(cfg)>> \o <<a1, a2>> = <<Source(cfg), a1, a2>>
      BY ShortConcats
    <3>3. ~a1.last
      BY <1>1, <1>7
    <3> QED
      BY <3>1, <3>2, <3>3, Zenon
  <2>3. Len(addrs) = 3 /\ Ends(addrs) = {3}
    BY <1>1, <2>2, EndsOfThree, Zenon
  <2>4. HeardPath(DigiPath(cfg)) = <<h1, h2>>
    <3>1. HeardPath(DigiPath(cfg)) = << <<a1.call, a1.ssid>>, <<a2.call, a2.ssid>> >>
      BY <2>1, HeardOfTwo, Zenon
    <3> QED
      BY <1>1, <3>1, Zenon
  <2> QED
    <3>1. PathEnds(cfg, addrs)
      <4>1. ~Unmarked(cfg) /\ 3 \in Nat
        BY <1>3, <1>7
      <4> QED
        BY <2>3, <4>1, PathEndsAt, Zenon
    <3>2. Len(DigiPath(cfg)) \in Nat
      BY <2>1
    <3> QED
      BY <2>1, <2>4, <3>1, <3>2, Zenon
<1> QED
  BY <1>4, <1>5, <1>6, <1>7

LEMMA PathsEnd ==
  ASSUME NEW cfg \in ConfigType
  PROVE  /\ PathEnds(cfg, <<Source(cfg)>> \o DigiPath(cfg))
         /\ cfg.path = "CUSTOM" => HeardPath(DigiPath(cfg)) = Expected(cfg)
BY FixedPaths, CustomPaths, Zenon

(* What the receiver makes of a frame that ends where it should.           *)
Packet(f) ==
  LET dest == mice_decode_dest(f.dest)
      info == mice_decode_info(f.info, dest.lon100, dest.west)
  IN [call |-> f.source.call, ssid |-> f.source.ssid, path |-> HeardPath(f.path),
      msg |-> dest.msg, lat |-> dest.lat, lon |-> info.lon, alt |-> info.alt,
      symbol |-> f.info.symbol, comment |-> f.info.comment]

LEMMA ParsedIs ==
  ASSUME NEW f
  PROVE  LET addrs == <<f.source>> \o f.path
         IN parse_ax25_frame(f) = IF Ends(addrs) # {Len(addrs)} THEN Missing
                                  ELSE <<Packet(f)>>
BY Zenon DEF parse_ax25_frame, Ends, Packet, HeardPath

LEMMA FrameParts ==
  ASSUME NEW p, NEW cfg, NEW f, f = build_ax25_frame(p, cfg)
  PROVE  /\ f.dest = mice_encode_dest(p, cfg.msg) /\ f.source = Source(cfg)
         /\ f.path = DigiPath(cfg) /\ f.info = mice_build_info(p, cfg)
         /\ Source(cfg).call = cfg.call /\ Source(cfg).ssid = cfg.ssid
<1>1. Source(cfg).call = cfg.call /\ Source(cfg).ssid = cfg.ssid
  BY DEF Source, Address
<1> QED
  BY <1>1 DEF build_ax25_frame, Source

LEMMA PacketComesBack ==
  ASSUME NEW p \in PositionType, NEW cfg \in ConfigType, cfg.msg \in 0 .. 7,
         NEW f, f = build_ax25_frame(p, cfg)
  PROVE  ComesBack(p, Packet(f), cfg) /\ Packet(f).path = HeardPath(DigiPath(cfg))
<1> DEFINE q == Packet(f)
           dest == mice_decode_dest(mice_encode_dest(p, cfg.msg))
           info == mice_decode_info(mice_build_info(p, cfg), dest.lon100, dest.west)
<1>1. /\ f.dest = mice_encode_dest(p, cfg.msg) /\ f.source = Source(cfg)
      /\ f.path = DigiPath(cfg) /\ f.info = mice_build_info(p, cfg)
      /\ Source(cfg).call = cfg.call /\ Source(cfg).ssid = cfg.ssid
  BY FrameParts
<1>2. /\ q.call = cfg.call /\ q.ssid = cfg.ssid /\ q.path = HeardPath(DigiPath(cfg))
      /\ q.msg = dest.msg /\ q.lat = dest.lat /\ q.lon = info.lon /\ q.alt = info.alt
  BY <1>1 DEF Packet
<1>3. /\ dest.msg = cfg.msg /\ dest.west = p.west
      /\ WithSign(dest.lat, p.north) - Deg1e5(p.lat.deg, p.lat.min, p.lat.frac)
           \in -LatSlack .. LatSlack
      /\ dest.lon100 = IF p.lon.frac < 10 THEN 100 ELSE 0
  BY DestComesBack
<1> HIDE DEF q, dest
<1>4. dest.lon100 \in {0, 100} /\ dest.west \in BOOLEAN
  <2>1. dest.west \in BOOLEAN
    BY <1>3, PositionFields, Zenon
  <2> QED
    BY <1>3, <2>1
<1>5. /\ info.alt = p.alt
      /\ dest.lon100 = HundredOf(p.lon.deg) =>
           WithSign(info.lon, ~dest.west) - Deg1e5(p.lon.deg, p.lon.min, p.lon.frac)
             \in 0 .. LonSlack
  BY <1>4, InfoComesBack
<1> HIDE DEF info
<1>6. ASSUME InStep(p)
      PROVE  dest.lon100 = HundredOf(p.lon.deg)
  <2>1. p.lon.frac < 10 <=> ~(p.lon.frac >= 10)
    BY PositionFields
  <2> QED
    BY <1>3, <1>6, <2>1 DEF HundredOf, InStep
<1>7. ComesBack(p, q, cfg)
  BY <1>2, <1>3, <1>5, <1>6, Zenon DEF ComesBack, LatOff, LonOff
<1> QED
  BY <1>2, <1>7 DEF q

(* A frame comes back unless none of its addresses is marked as the last.  *)
LEMMA FrameComesBack ==
  ASSUME NEW p \in PositionType, NEW cfg \in ConfigType, cfg.msg \in 0 .. 7,
         NEW f, f = build_ax25_frame(p, cfg), NEW q, q = parse_ax25_frame(f)
  PROVE  /\ q = Missing <=> Unmarked(cfg)
         /\ q # Missing => /\ ComesBack(p, q[1], cfg)
                           /\ cfg.path = "CUSTOM" => q[1].path = Expected(cfg)
<1> DEFINE addrs == <<Source(cfg)>> \o DigiPath(cfg)
<1>1. PathEnds(cfg, addrs) /\ (cfg.path = "CUSTOM" => HeardPath(DigiPath(cfg)) = Expected(cfg))
  BY PathsEnd
<1>2. q = IF Ends(addrs) # {Len(addrs)} THEN Missing ELSE <<Packet(f)>>
  <2>1. f.source = Source(cfg) /\ f.path = DigiPath(cfg)
    BY FrameParts
  <2> QED
    BY <2>1, ParsedIs, Zenon
<1> HIDE DEF addrs
<1>3. CASE Unmarked(cfg)
  <2>1. Ends(addrs) # {Len(addrs)}
    BY <1>1, <1>3 DEF PathEnds
  <2> QED
    BY <1>2, <1>3, <2>1
<1>4. CASE ~Unmarked(cfg)
  <2>1. q = <<Packet(f)>>
    BY <1>1, <1>2, <1>4 DEF PathEnds
  <2>2. q[1] = Packet(f) /\ q # Missing
    BY <2>1 DEF Missing
  <2>3. ComesBack(p, Packet(f), cfg) /\ Packet(f).path = HeardPath(DigiPath(cfg))
    BY PacketComesBack
  <2> QED
    BY <1>1, <1>4, <2>2, <2>3, Zenon
<1> QED
  BY <1>3, <1>4

(* The turns of the loop that feeds a frame of so many bytes: all but the  *)
(* last fill the FIFO.                                                     *)
LEMMA RoundedUp ==
  ASSUME NEW bytes \in Nat \ {0}, NEW full \in Nat \ {0}, NEW q \in Int,
         NEW r \in 0 .. full - 1, bytes = (full * q) + r
  PROVE  /\ q \in Nat /\ (r = 0 => q # 0)
         /\ (bytes + (full - 1)) \div full = IF r = 0 THEN q ELSE q + 1
<1>1. q \in Nat
  <2> SUFFICES ASSUME q <= -1 PROVE FALSE
    OBVIOUS
  <2>1. full * q <= full * (-1)
    BY TimesMonotone
  <2>2. full * (-1) = -full
    OBVIOUS
  <2> QED
    BY <2>1, <2>2
<1> DEFINE p == full * q
<1>2. p \in Int /\ full * (q + 1) = p + full /\ bytes = p + r
  OBVIOUS
<1>3. q = 0 => p = 0
  OBVIOUS
<1>4. r = 0 => q # 0
  BY <1>2, <1>3
<1>5. CASE r = 0
  <2>1. bytes + (full - 1) = p + (full - 1) /\ full - 1 \in 0 .. full - 1
    BY <1>2, <1>5
  <2>2. (bytes + (full - 1)) \div full = q
    BY <2>1, DivUnique
  <2> QED
    BY <1>1, <1>4, <1>5, <2>2
<1>6. CASE r # 0
  <2>1. bytes + (full - 1) = full * (q + 1) + (r - 1) /\ r - 1 \in 0 .. full - 1
    <3> HIDE DEF p
    <3> QED
      BY <1>2, <1>6
  <2>2. q + 1 \in Int /\ bytes + (full - 1) \in Int
    OBVIOUS
  <2>3. (bytes + (full - 1)) \div full = q + 1
    BY <2>1, <2>2, DivUnique
  <2> QED
    BY <1>1, <1>4, <1>6, <2>3
<1> QED
  BY <1>5, <1>6

LEMMA FifoTurns ==
  ASSUME NEW bytes \in Nat \ {0}
  PROVE  LET full == 2 * FifoWords
             n == (bytes + (full - 1)) \div full
             r == bytes % full
         IN /\ n \in Nat \ {0} /\ full \in Nat \ {0} /\ r \in 0 .. full - 1
            /\ bytes = IF r = 0 THEN full * n ELSE full * (n - 1) + r
<1> DEFINE full == 2 * FifoWords
           n == (bytes + (full - 1)) \div full
           r == bytes % full
           q == bytes \div full
<1>1. full \in Nat \ {0}
  BY AprsAssumption
<1> HIDE DEF full
<1>2. q \in Int /\ r \in 0 .. full - 1 /\ bytes = (full * q) + r
  BY <1>1, DivMod
<1> HIDE DEF q, r
<1>3. q \in Nat /\ (r = 0 => q # 0) /\ n = IF r = 0 THEN q ELSE q + 1
  BY <1>1, <1>2, RoundedUp
<1> HIDE DEF n
<1>4. n \in Nat \ {0}
  BY <1>3
<1>5. r # 0 => n - 1 = q
  BY <1>3
<1>6. bytes = IF r = 0 THEN full * n ELSE full * (n - 1) + r
  <2>1. full * q \in Int
    BY <1>1, <1>2
  <2>2. CASE r = 0
    <3>1. n = q /\ bytes = full * q
      BY <1>2, <1>3, <2>1, <2>2
    <3> QED
      BY <2>2, <3>1, Zenon
  <2>3. CASE r # 0
    BY <1>2, <1>5, <2>3, Zenon
  <2> QED
    BY <2>2, <2>3
<1> QED
  BY <1>1, <1>2, <1>4, <1>6 DEF full, n, r

LEMMA LoadsAre ==
  ASSUME NEW bytes \in Nat \ {0}, NEW loads, loads = Loads(bytes)
  PROVE  \E n \in Nat \ {0} :
           /\ DOMAIN loads = 1 .. n /\ Len(loads) = n
           /\ \A i \in 1 .. n - 1 : loads[i] = FifoWords
           /\ loads[n] \in 1 .. FifoWords
           /\ (n - 1) * FifoWords + loads[n] = (bytes + 1) \div 2
           /\ 2 * ((n - 1) * FifoWords) < bytes
           /\ bytes <= 2 * FifoWords <=> n = 1
<1> DEFINE full == 2 * FifoWords
           n == (bytes + (full - 1)) \div full
           r == bytes % full
           k == (n - 1) * FifoWords
           last == IF r = 0 THEN FifoWords ELSE (r + 1) \div 2
<1>1. loads = [i \in 1 .. n |-> IF i < n \/ r = 0 THEN FifoWords ELSE (r + 1) \div 2]
  BY DEF Loads
<1>2. /\ n \in Nat \ {0} /\ full \in Nat \ {0} /\ r \in 0 .. full - 1
      /\ bytes = IF r = 0 THEN full * n ELSE full * (n - 1) + r
  BY FifoTurns, Zenon
<1>3. FifoWords \in Nat \ {0}
  BY AprsAssumption
<1>w. full = 2 * FifoWords
  OBVIOUS
<1> HIDE DEF n, r, full
<1>4. DOMAIN loads = 1 .. n /\ Len(loads) = n
  BY <1>1, <1>2
<1>5. \A i \in 1 .. n - 1 : loads[i] = FifoWords
  BY <1>1, <1>2
<1>6. loads[n] = last
  BY <1>1, <1>2
<1>7. last \in 1 .. FifoWords
  BY <1>2, <1>3, <1>w
<1>8. full * (n - 1) = 2 * k /\ k \in Nat
  <2>1. (n - 1) \in Nat
    BY <1>2
  <2>2. k \in Nat
    BY <1>3, <2>1
  <2>3. (2 * FifoWords) * (n - 1) = 2 * ((n - 1) * FifoWords)
    BY <1>3, <2>1
  <2> QED
    BY <1>w, <2>2, <2>3
<1>9. full * n = 2 * k + full
  <2>1. full * n = full * (n - 1) + full
    BY <1>2
  <2> QED
    BY <1>8, <2>1
<1>k. n # 1 => k >= FifoWords
  <2> SUFFICES ASSUME n # 1 PROVE k >= FifoWords
    OBVIOUS
  <2>1. 1 <= n - 1 /\ n - 1 \in Int
    BY <1>2
  <2>2. FifoWords * 1 <= FifoWords * (n - 1)
    BY <1>3, <2>1, TimesMonotone
  <2>3. FifoWords * (n - 1) = k /\ FifoWords * 1 = FifoWords
    BY <1>3, <2>1
  <2> QED
    BY <2>2, <2>3
<1>l. n = 1 => k = 0
  BY <1>3
<1> HIDE DEF k
<1>10. k + last = (bytes + 1) \div 2 /\ 2 * k < bytes /\ bytes <= 2 * k + full
  BY <1>2, <1>3, <1>8, <1>9, <1>w
<1>11. bytes <= 2 * FifoWords <=> n = 1
  BY <1>3, <1>8, <1>10, <1>k, <1>l, <1>w
<1> HIDE DEF last
<1> QED
  <2>1. /\ (n - 1) * FifoWords + loads[n] = (bytes + 1) \div 2
        /\ 2 * ((n - 1) * FifoWords) < bytes
    BY <1>6, <1>10 DEF k
  <2>2. loads[n] \in 1 .. FifoWords
    BY <1>6, <1>7
  <2> QED
    BY <1>2, <1>4, <1>5, <1>11, <2>1, <2>2

(* What has been loaded after each turn.                                   *)
LEMMA WordsAre ==
  ASSUME NEW n \in Nat \ {0}, NEW loads, Len(loads) = n,
         \A i \in 1 .. n - 1 : loads[i] = FifoWords, loads[n] \in 1 .. FifoWords
  PROVE  /\ \A i \in 0 .. n - 1 : WordsAfter(loads)[i] = i * FifoWords
         /\ WordsAfter(loads)[n] = (n - 1) * FifoWords + loads[n]
<1> DEFINE Body(g) == [i \in 0 .. n |-> IF i = 0 THEN 0 ELSE g[i - 1] + loads[i]]
           v == CHOOSE g : g = Body(g)
           f == [i \in 0 .. n |-> IF i = n THEN (n - 1) * FifoWords + loads[n]
                                  ELSE i * FifoWords]
<1>1. WordsAfter(loads) = v
  BY DEF WordsAfter
<1>2. FifoWords \in Nat \ {0} /\ \A i \in Int : i * FifoWords \in Int
  BY AprsAssumption
<1>3. \A i \in 1 .. n - 1 : (i - 1) * FifoWords + FifoWords = i * FifoWords
  BY <1>2
<1>4. 0 * FifoWords = 0
  BY <1>2
<1>5. /\ f[0] = 0 /\ DOMAIN f = 0 .. n /\ f[n] = (n - 1) * FifoWords + loads[n]
      /\ \A i \in 0 .. n - 1 : f[i] = i * FifoWords
  BY <1>4
<1>6. f = [i \in 0 .. n |-> f[i]]
  OBVIOUS
<1> HIDE DEF f
<1>7. ASSUME NEW i \in 0 .. n PROVE f[i] = IF i = 0 THEN 0 ELSE f[i - 1] + loads[i]
  <2>1. CASE i = 0
    BY <1>5, <2>1
  <2>2. CASE i \in 1 .. n - 1
    <3>1. i - 1 \in 0 .. n - 1
      BY <2>2
    <3>2. f[i] = i * FifoWords /\ f[i - 1] = (i - 1) * FifoWords /\ loads[i] = FifoWords
      BY <1>5, <2>2, <3>1
    <3> QED
      BY <1>3, <2>2, <3>2
  <2>3. CASE i = n
    <3>1. n - 1 \in 0 .. n - 1 /\ n # 0
      OBVIOUS
    <3> QED
      BY <1>5, <2>3, <3>1
  <2> QED
    BY <2>1, <2>2, <2>3
<1>8. f = Body(f)
  BY <1>6, <1>7
<1>9. v = Body(v)
  <2> HIDE DEF Body
  <2> QED
    BY <1>8
<1> HIDE DEF v
<1>10. v[0] = 0 /\ \A i \in 1 .. n : v[i] = v[i - 1] + loads[i]
  BY <1>9
<1>11. \A i \in 0 .. n : v[i] = f[i]
  <2> DEFINE S == {i \in 0 .. n : v[i] = f[i]}
  <2>1. 0 \in S
    BY <1>5, <1>10
  <2>2. ASSUME NEW i \in 1 .. n, i - 1 \in S PROVE i \in S
    BY <1>7, <1>10, <2>2
  <2> HIDE DEF S
  <2>3. 0 .. n \subseteq S
    BY <2>1, <2>2, Climb
  <2> QED
    BY <2>3 DEF S
<1> QED
  BY <1>1, <1>5, <1>11

LEMMA FifoFed ==
  ASSUME NEW bytes \in Nat \ {0}, NEW loads, loads = Loads(bytes)
  PROVE  /\ WordsAfter(loads)[Len(loads)] = (bytes + 1) \div 2
         /\ \A i \in DOMAIN loads : /\ loads[i] \in 1 .. FifoWords
                                    /\ i # 1 => Backlog(loads, i) > 0
         /\ Triggers(bytes) = {1}
<1> DEFINE w == WordsAfter(loads)
           after(i) == IF 2 * w[i] > bytes THEN bytes ELSE 2 * w[i]
<1>1. PICK n \in Nat \ {0} :
        /\ DOMAIN loads = 1 .. n /\ Len(loads) = n
        /\ \A i \in 1 .. n - 1 : loads[i] = FifoWords
        /\ loads[n] \in 1 .. FifoWords
        /\ (n - 1) * FifoWords + loads[n] = (bytes + 1) \div 2
        /\ 2 * ((n - 1) * FifoWords) < bytes
        /\ bytes <= 2 * FifoWords <=> n = 1
  BY LoadsAre
<1>2. /\ \A i \in 0 .. n - 1 : w[i] = i * FifoWords
      /\ w[n] = (n - 1) * FifoWords + loads[n]
  BY <1>1, WordsAre
<1> HIDE DEF w
<1>3. FifoWords \in Nat \ {0}
  BY AprsAssumption
<1>4. \A i \in 1 .. n : loads[i] \in 1 .. FifoWords
  BY <1>1, <1>3
<1>5. ~(after(n) < bytes)
  <2>1. w[n] = (bytes + 1) \div 2
    BY <1>1, <1>2
  <2> QED
    BY <2>1
<1>6. ASSUME NEW i \in 1 .. n - 1
      PROVE  after(i) < bytes /\ (after(i) = 2 * loads[i] <=> i = 1)
  <2>1. w[i] = i * FifoWords /\ loads[i] = FifoWords
    BY <1>1, <1>2
  <2>2. FifoWords * i <= FifoWords * (n - 1) /\ (2 <= i => FifoWords * 2 <= FifoWords * i)
    BY <1>3, TimesMonotone
  <2> DEFINE p == i * FifoWords
             k == (n - 1) * FifoWords
  <2>3. FifoWords * i = p /\ FifoWords * (n - 1) = k /\ p \in Int /\ k \in Int
    BY <1>3
  <2>4. i = 1 => p = FifoWords
    BY <1>3
  <2>5. w[i] = p /\ 2 * k < bytes
    BY <1>1, <2>1
  <2> HIDE DEF p, k
  <2>6. 2 * w[i] < bytes
    BY <2>2, <2>3, <2>5
  <2>7. after(i) = 2 * p
    BY <2>3, <2>5, <2>6
  <2>8. 2 <= i => p # FifoWords
    BY <1>3, <2>2, <2>3
  <2>9. i = 1 \/ 2 <= i
    OBVIOUS
  <2> HIDE DEF after
  <2> QED
    BY <1>3, <2>1, <2>3, <2>4, <2>5, <2>6, <2>7, <2>8, <2>9
<1>7. Triggers(bytes) = {i \in 1 .. n : after(i) = 2 * loads[i] /\ after(i) < bytes}
                        \cup (IF n = 1 THEN {n} ELSE {})
  <2>1. bytes <= 2 * FifoWords <=> n = 1
    BY <1>1
  <2>2. Len(loads) = n /\ DOMAIN loads = 1 .. n
    BY <1>1
  <2> QED
    BY <2>1, <2>2, Zenon DEF Triggers, w
<1> HIDE DEF after
<1>8. Triggers(bytes) = {1}
  <2>1. CASE n = 1
    BY <1>5, <1>7, <2>1
  <2>2. CASE n # 1
    <3>1. 1 \in 1 .. n - 1
      BY <2>2
    <3>2. \A i \in 1 .. n : i \in 1 .. n - 1 \/ i = n
      OBVIOUS
    <3> QED
      BY <1>5, <1>6, <1>7, <2>2, <3>1, <3>2
  <2> QED
    BY <2>1, <2>2
<1>9. ASSUME NEW i \in 1 .. n, i # 1 PROVE Backlog(loads, i) > 0
  <2>1. i - 1 \in 0 .. n - 1 /\ i - 1 \in Nat \ {0}
    BY <1>9
  <2>2. w[i - 1] = (i - 1) * FifoWords
    BY <1>2, <2>1
  <2>3. FifoWords * 1 <= FifoWords * (i - 1)
    BY <1>3, <2>1, TimesMonotone
  <2>4. w[i - 1] \in Nat \ {0}
    BY <1>3, <2>1, <2>2, <2>3
  <2> DEFINE x == w[i - 1]
  <2>5. Backlog(loads, i) = x * ((2 * ByteTime) - WordWait)
    BY DEF Backlog, w
  <2> HIDE DEF x
  <2> QED
    BY <2>4, <2>5 DEF ByteTime, WordWait, x
<1> QED
  BY <1>1, <1>2, <1>4, <1>8, <1>9 DEF w

(* The record of a frame on the air, and the beacons of one configuration  *)
(* whatever its symbol.                                                    *)
OnAir(p, c) ==
  LET frame == build_ax25_frame(p, c)
  IN [frame |-> frame, pos |-> p, cfg |-> c,
      loads |-> Loads(frame.bytes), triggers |-> Triggers(frame.bytes)]
SameBeacon(c, d) == c.call = d.call /\ c.ssid = d.ssid /\ c.msg = d.msg

Places == Positions \cup {config.manual}
IsOnAir(a, p, c) ==
  p \in PositionType /\ c \in ConfigType /\ c.msg \in 0 .. 7 /\ a = <<OnAir(p, c)>>
AirIsFrame ==
  air # Missing =>
    \E p \in Places, c \in ConfigType : IsOnAir(air, p, c) /\ SameBeacon(c, config)

PacketIsFrame ==
  last_pkt # Missing => \E p \in Places : ComesBack(p, last_pkt[1], config)

ConfigTyped ==
  /\ config \in ConfigType /\ config.msg \in 0 .. 7
  /\ config.interval \in 0 .. Len(Intervals) - 1

AprsInv ==
  /\ AprsTypeOK /\ ConfigTyped /\ idle_polls \in Nat
  /\ fix = Missing \/ \E p \in Positions : fix = <<p>>
  /\ BeaconKeepsTime
  /\ AirIsFrame /\ PacketIsFrame

LEMMA IntervalNat ==
  ASSUME NEW i \in Nat
  PROVE  /\ aprs_beacon_interval_sec(i) \in Nat
         /\ \E j \in DOMAIN Intervals : aprs_beacon_interval_sec(i) <= Intervals[j]
<1> DEFINE j == 1 + (IF i < Len(Intervals) THEN i ELSE DefaultIndex)
<1>1. j \in DOMAIN Intervals
  BY AprsAssumption
<1>2. aprs_beacon_interval_sec(i) = Intervals[j]
  BY DEF aprs_beacon_interval_sec
<1>3. Intervals[j] \in Nat
  BY <1>1, AprsAssumption
<1> HIDE DEF j
<1> QED
  BY <1>1, <1>2, <1>3

LEMMA ConfigLoaded ==
  ASSUME NEW f \in Configs
  PROVE  /\ ConfigOf(f) \in ConfigType /\ ConfigOf(f).msg \in 0 .. 7
         /\ ConfigOf(f).interval \in 0 .. Len(Intervals) - 1
<1>1. f \in ConfigType
  BY AprsAssumption
<1>2. /\ f.interval \in Nat /\ f.ssid \in Nat /\ f.msg \in Nat
  BY <1>1 DEF ConfigType
<1> DEFINE i == IF f.interval < Len(Intervals) THEN f.interval ELSE DefaultIndex
           a == f.ssid % 16
           m == f.msg % 8
<1>3. i \in 0 .. Len(Intervals) - 1 /\ i \in Nat /\ a \in Nat /\ m \in 0 .. 7 /\ m \in Nat
  <2>1. Len(Intervals) \in Nat /\ DefaultIndex \in 0 .. Len(Intervals) - 1
    BY AprsAssumption
  <2>2. i \in 0 .. Len(Intervals) - 1 /\ i \in Nat
    BY <1>2, <2>1
  <2>3. a \in Nat /\ m \in 0 .. 7 /\ m \in Nat
    BY <1>2
  <2> QED
    BY <2>2, <2>3
<1>4. ConfigOf(f) = [f EXCEPT !.interval = i, !.ssid = a, !.msg = m]
  BY DEF ConfigOf
<1> HIDE DEF i, a, m
<1> QED
  BY <1>1, <1>3, <1>4 DEF ConfigType

LEMMA AprsInvInit == ASSUME AprsInit PROVE AprsInv
<1>1. ConfigTyped
  BY ConfigLoaded DEF AprsInit, ConfigTyped
<1>2. config.interval \in Nat
  BY <1>1, AprsAssumption DEF ConfigTyped
<1>3. /\ Interval \in Nat
      /\ \E j \in DOMAIN Intervals : Interval <= Intervals[j]
      /\ Interval = aprs_beacon_interval_sec(config.interval)
  BY <1>2, IntervalNat DEF Interval
<1>4. \E j \in DOMAIN Intervals : 0 <= Intervals[j]
  <2>1. 1 \in DOMAIN Intervals /\ Intervals[1] \in Nat
    BY AprsAssumption
  <2> QED
    BY <2>1
<1>5. countdown = IF config.timed THEN Interval ELSE 0
  BY <1>3 DEF AprsInit
<1>6. AprsTypeOK
  BY <1>3, <1>4, <1>5, AprsAssumption DEF AprsInit, AprsTypeOK
<1>7. BeaconKeepsTime
  BY <1>3, <1>5 DEF AprsInit, BeaconKeepsTime
<1> QED
  BY <1>1, <1>6, <1>7 DEF AprsInit, AprsInv, AirIsFrame, PacketIsFrame

LEMMA AprsSaved ==
  ASSUME AprsInv, aprs_config_save
  PROVE  AprsInv'
<1>1. PICK s \in {0, 4} : config' = [config EXCEPT !.symbol = s]
  BY DEF aprs_config_save
<1>2. config \in ConfigType
  BY DEF AprsInv, ConfigTyped
<1>3. /\ config' \in ConfigType /\ config'.msg = config.msg
      /\ config'.interval = config.interval /\ config'.call = config.call
      /\ config'.ssid = config.ssid /\ config'.manual = config.manual
      /\ config'.timed = config.timed /\ config'.enable = config.enable
  BY <1>1, <1>2 DEF ConfigType
<1>4. ConfigTyped' /\ Places' = Places /\ Interval' = Interval
  BY <1>3 DEF AprsInv, ConfigTyped, Places, Interval
<1>5. BeaconKeepsTime'
  BY <1>3, <1>4 DEF AprsInv, BeaconKeepsTime, aprs_config_save
<1>6. \A c : SameBeacon(c, config) => SameBeacon(c, config')
  BY <1>3 DEF SameBeacon
<1>7. \A p, q : ComesBack(p, q, config) => ComesBack(p, q, config')
  BY <1>3 DEF ComesBack
<1>8. AirIsFrame'
  BY <1>4, <1>6 DEF AprsInv, AirIsFrame, aprs_config_save
<1>9. PacketIsFrame'
  BY <1>4, <1>7 DEF AprsInv, PacketIsFrame, aprs_config_save
<1>10. AprsTypeOK' /\ idle_polls' \in Nat /\ (fix = Missing \/ \E p \in Positions : fix = <<p>>)'
  BY DEF AprsInv, AprsTypeOK, aprs_config_save
<1> QED
  BY <1>4, <1>5, <1>8, <1>9, <1>10 DEF AprsInv

(* A transmission leaves a frame of one of the places on the air, or what  *)
(* was on it.                                                              *)
LEMMA TransmitKeeps ==
  ASSUME AprsInv, NEW p \in Places, Transmit(p), state = "IDLE"
  PROVE  /\ AirIsFrame' /\ PacketIsFrame' /\ ConfigTyped' /\ Interval' = Interval
         /\ (fix = Missing \/ \E x \in Positions : fix = <<x>>)'
         /\ state' = "IDLE" /\ fsk' = "off" /\ ptt_holder' = "nobody"
         /\ sent_frames' \in 0 .. MaxSent
         /\ config' = config
<1>1. /\ UNCHANGED <<state, config, fix, last_pkt>> /\ fsk' = "off"
      /\ ptt_holder' = "nobody" /\ sent_frames' = sent_frames + 1
      /\ sent_frames' <= MaxSent
  BY DEF Transmit
<1>2. air' = <<OnAir(p, config)>> \/ air' = air
  <2>1. PICK ptt \in BOOLEAN :
          air' = IF (ptt \/ ptt_holder = "user") /\ chip_keyed = 0
                 THEN <<OnAir(p, config)>> ELSE air
    BY Zenon DEF Transmit, OnAir
  <2> QED
    BY <2>1, Zenon
<1>3. p \in PositionType /\ config \in ConfigType /\ config.msg \in 0 .. 7
  BY AprsAssumption DEF AprsInv, ConfigTyped, Places, ConfigType
<1>4. Places' = Places
  BY <1>1 DEF Places
<1>5. AirIsFrame'
  <2>1. CASE air' = <<OnAir(p, config)>>
    <3>1. IsOnAir(air', p, config) /\ SameBeacon(config, config)
      BY <1>3, <2>1, Zenon DEF IsOnAir, SameBeacon
    <3> QED
      BY <1>1, <1>3, <1>4, <3>1, Zenon DEF AirIsFrame
  <2>2. CASE air' = air
    BY <1>1, <1>4, <2>2, Zenon DEF AprsInv, AirIsFrame
  <2> QED
    BY <1>2, <2>1, <2>2
<1>6. PacketIsFrame'
  BY <1>1, <1>4, Zenon DEF AprsInv, PacketIsFrame
<1>7. sent_frames' \in 0 .. MaxSent
  BY <1>1, AprsAssumption DEF AprsInv, AprsTypeOK
<1>8. ConfigTyped' /\ Interval' = Interval /\ (fix = Missing \/ \E x \in Positions : fix = <<x>>)'
  BY <1>1 DEF AprsInv, ConfigTyped, Interval
<1> QED
  BY <1>1, <1>5, <1>6, <1>7, <1>8

LEMMA AfterTransmission ==
  ASSUME AprsInv, NEW p \in Places, Transmit(p), state = "IDLE", idle_polls' = 0,
         period' = period \/ (period' = idle_polls + 1 /\ countdown = 0 /\ Due),
         countdown' = Interval \/ (countdown' = countdown /\ ~config.timed)
  PROVE  AprsInv'
<1>1. /\ AirIsFrame' /\ PacketIsFrame' /\ ConfigTyped' /\ Interval' = Interval
      /\ (fix = Missing \/ \E x \in Positions : fix = <<x>>)'
      /\ state' = "IDLE" /\ fsk' = "off" /\ ptt_holder' = "nobody"
      /\ sent_frames' \in 0 .. MaxSent /\ config' = config
  BY TransmitKeeps
<1>2. Interval \in Nat /\ \E j \in DOMAIN Intervals : Interval <= Intervals[j]
  BY IntervalNat DEF Interval, AprsInv, ConfigTyped
<1>3. countdown' \in Nat /\ \E i \in DOMAIN Intervals : countdown' <= Intervals[i]
  BY <1>2 DEF AprsInv, AprsTypeOK
<1>4. BeaconKeepsTime'
  BY <1>1, <1>2 DEF AprsInv, BeaconKeepsTime, Due
<1>5. AprsTypeOK'
  BY <1>1, <1>3 DEF AprsTypeOK
<1> QED
  BY <1>1, <1>4, <1>5 DEF AprsInv

LEMMA AprsSent == ASSUME AprsInv, aprs_send_position PROVE AprsInv'
<1>1. PICK p \in Positions : MaySend /\ Transmit(p)
  BY DEF aprs_send_position
<1>2. p \in Places /\ state = "IDLE"
  BY <1>1 DEF Places, MaySend
<1>3. countdown' = Interval \/ (countdown' = countdown /\ ~config.timed)
  BY DEF aprs_send_position, aprs_beacon_reset
<1>4. idle_polls' = 0 /\ period' = period
  BY DEF aprs_send_position
<1> QED
  BY <1>1, <1>2, <1>3, <1>4, AfterTransmission

(* What reads and writes nothing but the clock of the beacon.              *)
LEMMA AprsKept ==
  ASSUME AprsInv, UNCHANGED <<config, air, last_pkt>>
  PROVE  /\ AirIsFrame' /\ PacketIsFrame' /\ ConfigTyped' /\ Interval' = Interval
BY Zenon DEF AprsInv, AirIsFrame, PacketIsFrame, ConfigTyped, Interval, Places

LEMMA AprsPolled == ASSUME AprsInv, aprs_poll PROVE AprsInv'
<1>1. Due /\ state = "IDLE" /\ config.timed /\ config.enable
  BY DEF aprs_poll, Due
<1>2. Interval \in Nat /\ \E j \in DOMAIN Intervals : Interval <= Intervals[j]
  BY IntervalNat DEF Interval, AprsInv, ConfigTyped
<1>3. CASE /\ countdown > 0 /\ countdown' = countdown - 1 /\ idle_polls' = idle_polls + 1
           /\ UNCHANGED <<state, config, fix, ptt_holder, chip_keyed, fsk, air, last_pkt,
                          sent_frames, period>>
  <2>1. AirIsFrame' /\ PacketIsFrame' /\ ConfigTyped' /\ Interval' = Interval
    BY <1>3, AprsKept
  <2>2. PICK i \in DOMAIN Intervals : countdown <= Intervals[i]
    BY DEF AprsInv, AprsTypeOK
  <2>3. countdown \in Nat /\ idle_polls \in Nat /\ Intervals[i] \in Nat
    BY AprsAssumption DEF AprsInv, AprsTypeOK
  <2>4. countdown' \in Nat /\ countdown' <= Intervals[i] /\ idle_polls' \in Nat
    BY <1>3, <2>2, <2>3
  <2>5. AprsTypeOK'
    BY <1>3, <2>4 DEF AprsInv, AprsTypeOK
  <2>6. BeaconKeepsTime'
    BY <1>1, <1>2, <1>3, <2>1, <2>3 DEF AprsInv, BeaconKeepsTime
  <2> QED
    BY <1>3, <2>1, <2>4, <2>5, <2>6 DEF AprsInv
<1>4. CASE /\ BeaconPosition = Missing /\ countdown' = Interval /\ idle_polls' = 0
           /\ countdown = 0 /\ period' = idle_polls + 1
           /\ UNCHANGED <<state, config, fix, ptt_holder, chip_keyed, fsk, air, last_pkt,
                          sent_frames>>
  <2>1. AirIsFrame' /\ PacketIsFrame' /\ ConfigTyped' /\ Interval' = Interval
    BY <1>4, AprsKept
  <2>2. AprsTypeOK'
    BY <1>2, <1>4 DEF AprsInv, AprsTypeOK
  <2>3. BeaconKeepsTime'
    BY <1>1, <1>2, <1>4, <2>1 DEF AprsInv, BeaconKeepsTime
  <2> QED
    BY <1>4, <2>1, <2>2, <2>3 DEF AprsInv
<1>5. CASE /\ BeaconPosition # Missing /\ Transmit(BeaconPosition[1])
           /\ countdown' = Interval /\ idle_polls' = 0
           /\ countdown = 0 /\ period' = idle_polls + 1
  <2>1. BeaconPosition[1] \in Places
    <3>1. CASE config.gps_source
      <4>1. PICK p \in Positions : fix = <<p>>
        BY <1>5, <3>1 DEF AprsInv, BeaconPosition
      <4>2. BeaconPosition[1] = p
        BY <3>1, <4>1 DEF BeaconPosition
      <4> QED
        BY <4>2 DEF Places
    <3>2. CASE ~config.gps_source
      BY <3>2 DEF BeaconPosition, Places
    <3> QED
      BY <3>1, <3>2
  <2> QED
    BY <1>1, <1>5, <2>1, AfterTransmission
<1> QED
  BY <1>3, <1>4, <1>5, Zenon DEF aprs_poll

LEMMA AprsDecoded == ASSUME AprsInv, aprs_rx_poll_decode PROVE AprsInv'
<1>1. /\ state = "RX_LISTENING" /\ air # Missing
      /\ UNCHANGED <<state, fsk, config, countdown, fix, ptt_holder, chip_keyed, air,
                     sent_frames, idle_polls, period>>
  BY DEF aprs_rx_poll_decode, Rest
<1>2. last_pkt' = last_pkt \/ (/\ last_pkt' = parse_ax25_frame(air[1].frame)
                               /\ last_pkt' # Missing)
  <2>1. PICK spoilt \in BOOLEAN :
          LET f == air[1].frame
              pkt == IF f.bytes % 2 = 1 \/ spoilt THEN Missing ELSE parse_ax25_frame(f)
          IN last_pkt' = IF pkt = Missing THEN last_pkt ELSE pkt
    BY DEF aprs_rx_poll_decode
  <2> QED
    BY <2>1, Zenon
<1>3. Places' = Places
  BY <1>1 DEF Places
<1>4. PacketIsFrame'
  <2>1. CASE last_pkt' = last_pkt
    BY <1>1, <1>3, <2>1, Zenon DEF AprsInv, PacketIsFrame
  <2>2. CASE last_pkt' = parse_ax25_frame(air[1].frame) /\ last_pkt' # Missing
    <3>1. PICK p \in Places, c \in ConfigType : IsOnAir(air, p, c) /\ SameBeacon(c, config)
      BY <1>1, Zenon DEF AprsInv, AirIsFrame
    <3>2. air[1].frame = build_ax25_frame(p, c)
      BY <3>1 DEF IsOnAir, OnAir
    <3>3. p \in PositionType /\ c \in ConfigType /\ c.msg \in 0 .. 7
      BY <3>1 DEF IsOnAir
    <3>4. ComesBack(p, last_pkt'[1], c)
      BY <2>2, <3>2, <3>3, FrameComesBack, Zenon
    <3>5. ComesBack(p, last_pkt'[1], config')
      BY <1>1, <3>1, <3>4 DEF ComesBack, SameBeacon
    <3> QED
      BY <1>3, <3>5, Zenon DEF PacketIsFrame
  <2> QED
    BY <1>2, <2>1, <2>2
<1>5. AirIsFrame' /\ ConfigTyped' /\ Interval' = Interval
  BY <1>1, <1>3, Zenon DEF AprsInv, AirIsFrame, ConfigTyped, Interval
<1>6. AprsTypeOK' /\ BeaconKeepsTime'
  BY <1>1, <1>5 DEF AprsInv, AprsTypeOK, BeaconKeepsTime
<1> QED
  BY <1>1, <1>4, <1>5, <1>6 DEF AprsInv

LEMMA AprsOthers ==
  ASSUME AprsInv, aprs_rx_start \/ aprs_stop \/ GpsMoves \/ UserPtt
  PROVE  AprsInv'
<1>1. UNCHANGED <<config, air, last_pkt, countdown, idle_polls, period, sent_frames>>
  BY DEF aprs_rx_start, aprs_stop, GpsMoves, UserPtt, Rest
<1>2. AirIsFrame' /\ PacketIsFrame' /\ ConfigTyped' /\ Interval' = Interval
  BY <1>1, AprsKept
<1>3. /\ state' \in {"IDLE", "RX_LISTENING"} /\ ptt_holder' \in {"nobody", "user"}
      /\ fsk' \in {"off", "rx"}
      /\ fsk' = IF state' = "RX_LISTENING" THEN "rx" ELSE "off"
  BY DEF AprsInv, AprsTypeOK, BeaconKeepsTime, aprs_rx_start, aprs_stop, GpsMoves, UserPtt, Rest
<1>4. AprsTypeOK'
  BY <1>1, <1>3 DEF AprsInv, AprsTypeOK
<1>5. BeaconKeepsTime'
  BY <1>1, <1>2, <1>3 DEF AprsInv, BeaconKeepsTime
<1>6. (fix = Missing \/ \E p \in Positions : fix = <<p>>)'
  BY DEF AprsInv, aprs_rx_start, aprs_stop, GpsMoves, UserPtt, Rest
<1> QED
  BY <1>1, <1>2, <1>4, <1>5, <1>6 DEF AprsInv

LEMMA AprsInvStep == ASSUME AprsInv, AprsNext PROVE AprsInv'
BY AprsSaved, AprsSent, AprsPolled, AprsDecoded, AprsOthers DEF AprsNext

LEMMA BeaconLength ==
  ASSUME NEW p, NEW c \in ConfigType
  PROVE  build_ax25_frame(p, c).bytes \in Nat \ {0}
<1>1. Len(DigiPath(c)) \in Nat
  BY FixedPaths, CustomPaths
<1>2. mice_build_info(p, c).comment \in Nat
  BY AprsAssumption DEF mice_build_info, ConfigType, InfoFixed
<1> DEFINE l == Len(DigiPath(c))
           m == mice_build_info(p, c).comment
<1>3. build_ax25_frame(p, c).bytes = 7 * (2 + l) + 2 + InfoFixed + m + 2
  BY DEF build_ax25_frame
<1> HIDE DEF l, m
<1> QED
  BY <1>1, <1>2, <1>3 DEF l, m, InfoFixed

LEMMA AprsInvImplies == ASSUME AprsInv PROVE BeaconsAreHeard
<1>1. CASE air = Missing
  BY <1>1, Zenon DEF AprsInv, BeaconsAreHeard, FifoIsFed, FramesComeBack, PacketIsFrame, Places
<1>2. CASE air # Missing
  <2>1. PICK p \in Places, c \in ConfigType : IsOnAir(air, p, c)
    BY <1>2, Zenon DEF AprsInv, AirIsFrame
  <2> DEFINE f == build_ax25_frame(p, c)
             b == f.bytes
             q == parse_ax25_frame(f)
  <2>2. /\ air[1].frame = f /\ air[1].pos = p /\ air[1].cfg = c
        /\ air[1].loads = Loads(b) /\ air[1].triggers = Triggers(b)
    BY <2>1 DEF IsOnAir, OnAir
  <2>3. p \in PositionType /\ c.msg \in 0 .. 7
    BY <2>1 DEF IsOnAir
  <2>4. b \in Nat \ {0}
    BY BeaconLength
  <2>5. /\ q = Missing <=> Unmarked(c)
        /\ q # Missing => /\ ComesBack(p, q[1], c)
                          /\ c.path = "CUSTOM" => q[1].path = Expected(c)
    BY <2>3, FrameComesBack
  <2> HIDE DEF f, q
  <2>6. FifoIsFed
    <3> HIDE DEF b
    <3> DEFINE Fed(l, i) == /\ l[i] \in 1 .. FifoWords
                            /\ i # 1 => Backlog(l, i) > 0
    <3>1. /\ WordsAfter(Loads(b))[Len(Loads(b))] = (b + 1) \div 2
          /\ \A i \in DOMAIN Loads(b) : Fed(Loads(b), i)
          /\ Triggers(b) = {1}
      BY <2>4, FifoFed, Zenon
    <3>2. \A i \in DOMAIN air[1].loads : Fed(air[1].loads, i)
      BY <2>2, <3>1, Zenon DEF b
    <3> QED
      BY <2>2, <3>1, <3>2, Zenon DEF FifoIsFed, b
  <2>7. FramesComeBack
    BY <1>2, <2>2, <2>5, Zenon DEF AprsInv, FramesComeBack, PacketIsFrame, Places, q, Expected
  <2> QED
    BY <2>6, <2>7 DEF AprsInv, BeaconsAreHeard
<1> QED
  BY <1>1, <1>2

=============================================================================
