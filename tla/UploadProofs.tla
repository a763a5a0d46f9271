--------------------------- MODULE UploadProofs ---------------------------
(***************************************************************************)
(* Proofs about a firmware update for every pair of words, every size of   *)
(* file and image, and any number of attempts.                             *)
(***************************************************************************)
EXTENDS Upload, SequenceTheorems, TLAPS

\* How far the host is.
Progress ==
  /\ host = "handshake" <=> sent < Len(Words)
  /\ host \in {"handshake", "probe", "version", "model", "count"} => seq = 0
  /\ host = "data" => seq < total
  /\ host \in {"end", "success"} => seq = total

\* What the matcher has made of the bytes since the host began.
Matched ==
  unbroken /\ radio = "app" =>
    /\ sent \in 1 .. Len(HANDSHAKE) - 1 => stage = 1 \/ hs_matched = sent
    /\ sent >= Len(HANDSHAKE) => stage = 1
    /\ sent > Len(HANDSHAKE) => up_matched = sent - Len(HANDSHAKE)

\* Block b is in the buffer; the key needs no place there.
Got(b) == \/ b = 1
          \/ /\ Place(b) < img_blocks
             /\ img[Place(b)] = b

\* A frame and its replies belong to the block the host is at.
InStep ==
  /\ toRadio \in Frames =>
       /\ waiting
       /\ replies = <<>>
       /\ toRadio.cmd = host
       /\ host = "data" => toRadio.args = seq
  /\ toRadio = Rest => waiting /\ replies \in Seq({"NAK"})
  /\ replies = <<"ACK">> \/ replies \in Seq({"NAK"})
  /\ waiting => host \in Cmds
  /\ ~waiting /\ host \notin {"success", "failure"} => replies = <<>>
  /\ waiting /\ host = "data" /\ replies = <<"ACK">> => Got(seq)

Buffered ==
  /\ \A b \in 0 .. seq - 1 : Got(b)
  /\ \A s \in Slots : \/ img[s] = Zeros
                      \/ /\ img[s] \in 0 .. total - 1
                         /\ img[s] # 1
                         /\ Place(img[s]) = s
  /\ img_blocks <= IF total = 1 THEN 1 ELSE total - 1

Flashed ==
  /\ radio \in {"app", "updater"} => \A s \in Slots : flash[s] = Old
  /\ radio # "reset" => ~cut
  /\ radio = "flashing" =>
       /\ seq = total
       /\ at <= img_blocks
       /\ \A s \in Slots : IF s < at THEN flash[s] = img[s]
                           ELSE flash[s] \in {Old, Blank}
  /\ radio = "reset" =>
       \/ \A s \in Slots : flash[s] = Old
       \/ cut
       \/ /\ seq = total
          /\ \A s \in 0 .. img_blocks - 1 : flash[s] = img[s]
  /\ \A s \in Slots : \/ flash[s] \in {Old, Blank}
                      \/ seq = total /\ s < img_blocks /\ flash[s] = img[s]

TypedInv == UpdateTypeOK /\ Progress
ImageInv == InStep /\ Buffered /\ Flashed

-----------------------------------------------------------------------------

LEMMA WordLengths ==
  /\ Len(HANDSHAKE) \in Nat /\ Len(HANDSHAKE) > 1
  /\ Len(UPDATE) \in Nat /\ Len(UPDATE) > 0
  /\ Len(Words) = Len(HANDSHAKE) + Len(UPDATE)
  /\ \A i \in 1 .. Len(HANDSHAKE) : Words[i] = HANDSHAKE[i]
  /\ \A i \in 1 .. Len(UPDATE) : Words[Len(HANDSHAKE) + i] = UPDATE[i]
BY WordsAssumption DEF Words

\* A byte the matcher takes leaves its counters below the words' lengths.
LEMMA FeedTypes ==
  ASSUME NEW c, ListenerTypeOK, update_listener_feed(c)
  PROVE  ListenerTypeOK' /\ radio = "app" /\ radio' \in {"app", "updater"}
<1>1. CASE WantHandshake(c)
  BY <1>1, WordLengths
     DEF ListenerTypeOK, update_listener_feed, WantHandshake, Restarted
<1>2. CASE WantUpdate(c)
  BY <1>2, WordLengths
     DEF ListenerTypeOK, update_listener_feed, WantUpdate, Restarted
<1> QED
  BY <1>1, <1>2 DEF update_listener_feed

LEMMA ReplyTypes ==
  ASSUME NEW r \in {"ACK", "NAK"}, replies \in Seq({"ACK", "NAK"}), Reply(r)
  PROVE  replies' \in Seq({"ACK", "NAK"})
BY DEF Reply

LEMMA InitTypedInv == Init => TypedInv
<1> SUFFICES ASSUME Init PROVE TypedInv
  OBVIOUS
<1>1. ListenerTypeOK
  BY WordLengths DEF Init, ListenerInit, ListenerTypeOK
<1>2. UpdaterTypeOK
  <2>1. replies \in Seq({"ACK", "NAK"})
    BY DEF Init, UpdaterInit
  <2>2. /\ img \in [Slots -> Nat \cup {Zeros}]
        /\ flash \in [Slots -> Nat \cup {Zeros, Old, Blank}]
    BY DEF Init, UpdaterInit
  <2>3. have_key \in BOOLEAN /\ cut \in BOOLEAN
    BY DEF Init, UpdaterInit
  <2>4. img_blocks \in 0 .. ImgMax /\ at \in 0 .. ImgMax
    BY ImgAssumption DEF Init, UpdaterInit
  <2>5. radio = "app" /\ toRadio = NoFrame
    BY DEF Init, ListenerInit, UpdaterInit
  <2> QED
    BY <2>1, <2>2, <2>3, <2>4, <2>5 DEF UpdaterTypeOK
<1>3. unbroken \in BOOLEAN /\ waiting \in BOOLEAN
  BY DEF Init
<1>4. UpdateTypeOK
  BY <1>1, <1>2, <1>3, WordLengths, HostAssumption
     DEF Init, UpdateTypeOK, Phases
<1>5. Progress
  BY WordLengths, HostAssumption DEF Init, Progress
<1> QED
  BY <1>4, <1>5 DEF TypedInv

LEMMA RadioTyped ==
  ASSUME TypedInv, Radio
  PROVE  UpdateTypeOK'
<1> USE ImgAssumption
    DEF TypedInv, UpdateTypeOK, ListenerTypeOK, UpdaterTypeOK, hostVars,
        listener, image, pass, link
<1>1. CASE RecvFrame
  <2>1. CASE Command
    BY <1>1, <2>1, ReplyTypes DEF Radio, RecvFrame, Command
  <2>2. CASE KeyBlock
    BY <1>1, <2>2, ReplyTypes DEF Radio, RecvFrame, KeyBlock
  <2>3. CASE DataBlock
    <3>1. SlotOf(toRadio.args) \in Nat /\ toRadio.args \in Nat
      BY <1>1, <2>3 DEF RecvFrame, SlotOf, Frames
    <3>2. Fits(SlotOf(toRadio.args)) => SlotOf(toRadio.args) \in Slots
      BY <3>1 DEF Fits, Slots
    <3>3. replies' \in Seq({"ACK", "NAK"})
      BY <2>3, ReplyTypes DEF DataBlock
    <3>4. img' \in [Slots -> Nat \cup {Zeros}] /\ img_blocks' \in 0 .. ImgMax
      BY SMTT(40), <2>3, <3>1, <3>2 DEF DataBlock, Fits
    <3> QED
      BY <1>1, <2>3, <3>3, <3>4 DEF Radio, RecvFrame, DataBlock
  <2>4. CASE End
    BY <1>1, <2>4, ReplyTypes DEF Radio, RecvFrame, End
  <2> QED
    BY <1>1, <2>1, <2>2, <2>3, <2>4 DEF RecvFrame
<1>2. CASE RecvDamaged
  BY <1>2, ReplyTypes DEF Radio, RecvDamaged
<1>3. CASE RecvRest
  BY <1>3, ReplyTypes DEF Radio, RecvRest
<1>4. CASE IdleTimeout
  BY <1>4 DEF Radio, IdleTimeout
<1>5. CASE FlashBlock
  <2>1. at \in Slots /\ at + 1 \in 0 .. ImgMax
    BY <1>5 DEF FlashBlock, Slots
  <2>2. flash' \in [Slots -> Nat \cup {Zeros, Old, Blank}]
    BY <1>5, <2>1 DEF FlashBlock
  <2> QED
    BY <1>5, <2>1, <2>2 DEF Radio, FlashBlock
<1>6. CASE FlashFails
  <2>1. flash' \in [Slots -> Nat \cup {Zeros, Old, Blank}]
    BY <1>6 DEF FlashFails
  <2> QED
    BY <1>6, <2>1 DEF Radio, FlashFails
<1>7. CASE FlashDone
  BY <1>7 DEF Radio, FlashDone
<1> QED
  BY <1>1, <1>2, <1>3, <1>4, <1>5, <1>6, <1>7 DEF Radio, updater_run

LEMMA NextTypedInv ==
  ASSUME TypedInv, [Next]_vars
  PROVE  TypedInv'
<1> USE DEF TypedInv, Progress
<1>0. /\ UpdateTypeOK /\ UpdaterTypeOK /\ ListenerTypeOK
      /\ DATA_BLOCK_RETRIES \in Nat \ {0} /\ MaxBlocks \in Nat
  BY HostAssumption DEF UpdateTypeOK
<1>1. CASE OtherByte
  <2>1. PICK c \in Noise : update_listener_feed(c)
    BY <1>1 DEF OtherByte
  <2>2. ListenerTypeOK' /\ radio' \in {"app", "updater"}
    BY <2>1, <1>0, FeedTypes
  <2>3. UNCHANGED <<image, pass, link, hostVars>>
    BY <1>1 DEF OtherByte
  <2> QED
    BY <2>2, <2>3, <1>0
       DEF image, pass, link, hostVars, UpdateTypeOK, UpdaterTypeOK
<1>2. CASE SendByte
  <2>1. /\ ListenerTypeOK'
        /\ radio' \in {"app", "updater", "flashing", "reset"}
    <3>1. CASE UNCHANGED <<listener, radio>>
      BY <3>1, <1>0 DEF listener, ListenerTypeOK, UpdaterTypeOK
    <3>2. CASE update_listener_feed(Words[sent'])
      BY <3>2, <1>0, FeedTypes
    <3> QED
      BY <1>2, <3>1, <3>2 DEF SendByte
  <2>2. UNCHANGED <<image, pass, link, total, seq, attempt, waiting>>
    BY <1>2 DEF SendByte
  <2>3. UpdaterTypeOK'
    BY <2>1, <2>2, <1>0 DEF image, pass, link, UpdaterTypeOK
  <2>4. /\ sent' = sent + 1 /\ sent < Len(Words)
        /\ host' = IF sent' = Len(Words) THEN "probe" ELSE host
        /\ host = "handshake" /\ unbroken' \in BOOLEAN
    BY <1>2, <1>0 DEF SendByte, UpdateTypeOK
  <2>5. sent' \in 0 .. Len(Words) /\ host' \in {"handshake", "probe"}
    BY <2>4, <1>0, WordLengths DEF UpdateTypeOK
  <2>6. UpdateTypeOK'
    BY <2>1, <2>2, <2>3, <2>4, <2>5, <1>0 DEF UpdateTypeOK, Phases
  <2>7. Progress'
    BY <2>2, <2>4, <2>5, <1>0, WordLengths DEF UpdateTypeOK
  <2> QED
    BY <2>6, <2>7
<1>3. CASE Probe
  BY <1>3, <1>0
     DEF Probe, listener, image, pass, link, UpdateTypeOK, UpdaterTypeOK,
         ListenerTypeOK, Phases, Cmds
<1>4. CASE SendCommand
  <2>1. toRadio' \in Frames
    BY <1>4, <1>0 DEF SendCommand, Frames, UpdateTypeOK
  <2> QED
    BY <1>4, <2>1, <1>0
       DEF SendCommand, listener, image, pass, UpdateTypeOK, UpdaterTypeOK,
           ListenerTypeOK
<1>5. CASE ReadReply
  <2> DEFINE r == IF replies = <<>> THEN "none" ELSE Head(replies)
  <2>1. UNCHANGED <<listener, radio, image, pass, toRadio, sent, unbroken, total>>
    BY <1>5 DEF ReadReply
  <2>2. waiting' = FALSE /\ (Prelude(r) \/ SendData(r) \/ Finalize(r))
    BY <1>5 DEF ReadReply
  <2>3. replies' \in Seq({"ACK", "NAK"})
    <3>1. replies \in Seq({"ACK", "NAK"})
      BY <1>0 DEF UpdaterTypeOK
    <3>2. \/ replies' = replies
          \/ replies' = <<>>
          \/ replies # <<>> /\ replies' = Tail(replies)
      BY <2>2 DEF Prelude, SendData, Finalize
    <3>3. replies # <<>> => Tail(replies) \in Seq({"ACK", "NAK"})
      BY <3>1, HeadTailProperties
    <3>4. <<>> \in Seq({"ACK", "NAK"})
      BY EmptySeq
    <3> QED
      BY <3>1, <3>2, <3>3, <3>4
  <2>4. UpdaterTypeOK' /\ ListenerTypeOK'
    BY <2>1, <2>3, <1>0
       DEF listener, image, pass, UpdaterTypeOK, ListenerTypeOK
  <2> HIDE DEF r
  <2>5. CASE Prelude(r)
    <3>1. /\ host' \in {"failure", "model", "count", "data"}
          /\ seq' = 0 /\ attempt' = attempt /\ host \notin {"handshake", "probe"}
      BY <2>5, <1>0 DEF Prelude
    <3>2. host' \in Phases /\ seq' \in 0 .. total
      BY <3>1, <1>0 DEF UpdateTypeOK, Phases, Cmds
    <3>3. UpdateTypeOK'
      BY <2>1, <2>2, <2>4, <3>1, <3>2, <1>0 DEF UpdateTypeOK
    <3> QED
      BY <2>1, <3>1, <3>3, <1>0 DEF UpdateTypeOK
  <2>6. CASE SendData(r)
    <3>1. attempt' \in 0 .. DATA_BLOCK_RETRIES - 1
      BY <2>6, <1>0 DEF SendData, UpdateTypeOK
    <3>2. /\ host = "data" /\ host' \in {"data", "end", "failure"}
          /\ seq' \in 0 .. total
          /\ host' = "data" => seq' < total
          /\ host' = "end" => seq' = total
      BY <2>6, <1>0 DEF SendData, UpdateTypeOK
    <3>3. UpdateTypeOK'
      BY <2>1, <2>2, <2>4, <3>1, <3>2, <1>0 DEF UpdateTypeOK, Phases, Cmds
    <3> QED
      BY <2>1, <3>2, <3>3, <1>0 DEF UpdateTypeOK
  <2>7. CASE Finalize(r)
    <3>1. /\ host = "end" /\ host' \in {"failure", "success"}
          /\ seq' = total /\ attempt' = attempt
      BY <2>7, <1>0 DEF Finalize
    <3>2. UpdateTypeOK'
      BY <2>1, <2>2, <2>4, <3>1, <1>0 DEF UpdateTypeOK, Phases, Cmds
    <3> QED
      BY <2>1, <3>1, <3>2, <1>0 DEF UpdateTypeOK
  <2> QED
    BY <2>2, <2>5, <2>6, <2>7
<1>6. CASE Unheard
  BY <1>6, <1>0
     DEF Unheard, listener, image, pass, hostVars, UpdateTypeOK,
         UpdaterTypeOK, ListenerTypeOK
<1>7. CASE Radio
  <2>1. UpdateTypeOK'
    BY <1>7, RadioTyped
  <2> QED
    BY <1>7, <2>1 DEF Radio, hostVars
<1>8. CASE UNCHANGED vars
  BY <1>8, <1>0
     DEF vars, listener, image, pass, link, hostVars, UpdateTypeOK,
         UpdaterTypeOK, ListenerTypeOK
<1> QED
  BY <1>1, <1>2, <1>3, <1>4, <1>5, <1>6, <1>7, <1>8 DEF Next

(* Type correctness: the matcher's indices stay in the words, the image in *)
(* its buffer, the host's counters in the file and the retries.            *)
THEOREM UpdateTypeCorrect == Spec => []UpdateTypeOK
BY InitTypedInv, NextTypedInv, PTL DEF Spec, TypedInv

-----------------------------------------------------------------------------

\* From wherever other traffic has left it, the matcher takes the two words.
LEMMA WordsMatched ==
  ASSUME TypedInv, Matched, SendByte, unbroken', radio' = "app"
  PROVE  Matched'
<1> DEFINE H == Len(HANDSHAKE)
           U == Len(UPDATE)
           n == sent + 1
           c == Words[n]
<1>1. /\ ListenerTypeOK /\ sent \in Nat /\ sent < H + U
      /\ H \in Nat /\ H > 1 /\ U \in Nat /\ U > 0
  BY WordLengths DEF TypedInv, Progress, UpdateTypeOK, SendByte
<1>2. sent' = n /\ unbroken /\ radio = "app" /\ update_listener_feed(c)
  <2>1. unbroken' # FALSE
    OBVIOUS
  <2>2. sent' = n /\ unbroken' = unbroken
    BY <2>1 DEF SendByte
  <2>3. radio = "app"
    BY <2>1, <2>2 DEF SendByte
  <2> QED
    BY <2>1, <2>2, <2>3 DEF SendByte
<1>3. /\ sent \in 1 .. H - 1 => stage = 1 \/ hs_matched = sent
      /\ sent >= H => stage = 1
      /\ sent > H => up_matched = sent - H
  BY <1>2 DEF Matched
<1> SUFFICES /\ n \in 1 .. H - 1 => stage' = 1 \/ hs_matched' = n
             /\ n >= H => stage' = 1
             /\ n > H => up_matched' = n - H
  BY <1>2 DEF Matched
<1>4. CASE n <= H
  <2>1. c = HANDSHAKE[n] /\ (n > 1 => c # HANDSHAKE[1]) /\ n \in 1 .. H
    BY <1>1, <1>4, WordLengths, WordsAssumption
  <2> HIDE DEF c
  <2>2. CASE stage = 1
    <3>1. WantUpdate(c)
      BY <1>2, <2>2 DEF update_listener_feed, WantHandshake
    <3>2. stage' = 1 \/ (stage' = 0 /\ hs_matched' = 1 /\ n = 1)
      BY <3>1, <1>2, <2>1, <2>2 DEF WantUpdate
    <3> QED
      BY <3>2, <1>1, <1>4
  <2>3. CASE stage = 0
    <3>1. WantHandshake(c)
      BY <1>2, <2>3 DEF update_listener_feed, WantUpdate
    <3>2. CASE n = 1
      <4>1. hs_matched + 1 = 1 \/ c # HANDSHAKE[hs_matched + 1]
        BY <2>1, <3>2, <1>1, WordsAssumption DEF ListenerTypeOK
      <4>2. hs_matched' = 1
        BY <3>1, <4>1, <2>1, <3>2, <1>1
           DEF WantHandshake, Restarted, ListenerTypeOK
      <4> QED
        BY <4>2, <3>2, <1>1
    <3>3. CASE n > 1
      <4>1. hs_matched = sent
        BY <2>3, <3>3, <1>1, <1>3, <1>4
      <4>2. IF n < H THEN hs_matched' = n ELSE stage' = 1
        BY <4>1, <3>1, <2>1, <1>1 DEF WantHandshake
      <4> QED
        BY <4>2, <1>1, <1>4
    <3> QED
      BY <3>2, <3>3, <1>1
  <2> QED
    BY <2>2, <2>3, <1>1 DEF ListenerTypeOK
<1>5. CASE n > H
  <2> DEFINE j == n - H
  <2>1. c = UPDATE[j] /\ j \in 1 .. U
    <3>1. j \in 1 .. U /\ n = H + j
      BY <1>1, <1>5
    <3> HIDE DEF j, n
    <3> QED
      BY <3>1, WordLengths
  <2>2. stage = 1
    BY <1>1, <1>3, <1>5
  <2>3. WantUpdate(c)
    BY <1>2, <2>2 DEF update_listener_feed, WantHandshake
  <2>4. CASE j = 1
    <3>1. up_matched + 1 = 1 \/ c # UPDATE[up_matched + 1]
      BY <2>1, <2>4, <1>1, WordsAssumption DEF ListenerTypeOK
    <3>2. c # HANDSHAKE[1]
      BY <2>1, <2>4, WordsAssumption
    <3> HIDE DEF c
    <3>3. stage' = 1 /\ up_matched' = 1
      BY <2>2, <2>3, <2>1, <2>4, <3>1, <3>2, <1>1, <1>2
         DEF WantUpdate, Restarted, ListenerTypeOK
    <3> QED
      BY <3>3, <2>4, <1>1
  <2>5. CASE j > 1
    <3>1. up_matched + 1 = j
      BY <2>5, <1>1, <1>3
    <3> HIDE DEF c
    <3>2. stage' = 1 /\ up_matched' = j
      BY <2>2, <2>3, <2>1, <3>1, <1>1, <1>2 DEF WantUpdate
    <3> QED
      BY <3>2, <1>1
  <2> QED
    BY <2>1, <2>4, <2>5
<1> QED
  BY <1>1, <1>4, <1>5

LEMMA NextMatched ==
  ASSUME TypedInv, Matched, [Next]_vars
  PROVE  Matched'
<1>0. sent \in Nat /\ Len(HANDSHAKE) \in Nat /\ Len(HANDSHAKE) > 1
  BY WordLengths DEF TypedInv, UpdateTypeOK
<1>1. CASE OtherByte
  BY <1>0, <1>1 DEF OtherByte, hostVars, Matched
<1>2. CASE SendByte
  BY <1>2, WordsMatched DEF Matched
<1>3. CASE Probe
  BY <1>3 DEF Probe, listener, Matched
<1>4. CASE SendCommand \/ ReadReply \/ Unheard
  BY <1>4 DEF SendCommand, ReadReply, Unheard, hostVars, listener, Matched
<1>5. CASE Radio
  <2>1. UNCHANGED hostVars /\ radio # "app"
    BY <1>5
       DEF Radio, updater_run, RecvFrame, RecvDamaged, RecvRest, IdleTimeout,
           FlashBlock, FlashFails, FlashDone
  <2>2. radio' # "app"
    BY <1>5, <2>1
       DEF Radio, updater_run, RecvFrame, Command, KeyBlock, DataBlock, End,
           RecvDamaged, RecvRest, IdleTimeout, FlashBlock, FlashFails, FlashDone
  <2> QED
    BY <2>2 DEF Matched
<1>6. CASE UNCHANGED vars
  BY <1>6 DEF vars, listener, hostVars, Matched
<1> QED
  BY <1>1, <1>2, <1>3, <1>4, <1>5, <1>6 DEF Next

(* Whatever bytes came before, the two words start the updater, for every  *)
(* pair of words that meets WordsAssumption.                               *)
THEOREM UpdateStarts == Spec => []HandshakeLands
<1>1. Init => Matched
  BY WordLengths DEF Init, Matched
<1>2. TypedInv /\ Matched => HandshakeLands
  BY WordLengths
     DEF TypedInv, UpdateTypeOK, ListenerTypeOK, Matched, HandshakeLands
<1> QED
  BY <1>1, <1>2, InitTypedInv, NextTypedInv, NextMatched, PTL DEF Spec

-----------------------------------------------------------------------------

LEMMA FirstReply ==
  ASSUME replies = <<>>, NEW r, Reply(r)
  PROVE  replies' \in {<<>>, <<r>>, <<"NAK">>}
BY DEF Reply

LEMMA SecondReply ==
  ASSUME replies \in Seq({"NAK"}), Reply("NAK")
  PROVE  replies' \in Seq({"NAK"})
BY DEF Reply

\* What a data frame that arrives whole does to the image.
LEMMA BlockStored ==
  ASSUME TypedInv, InStep, RecvFrame, DataBlock
  PROVE  /\ host = "data" /\ seq \in Nat /\ seq # 1 /\ seq < total
         /\ \/ UNCHANGED <<img, img_blocks>> /\ Reply("NAK")
            \/ /\ Place(seq) \in Slots
               /\ img' = [img EXCEPT ![Place(seq)] = seq]
               /\ img_blocks' = IF Place(seq) + 1 > img_blocks
                                THEN Place(seq) + 1 ELSE img_blocks
               /\ Reply("ACK")
<1>1. /\ toRadio \in Frames /\ toRadio.cmd = "data" /\ toRadio.args # 1
      /\ host = "data" /\ toRadio.args = seq
  BY DEF RecvFrame, DataBlock, InStep
<1>2. seq \in Nat /\ seq < total
  BY <1>1 DEF TypedInv, UpdateTypeOK, Progress
<1>3. SlotOf(seq) = Place(seq) /\ Place(seq) \in Nat
  BY <1>1, <1>2 DEF SlotOf, Place
<1>4. Fits(Place(seq)) => Place(seq) \in Slots
  BY <1>3, ImgAssumption DEF Fits, Slots
<1> QED
  BY <1>1, <1>2, <1>3, <1>4 DEF DataBlock

\* Blocks of a file have places of their own.
LEMMA PlacesDiffer ==
  ASSUME NEW a \in Nat, NEW b \in Nat, a # 1, b # 1, Place(a) = Place(b)
  PROVE  a = b
BY DEF Place

\* Outside a data frame the image and the list of files stay.
LEMMA ImageStays ==
  ASSUME TypedInv, [Next]_vars
  PROVE  \/ RecvFrame /\ DataBlock /\ UNCHANGED hostVars
         \/ UNCHANGED <<img, img_blocks, total>>
<1>1. CASE Radio
  BY <1>1
     DEF Radio, updater_run, RecvFrame, Command, KeyBlock, End, RecvDamaged,
         RecvRest, IdleTimeout, FlashBlock, FlashFails, FlashDone, image,
         hostVars
<1>2. CASE OtherByte \/ SendByte \/ Probe \/ SendCommand \/ ReadReply \/ Unheard
  BY <1>2
     DEF OtherByte, SendByte, Probe, SendCommand, ReadReply, Unheard, image,
         hostVars
<1>3. CASE UNCHANGED vars
  BY <1>3 DEF vars, image, hostVars
<1> QED
  BY <1>1, <1>2, <1>3 DEF Next

\* A block that is buffered stays.
LEMMA GotKept ==
  ASSUME TypedInv, InStep, [Next]_vars, NEW b \in Nat, Got(b)
  PROVE  Got(b)'
<1>1. CASE RecvFrame /\ DataBlock
  <2>1. CASE UNCHANGED <<img, img_blocks>>
    BY <2>1 DEF Got
  <2>2. CASE /\ img' = [img EXCEPT ![Place(seq)] = seq]
             /\ img_blocks' = IF Place(seq) + 1 > img_blocks
                              THEN Place(seq) + 1 ELSE img_blocks
    <3>1. seq \in Nat /\ seq # 1
      BY <1>1, BlockStored
    <3>2. b # 1 /\ Place(b) = Place(seq) => b = seq
      BY <3>1, PlacesDiffer
    <3>3. /\ img_blocks \in Nat /\ Place(b) \in Int /\ Place(seq) \in Nat
          /\ img \in [Slots -> Nat \cup {Zeros}]
      BY <3>1 DEF TypedInv, UpdateTypeOK, UpdaterTypeOK, Place
    <3>4. b # 1 => Place(b) \in Slots
      BY <3>3, ImgAssumption DEF Got, Slots, Place, TypedInv, UpdateTypeOK, UpdaterTypeOK
    <3> QED
      BY <2>2, <3>2, <3>3, <3>4 DEF Got
  <2> QED
    BY <1>1, <2>1, <2>2, BlockStored
<1>2. CASE UNCHANGED <<img, img_blocks, total>>
  BY <1>2 DEF Got
<1> QED
  BY <1>1, <1>2, ImageStays

\* Once the whole file is buffered, each slot in use holds its own block.
LEMMA SlotsFilled ==
  ASSUME TypedInv, Buffered, seq = total, NEW s \in Slots, s < img_blocks
  PROVE  img[s] # 1 /\ img[s] # Zeros /\ Place(img[s]) = s
<1> DEFINE b == IF s = 0 THEN 0 ELSE s + 1
<1>1. total \in Nat /\ total > 0 /\ img_blocks \in Nat /\ s \in Nat
  BY HostAssumption, ImgAssumption
     DEF TypedInv, UpdateTypeOK, UpdaterTypeOK, Slots
<1>2. b \in 0 .. seq - 1 /\ b # 1 /\ Place(b) = s
  BY <1>1 DEF Buffered, Place
<1>3. Got(b)
  BY <1>2 DEF Buffered
<1>4. img[s] = b
  BY <1>2, <1>3 DEF Got
<1> QED
  BY <1>1, <1>2, <1>4 DEF Zeros

LEMMA NextInStep ==
  ASSUME ~Latency, TypedInv, ImageInv, [Next]_vars
  PROVE  InStep'
<1> USE DEF ImageInv
<1>0. /\ <<>> \in Seq({"NAK"}) /\ <<"NAK">> \in Seq({"NAK"})
      /\ <<"ACK">> \notin Seq({"NAK"})
      /\ NoFrame \notin Frames /\ Rest \notin Frames /\ Rest # NoFrame
      /\ seq \in Nat /\ seq <= total
  BY DEF NoFrame, Rest, Frames, Cmds, TypedInv, UpdateTypeOK
<1>1. CASE OtherByte \/ UNCHANGED vars
  <2>1. UNCHANGED <<image, link, hostVars>>
    BY <1>1 DEF OtherByte, vars
  <2> QED
    BY <2>1 DEF image, link, hostVars, InStep, Got
<1>2. CASE SendByte \/ Probe
  <2>1. UNCHANGED <<image, link, waiting>>
    BY <1>2 DEF SendByte, Probe
  <2>2. host \in {"handshake", "probe"}
    BY <1>2 DEF SendByte, Probe
  <2>3. ~waiting /\ replies = <<>>
    BY <2>2 DEF InStep, Cmds
  <2>4. toRadio \notin Frames /\ toRadio # Rest
    BY <2>3 DEF InStep
  <2> QED
    BY <1>0, <2>1, <2>3, <2>4 DEF image, link, InStep
<1>3. CASE SendCommand
  <2>1. /\ toRadio' \in Frames /\ toRadio'.cmd = host
        /\ host = "data" => toRadio'.args = seq
    BY <1>3, <1>0 DEF SendCommand, Frames
  <2>2. waiting' /\ UNCHANGED <<replies, host, seq>>
    BY <1>3 DEF SendCommand
  <2>3. replies = <<>> /\ host \in Cmds
    BY <1>3 DEF SendCommand, InStep, Cmds
  <2> QED
    BY <1>0, <2>1, <2>2, <2>3 DEF InStep
<1>4. CASE ReadReply
  <2> DEFINE r == IF replies = <<>> THEN "none" ELSE Head(replies)
  <2>1. /\ waiting /\ toRadio = NoFrame /\ toRadio' = NoFrame /\ ~waiting'
        /\ Prelude(r) \/ SendData(r) \/ Finalize(r)
    BY <1>4 DEF ReadReply
  <2>2. r = "ACK" => replies = <<"ACK">>
    BY DEF InStep
  <2>3. replies' = replies \/ replies' = <<>>
          \/ (replies # <<>> /\ replies' = Tail(replies))
    BY <2>1 DEF Prelude, SendData, Finalize
  <2>4. replies' = <<>> \/ replies' = <<"ACK">> \/ replies' \in Seq({"NAK"})
    <3>1. CASE replies = <<"ACK">>
      BY <2>3, <3>1
    <3>2. CASE replies \in Seq({"NAK"})
      BY <2>3, <3>2, HeadTailProperties
    <3> QED
      BY <3>1, <3>2 DEF InStep
  <2>5. host' \notin {"success", "failure"} => replies' = <<>>
    <3>1. replies = <<"ACK">> => Tail(replies) = <<>>
      OBVIOUS
    <3> HIDE DEF r
    <3> QED
      BY <2>1, <2>2, <3>1 DEF Prelude, SendData, Finalize
  <2> QED
    BY <1>0, <2>1, <2>4, <2>5 DEF InStep
<1>5. CASE Unheard
  <2>1. toRadio' = NoFrame /\ UNCHANGED <<image, replies, hostVars>>
    BY <1>5 DEF Unheard
  <2> QED
    BY <1>0, <2>1 DEF InStep, image, hostVars, Got
<1>6. CASE Radio
  <2>0. UNCHANGED hostVars
    BY <1>6 DEF Radio
  <2>1. CASE RecvFrame
    <3>1. /\ toRadio \in Frames /\ toRadio' = NoFrame /\ waiting /\ replies = <<>>
          /\ host \in Cmds /\ toRadio.cmd = host
          /\ host = "data" => toRadio.args = seq
      BY <2>1 DEF RecvFrame, InStep
    <3>2. /\ waiting' /\ host' \in Cmds
          /\ replies' = <<"ACK">> \/ replies' \in Seq({"NAK"})
      <4>1. Reply("ACK") \/ Reply("NAK")
        BY <2>1 DEF RecvFrame, Command, KeyBlock, DataBlock, End
      <4>2. replies' \in {<<>>, <<"ACK">>, <<"NAK">>}
        BY <3>1, <4>1, FirstReply
      <4> QED
        BY <1>0, <2>0, <3>1, <4>2 DEF hostVars
    <3>3. ASSUME host = "data", replies' = <<"ACK">> PROVE Got(seq)'
      <4>1. CASE KeyBlock
        <5>1. toRadio.args = 1
          BY <4>1 DEF KeyBlock
        <5> QED
          BY <2>0, <3>1, <3>3, <5>1 DEF hostVars, Got
      <4>2. CASE DataBlock
        <5>1. ~Reply("NAK")
          BY <1>0, <3>1, <3>3, FirstReply
        <5>2. /\ seq \in Nat /\ seq # 1 /\ Place(seq) \in Slots
              /\ img' = [img EXCEPT ![Place(seq)] = seq]
              /\ img_blocks' = IF Place(seq) + 1 > img_blocks
                               THEN Place(seq) + 1 ELSE img_blocks
          BY <2>1, <4>2, <5>1, BlockStored
        <5>3. img'[Place(seq)] = seq /\ Place(seq) < img_blocks'
          BY <5>2, ImgAssumption
             DEF TypedInv, UpdateTypeOK, UpdaterTypeOK, Slots
        <5> QED
          BY <2>0, <5>3 DEF hostVars, Got
      <4> QED
        BY <2>1, <3>1, <3>3, <4>1, <4>2 DEF RecvFrame, Command, End
    <3> QED
      BY <1>0, <2>0, <3>1, <3>2, <3>3 DEF hostVars, InStep
  <2>2. CASE RecvDamaged
    <3>1. /\ waiting /\ replies = <<>> /\ toRadio' \in {NoFrame, Rest}
          /\ UNCHANGED image
      BY <2>2 DEF RecvDamaged, InStep
    <3>2. replies' \in {<<>>, <<"NAK">>}
      BY <2>2, <3>1, FirstReply DEF RecvDamaged
    <3> QED
      BY <1>0, <2>0, <3>1, <3>2 DEF hostVars, InStep
  <2>3. CASE RecvRest
    <3>1. /\ waiting /\ replies \in Seq({"NAK"}) /\ toRadio' = NoFrame
      BY <2>3 DEF RecvRest, InStep
    <3>2. replies' \in Seq({"NAK"})
      BY <2>3, <3>1, SecondReply DEF RecvRest
    <3> QED
      BY <1>0, <2>0, <3>1, <3>2 DEF hostVars, InStep
  <2>4. CASE IdleTimeout \/ FlashBlock \/ FlashFails \/ FlashDone
    <3>1. UNCHANGED <<image, link>>
      BY <2>4 DEF IdleTimeout, FlashBlock, FlashFails, FlashDone
    <3> QED
      BY <2>0, <3>1 DEF image, link, hostVars, InStep, Got
  <2> QED
    BY <1>6, <2>1, <2>2, <2>3, <2>4 DEF Radio, updater_run
<1> QED
  BY <1>1, <1>2, <1>3, <1>4, <1>5, <1>6 DEF Next

LEMMA NextBuffered ==
  ASSUME ~Latency, TypedInv, ImageInv, [Next]_vars
  PROVE  Buffered'
<1>0. /\ seq \in Nat /\ seq <= total /\ total \in Nat /\ total > 0
      /\ img_blocks \in Nat /\ img \in [Slots -> Nat \cup {Zeros}]
  BY HostAssumption, ImgAssumption DEF TypedInv, UpdateTypeOK, UpdaterTypeOK
<1>1. total' = total
  BY ImageStays DEF hostVars
<1>2. seq' = seq \/ (seq' = seq + 1 /\ Got(seq))
  <2>1. CASE ReadReply
    <3> DEFINE r == IF replies = <<>> THEN "none" ELSE Head(replies)
    <3>1. waiting /\ (Prelude(r) \/ SendData(r) \/ Finalize(r))
      BY <2>1 DEF ReadReply
    <3>2. r = "ACK" => replies = <<"ACK">>
      BY DEF ImageInv, InStep
    <3> HIDE DEF r
    <3> QED
      BY <3>1, <3>2 DEF Prelude, SendData, Finalize, ImageInv, InStep
  <2>2. CASE ~ReadReply
    BY <2>2
       DEF Next, vars, hostVars, OtherByte, SendByte, Probe, SendCommand,
           Unheard, Radio
  <2> QED
    BY <2>1, <2>2
<1>3. \A b \in 0 .. seq' - 1 : Got(b)'
  <2> TAKE b \in 0 .. seq' - 1
  <2>1. Got(b) /\ b \in Nat
    BY <1>0, <1>2 DEF ImageInv, Buffered
  <2> QED
    BY <2>1, GotKept DEF ImageInv
<1>4. /\ \A s \in Slots : \/ img'[s] = Zeros
                          \/ /\ img'[s] \in 0 .. total - 1
                             /\ img'[s] # 1
                             /\ Place(img'[s]) = s
      /\ img_blocks' <= IF total = 1 THEN 1 ELSE total - 1
  <2>1. CASE UNCHANGED <<img, img_blocks>>
    BY <2>1 DEF ImageInv, Buffered
  <2>2. CASE RecvFrame /\ DataBlock /\ ~UNCHANGED <<img, img_blocks>>
    <3>1. /\ seq # 1 /\ seq < total /\ Place(seq) \in Slots
          /\ img' = [img EXCEPT ![Place(seq)] = seq]
          /\ img_blocks' = IF Place(seq) + 1 > img_blocks
                           THEN Place(seq) + 1 ELSE img_blocks
      BY <2>2, BlockStored DEF ImageInv
    <3>2. Place(seq) + 1 <= IF total = 1 THEN 1 ELSE total - 1
      BY <1>0, <3>1 DEF Place
    <3>3. seq \in 0 .. total - 1
      BY <1>0, <3>1
    <3>4. ASSUME NEW s \in Slots
          PROVE  \/ img'[s] = Zeros
                 \/ /\ img'[s] \in 0 .. total - 1
                    /\ img'[s] # 1
                    /\ Place(img'[s]) = s
      <4>1. CASE s = Place(seq)
        BY <1>0, <3>1, <3>3, <4>1
      <4>2. CASE s # Place(seq)
        BY <1>0, <3>1, <4>2 DEF ImageInv, Buffered
      <4> QED
        BY <4>1, <4>2
    <3> QED
      BY <1>0, <3>1, <3>2, <3>4 DEF ImageInv, Buffered
  <2> QED
    BY <2>1, <2>2, ImageStays
<1> QED
  BY <1>1, <1>3, <1>4 DEF Buffered

LEMMA NextFlashed ==
  ASSUME ~Latency, TypedInv, ImageInv, [Next]_vars
  PROVE  Flashed'
<1> USE DEF ImageInv
<1>0. /\ seq \in Nat /\ seq <= total /\ total \in Nat
      /\ host = "data" => seq < total
      /\ host \in {"end", "success"} => seq = total
      /\ img_blocks \in Nat /\ img_blocks <= ImgMax /\ at \in Nat
      /\ ImgMax \in Nat
      /\ flash \in [Slots -> Nat \cup {Zeros, Old, Blank}]
  BY HostAssumption, ImgAssumption
     DEF TypedInv, Progress, UpdateTypeOK, UpdaterTypeOK
<1>1. CASE OtherByte \/ SendByte \/ Probe
  <2>1. /\ UNCHANGED <<image, pass, seq, total>>
        /\ \/ UNCHANGED radio
           \/ radio = "app" /\ radio' \in {"app", "updater"}
           \/ radio = "updater" /\ radio' \in {"updater", "reset"}
    <3>1. CASE OtherByte
      BY <3>1, FeedTypes DEF OtherByte, hostVars, TypedInv, UpdateTypeOK
    <3>2. CASE SendByte
      BY <3>2, FeedTypes DEF SendByte, TypedInv, UpdateTypeOK
    <3>3. CASE Probe
      BY <3>3 DEF Probe
    <3> QED
      BY <1>1, <3>1, <3>2, <3>3
  <2> QED
    BY <2>1 DEF image, pass, Flashed
<1>2. CASE SendCommand \/ Unheard \/ UNCHANGED vars
  BY <1>2
     DEF SendCommand, Unheard, vars, hostVars, image, pass, Flashed
<1>3. CASE ReadReply
  <2> DEFINE r == IF replies = <<>> THEN "none" ELSE Head(replies)
  <2>1. /\ UNCHANGED <<radio, image, pass, total>>
        /\ Prelude(r) \/ SendData(r) \/ Finalize(r)
    BY <1>3 DEF ReadReply
  <2> HIDE DEF r
  <2>2. seq = total => seq' = seq
    BY <1>0, <2>1 DEF Prelude, SendData, Finalize
  <2> QED
    BY <2>1, <2>2 DEF image, pass, Flashed
<1>4. CASE Radio
  <2>0. UNCHANGED <<seq, total>>
    BY <1>4 DEF Radio, hostVars
  <2>1. CASE RecvFrame
    <3>1. /\ radio = "updater" /\ UNCHANGED <<flash, cut>>
          /\ \A s \in Slots : flash[s] = Old
          /\ ~cut
      BY <2>1 DEF RecvFrame, Flashed
    <3>2. \/ radio' = "updater" \/ radio' = "reset"
          \/ radio' = "flashing" /\ End
      BY <2>1, <3>1 DEF RecvFrame, Command, KeyBlock, DataBlock, End
    <3>3. End => seq = total /\ at' = 0
      BY <1>0, <2>1 DEF End, RecvFrame, InStep
    <3> QED
      BY <1>0, <2>0, <3>1, <3>2, <3>3, ImageStays DEF Flashed, Slots, End, image
  <2>2. CASE RecvDamaged \/ RecvRest \/ IdleTimeout
    <3>1. /\ radio = "updater" /\ radio' \in {"updater", "reset"}
          /\ UNCHANGED <<image, pass>>
      BY <2>2 DEF RecvDamaged, RecvRest, IdleTimeout
    <3> QED
      BY <2>0, <3>1 DEF Flashed, image, pass
  <2>3. CASE FlashBlock
    <3>1. /\ radio = "flashing" /\ radio' = "flashing" /\ at < img_blocks
          /\ at' = at + 1 /\ UNCHANGED <<image, cut>>
          /\ \A s \in Slots :
               flash'[s] = IF s = at THEN img[at]
                           ELSE IF s = at + 1 /\ at % 2 = 0 THEN Blank
                           ELSE flash[s]
      BY <2>3 DEF FlashBlock
    <3>2. /\ seq = total /\ ~cut
          /\ \A s \in Slots : IF s < at THEN flash[s] = img[s]
                              ELSE flash[s] \in {Old, Blank}
      BY <3>1 DEF Flashed
    <3>3. /\ at + 1 <= img_blocks
          /\ \A s \in Slots : IF s < at + 1 THEN flash'[s] = img[s]
                              ELSE flash'[s] \in {Old, Blank}
      BY <1>0, <3>1, <3>2 DEF Slots
    <3>4. \A s \in Slots : \/ flash'[s] \in {Old, Blank}
                           \/ s < img_blocks /\ flash'[s] = img[s]
      BY <1>0, <3>1, <3>3 DEF Slots
    <3> QED
      BY <2>0, <3>1, <3>2, <3>3, <3>4 DEF Flashed, image
  <2>4. CASE FlashFails
    <3>1. /\ radio = "flashing" /\ radio' = "reset" /\ cut'
          /\ UNCHANGED image
          /\ \A s \in Slots : flash'[s] \in {flash[s], Blank}
      BY <2>4 DEF FlashFails
    <3> QED
      BY <2>0, <3>1 DEF Flashed, image
  <2>5. CASE FlashDone
    <3>1. /\ radio = "flashing" /\ radio' = "reset" /\ at = img_blocks
          /\ UNCHANGED <<image, pass>>
      BY <2>5 DEF FlashDone
    <3>2. seq = total /\ \A s \in 0 .. img_blocks - 1 : flash[s] = img[s]
      BY <1>0, <3>1 DEF Flashed, Slots
    <3> QED
      BY <2>0, <3>1, <3>2 DEF Flashed, image, pass
  <2> QED
    BY <1>4, <2>1, <2>2, <2>3, <2>4, <2>5 DEF Radio, updater_run
<1> QED
  BY <1>1, <1>2, <1>3, <1>4 DEF Next

LEMMA InitImageInv == Init => ImageInv
<1> SUFFICES ASSUME Init PROVE ImageInv
  OBVIOUS
<1>1. InStep
  BY EmptySeq
     DEF Init, UpdaterInit, InStep, NoFrame, Rest, Frames, Cmds
<1>2. Buffered
  BY HostAssumption DEF Init, UpdaterInit, Buffered
<1>3. Flashed
  BY DEF Init, ListenerInit, UpdaterInit, Flashed
<1> QED
  BY <1>1, <1>2, <1>3 DEF ImageInv

LEMMA ImageInvariance == ASSUME ~Latency PROVE Spec => [](TypedInv /\ ImageInv)
<1>1. TypedInv /\ ImageInv /\ [Next]_vars => TypedInv' /\ ImageInv'
  BY NextTypedInv, NextInStep, NextBuffered, NextFlashed DEF ImageInv
<1> QED
  BY <1>1, InitTypedInv, InitImageInv, PTL DEF Spec

(* However often blocks are repeated, each ends up in its own place, for   *)
(* every size of file: over a line where a reply arrives before the next   *)
(* frame is sent.                                                          *)
THEOREM BlocksInPlace == ASSUME ~Latency PROVE Spec => []ImageInPlace
<1>1. ASSUME TypedInv, ImageInv PROVE ImageInPlace
  <2> SUFFICES ASSUME NEW s \in Slots, flash[s] \notin {Old, Blank}
               PROVE  flash[s] # 1 /\ Place(flash[s]) = s
    BY DEF ImageInPlace
  <2>1. seq = total /\ s < img_blocks /\ flash[s] = img[s]
    BY <1>1 DEF ImageInv, Flashed
  <2> QED
    BY <1>1, <2>1, SlotsFilled DEF ImageInv
<1> QED
  BY <1>1, ImageInvariance, PTL

(* END counts no blocks, and yet the radio restarts with all of the new    *)
(* firmware or all of the old one, unless the flash pass is cut short: for *)
(* every size of file and image and any number of attempts, over a line    *)
(* where a reply arrives before the next frame is sent.                    *)
THEOREM AllOrNothing == ASSUME ~Latency PROVE Spec => []OnlyWholeImages
<1>1. ASSUME TypedInv, ImageInv PROVE OnlyWholeImages
  <2> SUFFICES ASSUME seq = total,
                      \A s \in 0 .. img_blocks - 1 : flash[s] = img[s]
               PROVE  Installed
    BY <1>1 DEF OnlyWholeImages, ImageInv, Flashed
  <2> SUFFICES ASSUME NEW b \in 0 .. total - 1, b # 1
               PROVE  Place(b) \in Slots /\ flash[Place(b)] = b
    BY DEF Installed
  <2>1. Got(b)
    BY <1>1 DEF ImageInv, Buffered
  <2>2. /\ Place(b) \in Nat /\ img_blocks \in Nat /\ img_blocks <= ImgMax
        /\ total \in Nat /\ ImgMax \in Nat
    BY <1>1, HostAssumption, ImgAssumption
       DEF TypedInv, UpdateTypeOK, UpdaterTypeOK, Place
  <2>3. Place(b) \in 0 .. img_blocks - 1 /\ img[Place(b)] = b
    BY <2>1, <2>2 DEF Got
  <2> QED
    BY <2>2, <2>3 DEF Slots
<1> QED
  BY <1>1, ImageInvariance, PTL
=============================================================================
