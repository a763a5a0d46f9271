------------------------- MODULE MarkerSectorProofs -------------------------
(***************************************************************************)
(* The marker-based dual sector, for every number of slots, every place of *)
(* the straddling slot, every record, and any supply failures.             *)
(*                                                                         *)
(* The invariant says what each command of marker_write finds in the flash.*)
(* Its heart is CleanAhead: whatever was cut short before, the slots after *)
(* a valid marker are erased, so that the next record never lands on       *)
(* remnants; and Fresh, which follows the record in force through a write  *)
(* that may still be cut short.                                            *)
(***************************************************************************)
EXTENDS MarkerSector, TLAPS

Clean(i) == mark[i] = "blank" /\ body[i] = Erased
NoneValid == \A i \in Slots : mark[i] # "valid"

\* The record in slot i is the one last saved or one cut short since.
InForce(i) ==
  \/ saved # NoRecord /\ body[i] \subseteq saved
  \/ \E r \in tried : body[i] \subseteq r

ArgWritten == pc # "idle" => arg \in Records

CleanAhead ==
  \A i, j \in Slots : mark[i] = "valid" /\ i < j => Clean(j)

\* No record is in force while the old one is gone and the new one not begun.
NothingInForce == pc \in {"wipe1", "wipe2", "mark0", "mark"} => NoneValid

\* Only the last slot sends marker_write round.
WrapFromLast ==
  pc \in {"rewipe2", "rewipe1"} =>
    \A i \in Slots : mark[i] = "valid" => i = MaxSlots - 1

ErasedSoFar ==
  /\ pc = "wipe2" =>
       \A i \in Slots : /\ i <= Straddler => mark[i] = "blank"
                        /\ body[i] \cap InFirst[i] = {}
  /\ pc = "rewipe1" =>
       \A i \in Slots : /\ i > Straddler => mark[i] = "blank"
                        /\ body[i] \cap InSecond[i] = {}
  /\ pc = "mark0" => \A i \in Slots : Clean(i)

AtTarget ==
  /\ pc = "kill" => mark[cur] = "valid"
  /\ pc = "mark" => \A j \in Slots : j > cur => Clean(j)
  /\ pc \in {"body0", "body"} => mark[Target] = "valid" /\ body[Target] = Erased
  /\ pc = "mid" => cur = MidPoint /\ mark[cur + 1] = "valid" /\ body[cur + 1] = arg

Fresh ==
  pc \in {"idle", "rewipe2", "rewipe1", "kill"} =>
    \A i \in Slots : mark[i] = "valid" => InForce(i)

Completed ==
  pc = "idle" /\ tried = {} =>
    IF saved = NoRecord THEN NoneValid
    ELSE \E i \in Slots : mark[i] = "valid" /\ body[i] = saved

Sound == CleanAhead /\ AtMostOneValid /\ Fresh /\ Completed
Staged == ArgWritten /\ NothingInForce /\ WrapFromLast /\ ErasedSoFar /\ AtTarget

IInv == TypeOK /\ Sound /\ Staged

-----------------------------------------------------------------------------

\* With one valid marker at most, marker_find_valid finds it.
LEMMA FoundIt ==
  ASSUME AtMostOneValid
  PROVE  /\ NoneValid => Found = -1
         /\ \A i \in Slots : mark[i] = "valid" => Found = i
         /\ Found \in -1 .. MaxSlots - 1
         /\ Found # -1 => Found \in Slots /\ mark[Found] = "valid"
<1>s. Slots \subseteq -1 .. MaxSlots - 1 /\ -1 \in -1 .. MaxSlots - 1 /\ -1 \notin Slots
  BY LayoutAssumption DEF Slots
<1>1. ASSUME NoneValid PROVE Found = -1
  <2>1. \A k \in -1 .. MaxSlots - 1 : IsFound(k) <=> k = -1
    BY <1>1, <1>s DEF IsFound, NoneValid
  <2> QED
    BY <2>1, <1>s DEF Found
<1>2. ASSUME NEW i \in Slots, mark[i] = "valid" PROVE Found = i
  <2>1. IsFound(i)
    BY <1>2 DEF IsFound, AtMostOneValid, Slots
  <2>2. \A k \in -1 .. MaxSlots - 1 : IsFound(k) => k = i
    BY <1>2 DEF IsFound, AtMostOneValid
  <2> QED
    BY <2>1, <2>2, <1>s DEF Found
<1> QED
  BY <1>1, <1>2, <1>s DEF NoneValid

LEMMA Layout ==
  /\ MaxSlots \in Nat \ {0} /\ Straddler \in Nat /\ MidPoint \in Nat
  /\ Straddler < MaxSlots /\ Straddler <= MidPoint
  /\ 0 \in Slots /\ Slots \subseteq Int
  /\ \A i \in Slots : /\ InFirst[i] \subseteq Bits
                      /\ InFirst[i] \cup InSecond[i] = Bits
                      /\ i > Straddler => InFirst[i] = {}
                      /\ i < Straddler => InSecond[i] = {}
<1>1. /\ MaxSlots \in Nat \ {0} /\ Straddler \in Nat /\ MidPoint \in Nat
      /\ Straddler < MaxSlots /\ Straddler <= MidPoint
      /\ 0 \in Slots /\ Slots \subseteq Int
  BY LayoutAssumption DEF Slots
<1>2. ASSUME NEW i \in Slots
      PROVE  /\ InFirst[i] \subseteq Bits
             /\ InFirst[i] \cup InSecond[i] = Bits
             /\ i > Straddler => InFirst[i] = {}
             /\ i < Straddler => InSecond[i] = {}
  BY <1>1, RecordsAssumption DEF InFirst, InSecond
<1> QED
  BY <1>1, <1>2

LEMMA InitIInv == Init => IInv
<1> SUFFICES ASSUME Init PROVE IInv
  OBVIOUS
<1>1. TypeOK
  BY Layout DEF Init, TypeOK, Mark, Steps, Erased
<1>2. \A i \in Slots : mark[i] = "blank" /\ body[i] = Erased
  BY DEF Init
<1>3. Sound
  BY <1>2 DEF Init, Sound, CleanAhead, Clean, AtMostOneValid, Fresh, Completed,
              NoneValid
<1>4. Staged
  BY DEF Init, Staged, ArgWritten, NothingInForce, WrapFromLast, ErasedSoFar,
         AtTarget
<1> QED
  BY <1>1, <1>3, <1>4 DEF IInv

LEMMA BeginWriteIInv ==
  ASSUME IInv, NEW v \in Records, BeginWrite(v)
  PROVE  IInv'
<1> USE DEF IInv, Sound, Staged
<1>1. /\ pc = "idle" /\ cur' = Found /\ arg' = v
      /\ pc' = IF cur' < 0 THEN "wipe1"
               ELSE IF cur' >= MaxSlots - 1 THEN "rewipe2" ELSE "kill"
      /\ mark' = mark /\ body' = body /\ saved' = saved /\ tried' = tried
  BY DEF BeginWrite
<1>2. /\ NoneValid => Found = -1
      /\ \A i \in Slots : mark[i] = "valid" => Found = i
      /\ Found \in -1 .. MaxSlots - 1
      /\ Found # -1 => Found \in Slots /\ mark[Found] = "valid"
  BY FoundIt
<1>3. pc' = "kill" => cur' \in Slots /\ cur' + 1 \in Slots
  BY <1>1, <1>2, Layout DEF Slots
<1>4. TypeOK'
  BY <1>1, <1>2, <1>3 DEF TypeOK, Steps
<1>5. /\ pc' = "wipe1" => NoneValid
      /\ pc' \in {"wipe1", "rewipe2", "kill"}
      /\ pc' = "rewipe2" => \A i \in Slots : mark[i] = "valid" => i = MaxSlots - 1
      /\ pc' = "kill" => mark[cur'] = "valid"
  BY <1>1, <1>2, <1>3, Layout DEF NoneValid, Slots
<1>6. Sound'
  BY <1>1, <1>5
     DEF CleanAhead, Clean, AtMostOneValid, Fresh, InForce, Completed
<1>7. Staged'
  BY <1>1, <1>5
     DEF ArgWritten, NothingInForce, NoneValid, WrapFromLast, ErasedSoFar, AtTarget
<1> QED
  BY <1>4, <1>6, <1>7

\* What both erases do, in whichever order they come.
LEMMA Erases ==
  ASSUME IInv, FirstErased \/ SecondErased
  PROVE  /\ mark' \in [Slots -> Mark] /\ body' \in [Slots -> SUBSET Bits]
         /\ \A i \in Slots : /\ mark'[i] \in {mark[i], "blank"}
                             /\ body'[i] \subseteq body[i]
<1>1. mark \in [Slots -> Mark] /\ body \in [Slots -> SUBSET Bits]
  BY DEF IInv, TypeOK
<1>2. CASE FirstErased
  <2>1. mark' \in [Slots -> Mark] /\ body' \in [Slots -> SUBSET Bits]
    BY <1>1, <1>2 DEF FirstErased, Mark
  <2> QED
    BY <1>1, <1>2, <2>1 DEF FirstErased
<1>3. CASE SecondErased
  <2>1. mark' \in [Slots -> Mark] /\ body' \in [Slots -> SUBSET Bits]
    BY <1>1, <1>3 DEF SecondErased, Mark
  <2> QED
    BY <1>1, <1>3, <2>1 DEF SecondErased
<1> QED
  BY <1>2, <1>3

LEMMA WipeIInv == IInv /\ Wipe => IInv'
<1> SUFFICES ASSUME IInv, Wipe PROVE IInv'
  OBVIOUS
<1> USE DEF IInv, Sound, Staged
<1>t. mark \in [Slots -> Mark] /\ body \in [Slots -> SUBSET Bits]
  BY DEF TypeOK
<1>1. /\ mark' \in [Slots -> Mark] /\ body' \in [Slots -> SUBSET Bits]
      /\ \A i \in Slots : /\ mark'[i] \in {mark[i], "blank"}
                          /\ body'[i] \subseteq body[i]
  BY Erases DEF Wipe
<1>2. /\ cur' = cur /\ arg' = arg /\ saved' = saved /\ tried' = tried
      /\ pc \in {"wipe1", "wipe2"} /\ pc' \in {"wipe2", "mark0"}
  BY DEF Wipe, Continue
<1>3. TypeOK'
  BY <1>1, <1>2 DEF TypeOK, Steps
<1>4. NoneValid'
  BY <1>1, <1>2 DEF NothingInForce, NoneValid
<1>5. Sound'
  BY <1>2, <1>4 DEF NoneValid, CleanAhead, AtMostOneValid, Fresh, Completed
<1>6. ErasedSoFar'
  <2>1. CASE pc = "wipe1"
    <3>1. pc' = "wipe2" /\ FirstErased
      BY <2>1 DEF Wipe, Continue
    <3>2. \A i \in Slots : /\ i <= Straddler => mark'[i] = "blank"
                           /\ body'[i] \cap InFirst[i] = {}
      BY <3>1, <1>t DEF FirstErased
    <3>3. InFirst' = InFirst
      BY DEF InFirst, Slots
    <3> QED
      BY <3>1, <3>2, <3>3 DEF ErasedSoFar
  <2>2. CASE pc = "wipe2"
    <3>1. pc' = "mark0" /\ SecondErased
      BY <2>2 DEF Wipe, Continue
    <3>2. ASSUME NEW i \in Slots
          PROVE  mark'[i] = "blank" /\ body'[i] = {}
      <4>1. /\ i <= Straddler => mark[i] = "blank"
            /\ body[i] \cap InFirst[i] = {}
        BY <2>2 DEF ErasedSoFar
      <4>2. /\ mark'[i] = IF i > Straddler THEN "blank" ELSE mark[i]
            /\ body'[i] = body[i] \ InSecond[i]
        BY <3>1 DEF SecondErased
      <4>3. body[i] \subseteq Bits /\ InFirst[i] \cup InSecond[i] = Bits
        BY <1>t, Layout
      <4> QED
        BY <4>1, <4>2, <4>3, Layout
    <3> QED
      BY <3>1, <3>2 DEF ErasedSoFar, Clean, Erased
  <2> QED
    BY <1>2, <2>1, <2>2
<1>7. Staged'
  BY <1>2, <1>4, <1>6 DEF ArgWritten, NothingInForce, WrapFromLast, AtTarget
<1> QED
  BY <1>3, <1>5, <1>7

LEMMA WrapAroundIInv == IInv /\ WrapAround => IInv'
<1> SUFFICES ASSUME IInv, WrapAround PROVE IInv'
  OBVIOUS
<1> USE DEF IInv, Sound, Staged
<1>t. mark \in [Slots -> Mark] /\ body \in [Slots -> SUBSET Bits]
  BY DEF TypeOK
<1>1. /\ mark' \in [Slots -> Mark] /\ body' \in [Slots -> SUBSET Bits]
      /\ \A i \in Slots : /\ mark'[i] \in {mark[i], "blank"}
                          /\ body'[i] \subseteq body[i]
  BY Erases DEF WrapAround
<1>2. /\ cur' = cur /\ arg' = arg /\ saved' = saved /\ tried' = tried
      /\ pc \in {"rewipe2", "rewipe1"} /\ pc' \in {"rewipe1", "mark0"}
  BY DEF WrapAround, Continue
<1>3. TypeOK'
  BY <1>1, <1>2 DEF TypeOK, Steps
<1>4. \A i \in Slots : mark'[i] = "valid" => mark[i] = "valid" /\ i = MaxSlots - 1
  BY <1>1, <1>2 DEF WrapFromLast
<1>5. Sound'
  <2>1. CleanAhead' /\ AtMostOneValid'
    BY <1>4, Layout DEF CleanAhead, AtMostOneValid, Slots
  <2>2. Fresh'
    <3> SUFFICES ASSUME NEW i \in Slots, mark'[i] = "valid" PROVE InForce(i)'
      BY DEF Fresh
    <3>1. InForce(i)
      BY <1>2, <1>4 DEF Fresh
    <3> QED
      BY <3>1, <1>1, <1>2 DEF InForce
  <2> QED
    BY <1>2, <2>1, <2>2 DEF Completed
<1>6. ErasedSoFar' /\ (pc' = "mark0" => NoneValid')
  <2>1. CASE pc = "rewipe2"
    <3>1. pc' = "rewipe1" /\ SecondErased
      BY <2>1 DEF WrapAround, Continue
    <3>2. \A i \in Slots : /\ i > Straddler => mark'[i] = "blank"
                           /\ body'[i] \cap InSecond[i] = {}
      BY <3>1, <1>t DEF SecondErased
    <3> QED
      BY <3>1, <3>2 DEF ErasedSoFar
  <2>2. CASE pc = "rewipe1"
    <3>1. pc' = "mark0" /\ FirstErased
      BY <2>2 DEF WrapAround, Continue
    <3>2. ASSUME NEW i \in Slots
          PROVE  mark'[i] = "blank" /\ body'[i] = {}
      <4>1. /\ i > Straddler => mark[i] = "blank"
            /\ body[i] \cap InSecond[i] = {}
        BY <2>2 DEF ErasedSoFar
      <4>2. /\ mark'[i] = IF i <= Straddler THEN "blank" ELSE mark[i]
            /\ body'[i] = body[i] \ InFirst[i]
        BY <3>1 DEF FirstErased
      <4>3. body[i] \subseteq Bits /\ InFirst[i] \cup InSecond[i] = Bits
        BY <1>t, Layout
      <4> QED
        BY <4>1, <4>2, <4>3, Layout
    <3> QED
      BY <3>1, <3>2 DEF ErasedSoFar, Clean, Erased, NoneValid
  <2> QED
    BY <1>2, <2>1, <2>2
<1>7. Staged'
  BY <1>2, <1>4, <1>6 DEF ArgWritten, NothingInForce, WrapFromLast, AtTarget
<1> QED
  BY <1>3, <1>5, <1>7

LEMMA KillIInv == IInv /\ Kill => IInv'
<1> SUFFICES ASSUME IInv, Kill PROVE IInv'
  OBVIOUS
<1> USE DEF IInv, Sound, Staged
<1>1. /\ pc = "kill" /\ pc' = "mark" /\ cur' = cur /\ arg' = arg
      /\ saved' = saved /\ tried' = tried /\ body' = body
      /\ mark' = [mark EXCEPT ![cur] = "dead"]
  BY DEF Kill, Continue
<1>t. /\ mark \in [Slots -> Mark] /\ cur \in Slots /\ cur + 1 \in Slots
      /\ mark[cur] = "valid"
  BY <1>1 DEF TypeOK, AtTarget
<1>2. \A i \in Slots : mark'[i] = IF i = cur THEN "dead" ELSE mark[i]
  BY <1>1, <1>t
<1>3. TypeOK'
  BY <1>1, <1>t DEF TypeOK, Steps, Mark
<1>4. NoneValid'
  BY <1>2, <1>t DEF NoneValid, AtMostOneValid
<1>5. \A j \in Slots : j > cur => Clean(j)'
  BY <1>1, <1>2, <1>t, Layout DEF CleanAhead, Clean
<1>6. Sound'
  BY <1>1, <1>4 DEF NoneValid, CleanAhead, AtMostOneValid, Fresh, Completed
<1>7. Staged'
  BY <1>1, <1>4, <1>5
     DEF ArgWritten, NothingInForce, WrapFromLast, ErasedSoFar, AtTarget
<1> QED
  BY <1>3, <1>6, <1>7

\* The slot a marker or a record goes to is erased, and so are those after it.
LEMMA TargetReady ==
  ASSUME IInv, pc \in {"mark0", "mark", "body0", "body"}
  PROVE  /\ Target \in Slots
         /\ pc \in {"mark0", "mark"} => NoneValid /\ mark[Target] = "blank"
         /\ pc \in {"body0", "body"} => mark[Target] = "valid"
         /\ body[Target] = Erased
         /\ \A j \in Slots : j > Target => Clean(j)
<1> USE DEF IInv, Sound, Staged
<1>1. Target \in Slots
  BY Layout DEF Target, TypeOK
<1>2. CASE pc = "mark0"
  BY <1>1, <1>2 DEF ErasedSoFar, NothingInForce, Clean
<1>3. CASE pc = "mark"
  <2>1. cur \in Slots /\ Target = cur + 1
    BY <1>3 DEF TypeOK, Target
  <2>2. \A j \in Slots : j >= Target => Clean(j)
    BY <2>1, <1>3, Layout DEF AtTarget
  <2>3. Clean(Target) /\ NoneValid
    BY <2>2, <1>1, <1>3, Layout DEF NothingInForce
  <2>4. \A j \in Slots : j > Target => Clean(j)
    BY <2>2, <1>1, Layout
  <2> QED
    BY <2>3, <2>4, <1>1, <1>3 DEF Clean
<1>4. CASE pc \in {"body0", "body"}
  BY <1>1, <1>4 DEF AtTarget, CleanAhead
<1> QED
  BY <1>1, <1>2, <1>3, <1>4

LEMMA WriteMarkIInv == IInv /\ WriteMark => IInv'
<1> SUFFICES ASSUME IInv, WriteMark PROVE IInv'
  OBVIOUS
<1> USE DEF IInv, Sound, Staged
<1>1. /\ pc \in {"mark0", "mark"} /\ cur' = cur /\ arg' = arg
      /\ pc' = IF pc = "mark0" THEN "body0" ELSE "body"
      /\ saved' = saved /\ tried' = tried /\ body' = body
      /\ mark' = [mark EXCEPT ![Target] = Mark0xA5(@)]
  BY DEF WriteMark, Continue
<1>t. mark \in [Slots -> Mark]
  BY DEF TypeOK
<1>2. /\ Target \in Slots /\ NoneValid /\ mark[Target] = "blank"
      /\ body[Target] = Erased
      /\ \A j \in Slots : j > Target => Clean(j)
  BY <1>1, TargetReady
<1>3. \A i \in Slots : mark'[i] = IF i = Target THEN "valid" ELSE mark[i]
  BY <1>1, <1>2, <1>t DEF Mark0xA5
<1>4. Target' = Target
  BY <1>1 DEF Target
<1>5. TypeOK'
  BY <1>1, <1>2, <1>t DEF TypeOK, Steps, Mark, Mark0xA5
<1>6. Sound'
  <2>1. \A i \in Slots : mark'[i] = "valid" <=> i = Target
    BY <1>2, <1>3 DEF NoneValid
  <2>2. AtMostOneValid'
    BY <2>1, <1>2 DEF AtMostOneValid
  <2>3. CleanAhead'
    BY <2>1, <1>1, <1>2, <1>3, Layout DEF CleanAhead, Clean
  <2> QED
    BY <2>2, <2>3, <1>1 DEF Fresh, Completed
<1>7. Staged'
  BY <1>1, <1>2, <1>3, <1>4
     DEF ArgWritten, NothingInForce, WrapFromLast, ErasedSoFar, AtTarget
<1> QED
  BY <1>5, <1>6, <1>7

\* A write returns: its record is behind the only valid marker.
LEMMA ReturnIInv ==
  ASSUME IInv, pc # "idle", Return, NEW k \in Slots,
         AtMostOneValid', CleanAhead', mark' \in [Slots -> Mark],
         body' \in [Slots -> SUBSET Bits], mark'[k] = "valid", body'[k] = arg
  PROVE  IInv'
<1> USE DEF IInv, Sound, Staged
<1>1. /\ pc' = "idle" /\ cur' = -1 /\ arg' = NoRecord /\ saved' = arg
      /\ tried' = {}
  BY DEF Return
<1>2. arg \in Records /\ arg # NoRecord
  BY RecordsAssumption DEF ArgWritten
<1>3. TypeOK'
  BY <1>1, <1>2, LayoutAssumption DEF TypeOK, Steps
<1>4. \A i \in Slots : mark'[i] = "valid" => i = k
  BY DEF AtMostOneValid
<1>5. Fresh' /\ Completed'
  BY <1>1, <1>2, <1>4 DEF Fresh, InForce, Completed
<1>6. Staged'
  BY <1>1 DEF ArgWritten, NothingInForce, WrapFromLast, ErasedSoFar, AtTarget
<1> QED
  BY <1>3, <1>5, <1>6

LEMMA WriteBodyIInv == IInv /\ WriteBody => IInv'
<1> SUFFICES ASSUME IInv, WriteBody PROVE IInv'
  OBVIOUS
<1> USE DEF IInv, Sound, Staged
<1>1. /\ pc \in {"body0", "body"} /\ mark' = mark
      /\ body' = [body EXCEPT ![Target] = Program(@, arg)]
      /\ IF pc = "body" /\ cur = MidPoint THEN Continue("mid") ELSE Return
  BY DEF WriteBody
<1>t. /\ mark \in [Slots -> Mark] /\ body \in [Slots -> SUBSET Bits]
      /\ arg \in Records /\ arg \subseteq Bits
  BY <1>1, RecordsAssumption DEF TypeOK, ArgWritten
<1>2. /\ Target \in Slots /\ mark[Target] = "valid" /\ body[Target] = Erased
      /\ \A j \in Slots : j > Target => Clean(j)
  BY <1>1, TargetReady
<1>3. \A i \in Slots : body'[i] = IF i = Target THEN arg ELSE body[i]
  BY <1>1, <1>2, <1>t DEF Program, Erased
<1>4. body' \in [Slots -> SUBSET Bits]
  BY <1>1, <1>2, <1>3, <1>t
<1>5. \A i \in Slots : mark[i] = "valid" <=> i = Target
  BY <1>2 DEF AtMostOneValid
<1>6. AtMostOneValid' /\ CleanAhead'
  BY <1>1, <1>2, <1>3, <1>5, Layout DEF AtMostOneValid, CleanAhead, Clean
<1>7. CASE Return
  BY <1>1, <1>2, <1>3, <1>4, <1>6, <1>7, <1>t, ReturnIInv
<1>8. CASE pc = "body" /\ cur = MidPoint /\ Continue("mid")
  <2>1. /\ pc' = "mid" /\ cur' = cur /\ arg' = arg /\ saved' = saved
        /\ tried' = tried /\ Target = cur + 1
    BY <1>8 DEF Continue, Target
  <2>2. TypeOK'
    BY <2>1, <1>1, <1>4, <1>8 DEF TypeOK, Steps
  <2>3. Fresh' /\ Completed'
    BY <2>1 DEF Fresh, Completed
  <2>4. Staged'
    BY <2>1, <1>1, <1>2, <1>3, <1>8
       DEF ArgWritten, NothingInForce, WrapFromLast, ErasedSoFar, AtTarget
  <2> QED
    BY <2>2, <2>3, <2>4, <1>6
<1> QED
  BY <1>1, <1>7, <1>8

\* The slot just written lies past the sector that the middle erases.
LEMMA PastTheMiddle ==
  ASSUME IInv, pc = "mid"
  PROVE  /\ cur + 1 \in Slots /\ cur + 1 > Straddler
         /\ InFirst[cur + 1] = {}
         /\ mark[cur + 1] = "valid" /\ body[cur + 1] = arg
         /\ \A i \in Slots : mark[i] = "valid" => i = cur + 1
<1>1. /\ cur + 1 \in Slots /\ cur = MidPoint
      /\ mark[cur + 1] = "valid" /\ body[cur + 1] = arg
  BY DEF IInv, Staged, TypeOK, AtTarget
<1>2. cur + 1 > Straddler
  BY <1>1, Layout
<1> QED
  BY <1>1, <1>2, Layout DEF IInv, Sound, AtMostOneValid

LEMMA MidEraseIInv == IInv /\ MidErase => IInv'
<1> SUFFICES ASSUME IInv, MidErase PROVE IInv'
  OBVIOUS
<1> USE DEF IInv, Sound, Staged
<1>1. pc = "mid" /\ FirstErased /\ Return
  BY DEF MidErase
<1>t. mark \in [Slots -> Mark] /\ body \in [Slots -> SUBSET Bits]
  BY DEF TypeOK
<1>2. /\ cur + 1 \in Slots /\ cur + 1 > Straddler /\ InFirst[cur + 1] = {}
      /\ mark[cur + 1] = "valid" /\ body[cur + 1] = arg
      /\ \A i \in Slots : mark[i] = "valid" => i = cur + 1
  BY <1>1, PastTheMiddle
<1>3. /\ mark' \in [Slots -> Mark] /\ body' \in [Slots -> SUBSET Bits]
      /\ \A i \in Slots : /\ mark'[i] \in {mark[i], "blank"}
                          /\ body'[i] \subseteq body[i]
  BY <1>1, Erases
<1>4. mark'[cur + 1] = "valid" /\ body'[cur + 1] = arg
  <2>1. /\ mark'[cur + 1] = mark[cur + 1]
        /\ body'[cur + 1] = body[cur + 1] \ InFirst[cur + 1]
    <3> DEFINE k == cur + 1
    <3>1. k \in Slots /\ ~(k <= Straddler)
      BY <1>2, LayoutAssumption DEF Slots
    <3> HIDE DEF k
    <3>2. mark'[k] = mark[k] /\ body'[k] = body[k] \ InFirst[k]
      BY <3>1, <1>1 DEF FirstErased
    <3> QED
      BY <3>2 DEF k
  <2>2. body[cur + 1] \ {} = body[cur + 1]
    OBVIOUS
  <2> QED
    BY <2>1, <2>2, <1>2
<1>5. AtMostOneValid' /\ CleanAhead'
  <2>1. \A i \in Slots : mark'[i] = "valid" => i = cur + 1
    BY <1>2, <1>3
  <2>2. \A j \in Slots : j > cur + 1 => Clean(j)
    BY <1>2 DEF CleanAhead
  <2>3. \A j \in Slots : Clean(j) => Clean(j)'
    BY <1>3 DEF Clean, Erased
  <2> QED
    BY <2>1, <2>2, <2>3 DEF AtMostOneValid, CleanAhead
<1> QED
  BY <1>1, <1>2, <1>3, <1>4, <1>5, ReturnIInv

-----------------------------------------------------------------------------
(* The supply fails. *)

\* An erase that was cut short makes no marker valid and adds to no record,
\* and it does not touch a slot that its sector holds no part of.
LEMMA Torn ==
  ASSUME IInv, NEW part, part \in {InFirst, InSecond}, NEW marked,
         TornErase(part, marked)
  PROVE  /\ mark' \in [Slots -> Mark] /\ body' \in [Slots -> SUBSET Bits]
         /\ \A i \in Slots : /\ mark'[i] \in {mark[i], "blank", "dead"}
                             /\ body'[i] \subseteq body[i]
                             /\ part[i] = {} => /\ mark'[i] = mark[i]
                                                /\ body'[i] = body[i]
<1>t. mark \in [Slots -> Mark] /\ body \in [Slots -> SUBSET Bits]
  BY DEF IInv, TypeOK
<1>1. PICK torn \in SUBSET {i \in Slots : part[i] # {}}, bits \in SUBSET Bits,
           byte \in {"blank", "dead"} :
        /\ mark' = [i \in Slots |-> IF i \in torn \cap marked THEN byte ELSE mark[i]]
        /\ body' = [i \in Slots |-> IF i \in torn THEN body[i] \ (part[i] \cap bits)
                                    ELSE body[i]]
  BY DEF TornErase
<1>2. ASSUME NEW i \in Slots
      PROVE  /\ mark'[i] = IF i \in torn \cap marked THEN byte ELSE mark[i]
             /\ body'[i] = IF i \in torn THEN body[i] \ (part[i] \cap bits)
                           ELSE body[i]
  BY <1>1
<1>3. ASSUME NEW i \in Slots
      PROVE  /\ mark'[i] \in {mark[i], "blank", "dead"} /\ mark'[i] \in Mark
             /\ body'[i] \subseteq body[i] /\ body'[i] \in SUBSET Bits
             /\ part[i] = {} => mark'[i] = mark[i] /\ body'[i] = body[i]
  <2>1. mark[i] \in Mark /\ body[i] \in SUBSET Bits
    BY <1>t
  <2>2. part[i] = {} => i \notin torn
    BY <1>1
  <2> QED
    BY <1>2, <2>1, <2>2 DEF Mark
<1>4. mark' \in [Slots -> Mark] /\ body' \in [Slots -> SUBSET Bits]
  BY <1>1, <1>3
<1> QED
  BY <1>3, <1>4

\* What an outage must leave behind: the next write starts from there.
LEMMA OutageIInv ==
  ASSUME IInv, PowerLoss, pc # "idle",
         mark' \in [Slots -> Mark], body' \in [Slots -> SUBSET Bits],
         AtMostOneValid', CleanAhead',
         \A i \in Slots : mark'[i] = "valid" =>
           \/ saved # NoRecord /\ body'[i] \subseteq saved
           \/ \E r \in tried \cup {arg} : body'[i] \subseteq r
  PROVE  IInv'
<1> USE DEF IInv, Sound, Staged
<1>1. /\ pc' = "idle" /\ cur' = -1 /\ arg' = NoRecord
      /\ tried' = tried \cup {arg} /\ saved' = saved
  BY DEF PowerLoss
<1>2. arg \in Records
  BY DEF ArgWritten
<1>3. TypeOK'
  BY <1>1, <1>2, LayoutAssumption DEF TypeOK, Steps
<1>4. Fresh' /\ Completed'
  BY <1>1 DEF Fresh, InForce, Completed
<1>5. Staged'
  BY <1>1 DEF ArgWritten, NothingInForce, WrapFromLast, ErasedSoFar, AtTarget
<1> QED
  BY <1>3, <1>4, <1>5

LEMMA PowerLossIInv == IInv /\ PowerLoss => IInv'
<1> SUFFICES ASSUME IInv, PowerLoss PROVE IInv'
  OBVIOUS
<1> USE DEF IInv, Sound, Staged
<1>0. TornCommand
  BY DEF PowerLoss
<1>t. /\ mark \in [Slots -> Mark] /\ body \in [Slots -> SUBSET Bits]
      /\ AtMostOneValid /\ CleanAhead
  BY DEF TypeOK
<1>1. CASE pc \in {"wipe1", "rewipe1", "mid", "wipe2", "rewipe2"}
  <2>1. PICK part \in {InFirst, InSecond} :
          /\ pc \in {"wipe1", "rewipe1", "mid"} => part = InFirst
          /\ \E marked \in {0 .. Straddler, Straddler + 1 .. MaxSlots - 1} :
               TornErase(part, marked)
    BY <1>0, <1>1 DEF TornCommand
  <2>2. /\ mark' \in [Slots -> Mark] /\ body' \in [Slots -> SUBSET Bits]
        /\ \A i \in Slots : /\ mark'[i] \in {mark[i], "blank", "dead"}
                            /\ body'[i] \subseteq body[i]
                            /\ part[i] = {} => /\ mark'[i] = mark[i]
                                               /\ body'[i] = body[i]
    BY <2>1, Torn
  <2>3. \A i \in Slots : mark'[i] = "valid" => mark[i] = "valid"
    BY <2>2
  <2>4. AtMostOneValid'
    BY <2>3, <1>t DEF AtMostOneValid
  <2>5. CASE pc \in {"wipe1", "wipe2"}
    <3>1. \A i \in Slots : mark'[i] # "valid"
      BY <2>3, <2>5 DEF NothingInForce, NoneValid
    <3>2. CleanAhead'
      BY <3>1 DEF CleanAhead
    <3> QED
      BY <2>2, <2>4, <2>5, <3>1, <3>2, OutageIInv
  <2>6. CASE pc \in {"rewipe1", "rewipe2"}
    <3>1. \A i \in Slots : mark'[i] = "valid" => i = MaxSlots - 1
      BY <2>3, <2>6 DEF WrapFromLast
    <3>2. CleanAhead'
      BY <3>1, LayoutAssumption DEF CleanAhead, Slots
    <3>3. ASSUME NEW i \in Slots, mark'[i] = "valid"
          PROVE  \/ saved # NoRecord /\ body'[i] \subseteq saved
                 \/ \E r \in tried \cup {arg} : body'[i] \subseteq r
      <4>1. InForce(i)
        BY <2>3, <2>6, <3>3 DEF Fresh
      <4> QED
        BY <4>1, <2>2 DEF InForce
    <3> QED
      BY <2>2, <2>4, <2>6, <3>2, <3>3, OutageIInv
  <2>7. CASE pc = "mid"
    <3> DEFINE k == cur + 1
    <3>1. /\ k \in Slots /\ k > Straddler /\ InFirst[k] = {}
          /\ mark[k] = "valid" /\ body[k] = arg
          /\ \A i \in Slots : mark[i] = "valid" => i = k
      BY <2>7, PastTheMiddle
    <3> HIDE DEF k
    <3>2. part = InFirst
      BY <2>1, <2>7
    <3>3. \A i \in Slots : i >= k => mark'[i] = mark[i] /\ body'[i] = body[i]
      <4>1. \A i \in Slots : i >= k => i > Straddler
        BY <3>1, Layout
      <4> QED
        BY <4>1, <3>2, <2>2, Layout
    <3>4. CleanAhead'
      <4> SUFFICES ASSUME NEW i \in Slots, NEW j \in Slots,
                          mark'[i] = "valid", i < j
                   PROVE  Clean(j)'
        BY DEF CleanAhead
      <4>1. i = k
        BY <2>3, <3>1
      <4>2. Clean(j)
        BY <4>1, <3>1, <1>t DEF CleanAhead
      <4>3. j >= k
        BY <4>1, Layout
      <4> QED
        BY <4>2, <4>3, <3>3 DEF Clean
    <3>5. body'[k] = arg
      BY <3>1, <3>2, <2>2
    <3>6. \A i \in Slots : mark'[i] = "valid" => body'[i] = arg
      BY <2>3, <3>1, <3>5
    <3> QED
      BY <2>2, <2>4, <2>7, <3>4, <3>6, OutageIInv
  <2> QED
    BY <1>1, <2>5, <2>6, <2>7
<1>2. CASE pc \in {"mark0", "mark"}
  <2>1. /\ Target \in Slots /\ NoneValid /\ body' = body
        /\ mark' \in {mark, [mark EXCEPT ![Target] = "dead"]}
    BY <1>0, <1>2, TargetReady DEF TornCommand
  <2>2. mark' \in [Slots -> Mark]
    BY <2>1, <1>t DEF Mark
  <2>3. \A i \in Slots : mark'[i] # "valid"
    BY <2>1, <1>t DEF NoneValid
  <2>4. AtMostOneValid' /\ CleanAhead'
    BY <2>3 DEF AtMostOneValid, CleanAhead
  <2> QED
    BY <1>t, <1>2, <2>1, <2>2, <2>3, <2>4, OutageIInv
<1>3. CASE pc \in {"body0", "body"}
  <2>1. /\ Target \in Slots /\ mark[Target] = "valid" /\ body[Target] = Erased
        /\ \A j \in Slots : j > Target => Clean(j)
    BY <1>3, TargetReady
  <2>2. PICK c \in TornProgram(body[Target], arg) :
          body' = [body EXCEPT ![Target] = c] /\ mark' = mark
    BY <1>0, <1>3 DEF TornCommand
  <2>3. arg \subseteq Bits /\ c \subseteq arg /\ c \subseteq Bits
    <3>1. arg \in Records
      BY <1>3 DEF ArgWritten
    <3>2. c \subseteq arg
      BY <2>1, <2>2 DEF TornProgram, Program, Erased
    <3> QED
      BY <3>1, <3>2, RecordsAssumption
  <2>4. \A i \in Slots : body'[i] = IF i = Target THEN c ELSE body[i]
    BY <2>1, <2>2, <1>t
  <2>5. body' \in [Slots -> SUBSET Bits]
    BY <2>2, <2>3, <1>t
  <2>6. \A i \in Slots : mark'[i] = "valid" => i = Target
    BY <2>1, <2>2, <1>t DEF AtMostOneValid
  <2>7. AtMostOneValid' /\ CleanAhead'
    BY <2>1, <2>2, <2>4, <2>6, Layout DEF AtMostOneValid, CleanAhead, Clean
  <2>8. \A i \in Slots : mark'[i] = "valid" => body'[i] \subseteq arg
    BY <2>3, <2>4, <2>6
  <2> QED
    BY <1>t, <1>3, <2>2, <2>5, <2>7, <2>8, OutageIInv
<1>4. CASE pc = "kill"
  <2>1. mark' = mark /\ body' = body
    BY <1>0, <1>4 DEF TornCommand
  <2>2. AtMostOneValid' /\ CleanAhead'
    BY <2>1, <1>t DEF AtMostOneValid, CleanAhead, Clean
  <2>3. ASSUME NEW i \in Slots, mark'[i] = "valid"
        PROVE  \/ saved # NoRecord /\ body'[i] \subseteq saved
               \/ \E r \in tried \cup {arg} : body'[i] \subseteq r
    <3>1. InForce(i)
      BY <2>1, <2>3, <1>4 DEF Fresh
    <3> QED
      BY <3>1, <2>1 DEF InForce
  <2> QED
    BY <1>t, <1>4, <2>1, <2>2, <2>3, OutageIInv
<1> QED
  BY <1>0, <1>1, <1>2, <1>3, <1>4 DEF TornCommand

-----------------------------------------------------------------------------

LEMMA NextIInv == IInv /\ [Next]_vars => IInv'
<1> SUFFICES ASSUME IInv, [Next]_vars PROVE IInv'
  OBVIOUS
<1>1. CASE UNCHANGED vars
  BY <1>1 DEF vars, IInv, TypeOK, Sound, CleanAhead, Clean, AtMostOneValid,
              Fresh, InForce, Completed, NoneValid, Staged, ArgWritten,
              NothingInForce, WrapFromLast, ErasedSoFar, AtTarget, Target
<1> QED
  BY <1>1, BeginWriteIInv, WipeIInv, WrapAroundIInv, KillIInv, WriteMarkIInv,
     WriteBodyIInv, MidEraseIInv, PowerLossIInv DEF Next

LEMMA Invariance == Spec => []IInv
  BY InitIInv, NextIInv, PTL DEF Spec

(* marker_write never leaves the sectors, and calls no erase or program    *)
(* for a slot that is not there.                                           *)
THEOREM TypeCorrect == Spec => []TypeOK
  BY Invariance, PTL DEF IInv

(* However writes are cut short, marker_find_valid never has a choice.     *)
THEOREM NeverAmbiguous == Spec => []AtMostOneValid
  BY Invariance, PTL DEF IInv, Sound

(* A record written to the end reads back, whatever outages came before.   *)
THEOREM WriteReadsBack == Spec => []CompletedWriteReadsBack
<1>1. IInv => CompletedWriteReadsBack
  <2> SUFFICES ASSUME IInv, pc = "idle", tried = {} PROVE Read = saved
    BY DEF CompletedWriteReadsBack
  <2>1. AtMostOneValid /\ Completed
    BY DEF IInv, Sound
  <2>2. CASE saved = NoRecord
    <3>1. NoneValid
      BY <2>1, <2>2 DEF Completed
    <3> QED
      BY <2>1, <2>2, <3>1, FoundIt DEF Read
  <2>3. CASE saved # NoRecord
    <3>1. PICK i \in Slots : mark[i] = "valid" /\ body[i] = saved
      BY <2>1, <2>3 DEF Completed
    <3>2. Found = i /\ i # -1
      BY <2>1, <3>1, FoundIt DEF Slots
    <3> QED
      BY <3>1, <3>2 DEF Read
  <2> QED
    BY <2>2, <2>3
<1> QED
  BY <1>1, Invariance, PTL

(* An outage costs the record in force and the one being written at most:  *)
(* a superseded record never comes back.                                   *)
THEOREM NothingStale == Spec => []NothingStaleComesBack
<1>1. IInv => NothingStaleComesBack
  <2> SUFFICES ASSUME IInv, pc = "idle", Found # -1
               PROVE  \/ saved # NoRecord /\ Read \subseteq saved
                      \/ \E r \in tried : Read \subseteq r
    BY DEF NothingStaleComesBack
  <2>1. Found \in Slots /\ mark[Found] = "valid"
    BY FoundIt DEF IInv, Sound
  <2>2. InForce(Found)
    BY <2>1 DEF IInv, Sound, Fresh
  <2> QED
    BY <2>2 DEF InForce, Read
<1> QED
  BY <1>1, Invariance, PTL

ReadsTheMarked == \A i \in Slots : mark[i] = "valid" => Read = body[i]

(* The erase at the middle never reaches the record just written, whether  *)
(* it ends or is cut short.                                                *)
THEOREM MidEraseSpares == Spec => MidEraseSparesRecord
<1>0. IInv => ReadsTheMarked
  BY FoundIt DEF IInv, Sound, ReadsTheMarked, Read, Slots
<1>1. IInv /\ ReadsTheMarked' /\ [Next]_vars => [pc = "mid" => Read' = arg]_vars
  <2> SUFFICES ASSUME IInv, ReadsTheMarked', [Next]_vars, pc = "mid"
               PROVE  Read' = arg
    OBVIOUS
  <2> DEFINE k == cur + 1
  <2>1. /\ k \in Slots /\ InFirst[k] = {} /\ k > Straddler
        /\ mark[k] = "valid" /\ body[k] = arg
    BY PastTheMiddle
  <2> HIDE DEF k
  <2>3. mark'[k] = "valid" /\ body'[k] = arg
    <3>1. CASE MidErase
      <4>1. /\ mark'[k] = IF k <= Straddler THEN "blank" ELSE mark[k]
            /\ body'[k] = body[k] \ InFirst[k]
        BY <3>1, <2>1 DEF MidErase, FirstErased
      <4>2. body[k] \ {} = body[k]
        OBVIOUS
      <4> QED
        BY <4>1, <4>2, <2>1, Layout
    <3>2. CASE PowerLoss
      <4>1. TornErase(InFirst, 0 .. Straddler)
        BY <3>2 DEF PowerLoss, TornCommand
      <4> QED
        BY <4>1, <2>1, Torn
    <3>3. CASE UNCHANGED vars
      BY <3>3, <2>1 DEF vars
    <3> QED
      BY <3>1, <3>2, <3>3
         DEF Next, BeginWrite, Wipe, WrapAround, Kill, WriteMark, WriteBody
  <2> QED
    BY <2>1, <2>3 DEF ReadsTheMarked, Slots
<1> QED
  BY <1>0, <1>1, Invariance, PTL DEF Spec, MidEraseSparesRecord
=============================================================================
