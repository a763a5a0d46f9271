--------------------------- MODULE SettingsProofs ---------------------------
(***************************************************************************)
(* Proofs about the bitmap sectors of drivers/flash_wearleveling.c, for    *)
(* every number of slots, every set of records and every pattern of supply *)
(* failures, and about app/settings.c over such a sector.  The layouts of  *)
(* WL_SYSCFG (30 slots), WL_VFOCFG (41), WL_EXTCFG (25) and WL_VFOSEL      *)
(* (254) are instances.                                                    *)
(***************************************************************************)
EXTENDS Settings, WellFoundedInduction, TLAPS

-----------------------------------------------------------------------------
(* The sector. *)

(* What a bitmap_write in progress relies on: the scan it made at its      *)
(* start still holds, and the erased sector is still blank.                *)
WriteInProgress ==
  /\ pc \in {"data", "bit"} => ~Full
  /\ pc = "erase" => Full
  /\ pc = "bit" => arg \subseteq slot[FirstFree + 1]
  /\ pc = "slot0" => used = {} /\ slot = [i \in Slots |-> Erased]

\* Until the supply first fails nothing is left ahead of the record.
CleanBeforeOutage ==
  "outage" \notin harm => ~TornBitmap /\ NoRemnants

IInv == TypeOK /\ WriteInProgress /\ CleanBeforeOutage

-----------------------------------------------------------------------------

\* A set of numbers that is not empty has a smallest element.
LEMMA SmallestExists ==
  ASSUME NEW S \in SUBSET Nat, S # {}
  PROVE  Smallest(S) \in S /\ \A j \in S : Smallest(S) <= j
<1> DEFINE less == {ss \in Nat \X Nat : ss[1] < ss[2]}
<1>1. IsWellFoundedOn(less, Nat)
  BY NatLessThanWellFounded DEF OpToRel
<1>2. PICK x \in S : \A y \in S : <<y, x>> \notin less
  BY <1>1, WFMin
<1>3. \A y \in S : ~(y < x)
  BY <1>2
<1>4. \A y \in S : x <= y
  BY <1>3
<1> QED
  BY <1>4 DEF Smallest

(* bitmap_first_free finds the slot in force: every slot before it is      *)
(* superseded and it is not.                                               *)
LEMMA Scan ==
  ASSUME NEW u \in SUBSET Slots, u # Slots
  PROVE  /\ Smallest(Slots \ u) \in Slots \ u
         /\ \A j \in Slots : j < Smallest(Slots \ u) => j \in u
<1>1. Slots \subseteq Nat
  BY SlotsAssumption DEF Slots
<1>2. Slots \ u \in SUBSET Nat /\ Slots \ u # {}
  BY <1>1
<1>3. /\ Smallest(Slots \ u) \in Slots \ u
      /\ \A j \in Slots \ u : Smallest(Slots \ u) <= j
  BY <1>2, SmallestExists
<1> DEFINE s == Smallest(Slots \ u)
<1> HIDE DEF s
<1>4. ASSUME NEW j \in Slots, j < s, j \notin u
      PROVE  FALSE
  <2>1. s <= j /\ s \in Slots
    BY <1>3, <1>4 DEF s
  <2>2. s \in Int /\ j \in Int
    BY <1>1, <2>1
  <2> QED
    BY <1>4, <2>1, <2>2
<1> QED
  BY <1>3, <1>4 DEF s

InForce ==
  \/ FirstFree = -1 /\ used = Slots /\ Current = MaxSlots - 1
  \/ /\ FirstFree \in Slots \ used /\ Current = FirstFree
     /\ \A j \in Slots : j < FirstFree => j \in used

LEMMA ScanPosition ==
  ASSUME NEW u \in SUBSET Slots
  PROVE  LET f == IF u = Slots THEN -1 ELSE Smallest(Slots \ u)
             c == IF f = -1 THEN MaxSlots - 1 ELSE f
         IN  \/ f = -1 /\ u = Slots /\ c = MaxSlots - 1
             \/ f \in Slots \ u /\ c = f /\ \A j \in Slots : j < f => j \in u
<1>1. -1 \notin Slots
  BY SlotsAssumption DEF Slots
<1>2. CASE u = Slots
  BY <1>2
<1>3. CASE u # Slots
  <2> DEFINE s == Smallest(Slots \ u)
  <2>1. s \in Slots \ u /\ \A j \in Slots : j < s => j \in u
    BY <1>3, Scan
  <2> HIDE DEF s
  <2> QED
    BY <1>1, <1>3, <2>1 DEF s
<1> QED
  BY <1>2, <1>3

LEMMA Position == ASSUME TypeOK PROVE InForce
BY ScanPosition DEF TypeOK, InForce, FirstFree, Current

LEMMA PositionNext == ASSUME TypeOK' PROVE InForce'
BY ScanPosition DEF TypeOK, InForce, FirstFree, Current

LEMMA InitIInv == Init => IInv
<1> SUFFICES ASSUME Init PROVE IInv
  OBVIOUS
<1>1. TypeOK
  BY DEF Init, TypeOK, Erased
<1> QED
  BY <1>1 DEF Init, IInv, WriteInProgress, CleanBeforeOutage, NoRemnants, TornBitmap

-----------------------------------------------------------------------------

LEMMA NextTypeOK ==
  ASSUME IInv, [Next]_vars
  PROVE  TypeOK'
<1> USE DEF IInv
<1>1. ASSUME NEW v \in Records, BeginWrite(v)
      PROVE  TypeOK'
  BY <1>1, RecordsAssumption DEF TypeOK, BeginWrite
<1>2. CASE WriteData
  <2>1. arg \in SUBSET Bits
    BY <1>2, RecordsAssumption DEF WriteData, TypeOK
  <2> QED
    BY <1>2, <2>1 DEF WriteData, TypeOK, Program
<1>3. CASE ClearBit
  <2>1. FirstFree \in Slots
    BY <1>3, Position DEF ClearBit, InForce, WriteInProgress, Full
  <2> QED
    BY <1>3, <2>1 DEF ClearBit, TypeOK, Harm
<1>4. CASE EraseSector
  BY <1>4 DEF EraseSector, TypeOK, Erased
<1>5. CASE WriteSlot0
  <2>1. arg \in SUBSET Bits
    BY <1>5, RecordsAssumption DEF WriteSlot0, TypeOK
  <2> QED
    BY <1>5, <2>1 DEF WriteSlot0, TypeOK, Program
<1>6. CASE PowerLoss
  <2>1. arg \in SUBSET Bits
    BY <1>6, RecordsAssumption DEF PowerLoss, TypeOK
  <2>2. harm' \in SUBSET Harm /\ pc' = "idle" /\ arg' = NoRecord
    BY <1>6 DEF PowerLoss, TypeOK, Harm
  <2>3. slot' \in [Slots -> SUBSET Bits] /\ used' \in SUBSET Slots
    BY <1>6, <2>1, TornAssumption DEF PowerLoss, TypeOK, TornProgram, Program
  <2> QED
    BY <2>2, <2>3 DEF TypeOK
<1>7. CASE UNCHANGED vars
  BY <1>7 DEF vars, TypeOK
<1> QED
  BY <1>1, <1>2, <1>3, <1>4, <1>5, <1>6, <1>7 DEF Next

-----------------------------------------------------------------------------

LEMMA NextWriteInProgress ==
  ASSUME IInv, [Next]_vars
  PROVE  WriteInProgress'
<1> USE DEF IInv
<1>0. InForce /\ Slots \subseteq Int
  BY Position, SlotsAssumption DEF Slots
<1>1. ASSUME NEW v \in Records, BeginWrite(v)
      PROVE  WriteInProgress'
  BY <1>1 DEF BeginWrite, WriteInProgress, Full, FirstFree
<1>2. CASE WriteData
  <2>1. FirstFree + 1 \in Slots
    BY <1>0, <1>2, SlotsAssumption DEF WriteData, WriteInProgress, Full, InForce, Slots
  <2> QED
    BY <1>2, <2>1 DEF WriteData, WriteInProgress, Full, FirstFree, TypeOK, Program
<1>3. CASE ClearBit
  BY <1>3 DEF ClearBit, WriteInProgress
<1>4. CASE EraseSector
  BY <1>4 DEF EraseSector, WriteInProgress
<1>5. CASE WriteSlot0
  BY <1>5 DEF WriteSlot0, WriteInProgress
<1>6. CASE PowerLoss
  BY <1>6 DEF PowerLoss, WriteInProgress
<1>7. CASE UNCHANGED vars
  BY <1>7 DEF vars, WriteInProgress, Full, FirstFree
<1> QED
  BY <1>1, <1>2, <1>3, <1>4, <1>5, <1>6, <1>7 DEF Next

-----------------------------------------------------------------------------

Clean == ~TornBitmap /\ NoRemnants

LEMMA Verdicts ==
  /\ AheadOfCurrent \in {"clean", "remnants", "torn"}
  /\ AheadOfCurrent = "torn" <=> TornBitmap
  /\ AheadOfCurrent = "clean" <=> Clean
BY DEF AheadOfCurrent, Clean

LEMMA VerdictsNext ==
  /\ AheadOfCurrent' \in {"clean", "remnants", "torn"}
  /\ AheadOfCurrent' = "torn" <=> TornBitmap'
  /\ AheadOfCurrent' = "clean" <=> Clean'
BY DEF AheadOfCurrent, Clean

\* What a bitmap_write that found room knows of the slots.
LEMMA Room ==
  ASSUME IInv, pc \in {"data", "bit"}
  PROVE  /\ FirstFree \in 0 .. MaxSlots - 2 /\ Current = FirstFree
         /\ FirstFree \in Slots /\ FirstFree + 1 \in Slots
         /\ FirstFree \notin used
         /\ \A j \in Slots : j < FirstFree => j \in used
         /\ RoomLeft = MaxSlots - 1 - FirstFree /\ RoomLeft \in 1 .. MaxSlots - 1
         /\ arg \in Records
<1>1. InForce /\ ~Full
  BY Position DEF IInv, WriteInProgress
<1>2. FirstFree # -1
  BY <1>1 DEF Full
<1>3. FirstFree \in Slots \ used /\ Current = FirstFree
  BY <1>1, <1>2 DEF InForce
<1>4. FirstFree \in 0 .. MaxSlots - 2
  BY <1>1, <1>2, <1>3, SlotsAssumption DEF Full, Slots
<1>5. FirstFree + 1 \in Slots
  BY <1>4, SlotsAssumption DEF Slots
<1>6. RoomLeft = MaxSlots - 1 - FirstFree
  BY <1>2 DEF RoomLeft
<1>7. RoomLeft \in 1 .. MaxSlots - 1
  BY <1>4, <1>6, SlotsAssumption
<1>8. arg \in Records
  BY DEF IInv, TypeOK
<1> QED
  BY <1>1, <1>2, <1>3, <1>4, <1>5, <1>6, <1>7, <1>8 DEF InForce

\* The record goes to the slot ahead and leaves the one in force alone.
LEMMA WriteDataStep ==
  ASSUME IInv, WriteData
  PROVE  /\ Read' = Read /\ RoomLeft' = RoomLeft /\ harm' = harm
         /\ TornBitmap' = TornBitmap
         /\ Clean => Clean'
<1> USE DEF IInv
<1>1. /\ pc = "data" /\ pc' = "bit" /\ used' = used /\ arg' = arg /\ harm' = harm
      /\ slot' = [slot EXCEPT ![FirstFree + 1] = slot[FirstFree + 1] \cup arg]
      /\ slot \in [Slots -> SUBSET Bits]
  BY DEF WriteData, Program, TypeOK
<1>2. FirstFree' = FirstFree /\ Current' = Current /\ TornBitmap' = TornBitmap
  BY <1>1 DEF FirstFree, Current, TornBitmap
<1>3. RoomLeft' = RoomLeft
  BY <1>1, <1>2 DEF RoomLeft
<1>4. Read' = Read
  BY <1>1, <1>2, Room DEF Read
<1>5. ASSUME Clean PROVE NoRemnants'
  <2>1. slot[FirstFree + 1] = Erased
    BY <1>1, <1>5, Room DEF Clean, NoRemnants
  <2>2. slot'[FirstFree + 1] = arg
    BY <1>1, <2>1, Room DEF Erased
  <2>3. ASSUME NEW i \in Slots, i > Current, i # FirstFree + 1
        PROVE  slot'[i] = Erased
    BY <1>1, <1>5, <2>3, Room DEF Clean, NoRemnants
  <2> QED
    BY <1>1, <1>2, <2>2, <2>3, Room DEF NoRemnants
<1> QED
  BY <1>1, <1>2, <1>3, <1>4, <1>5 DEF Clean

\* Clearing the bit puts the next slot in force, unless a torn erase had
\* cleared that bit as well.
LEMMA ClearBitStep ==
  ASSUME IInv, ClearBit, ~TornBitmap
  PROVE  /\ Read' = slot[FirstFree + 1] /\ RoomLeft' = RoomLeft - 1
         /\ ~TornBitmap'
         /\ Clean => Clean' /\ slot[FirstFree + 1] = arg
<1> USE DEF IInv
<1>1. /\ pc = "bit" /\ pc' = "idle" /\ slot' = slot
      /\ used' = used \cup {FirstFree}
      /\ used \in SUBSET Slots /\ Slots \subseteq Int
  BY SlotsAssumption DEF ClearBit, TypeOK, Slots
<1> DEFINE next == FirstFree + 1
<1>2. next \in Slots /\ next \notin used /\ next # FirstFree /\ next # -1
  BY <1>1, Room DEF TornBitmap
<1> HIDE DEF next
<1>3. next \notin used'
  BY <1>1, <1>2
<1>4. InForce'
  BY PositionNext, NextTypeOK DEF Next
<1>5. \A j \in Slots : j < next => j \in used'
  BY <1>1, Room DEF next
<1>6. FirstFree' = next /\ Current' = next
  <2>1. FirstFree' \in Slots \ used' /\ Current' = FirstFree'
    BY <1>2, <1>3, <1>4 DEF InForce
  <2>2. ~(FirstFree' < next)
    BY <1>5, <2>1
  <2>3. ~(next < FirstFree')
    BY <1>2, <1>3, <1>4, <2>1 DEF InForce
  <2> QED
    BY <1>1, <1>2, <2>1, <2>2, <2>3
<1>7. ~TornBitmap'
  BY <1>1, <1>6, Room DEF TornBitmap, next
<1>8. RoomLeft' = RoomLeft - 1
  BY <1>1, <1>2, <1>6, Room, SlotsAssumption DEF RoomLeft, next
<1>9. ASSUME Clean
      PROVE  Clean' /\ slot[FirstFree + 1] = arg
  <2>1. arg # Erased /\ arg \subseteq slot[next] /\ next > Current
    BY <1>1, Room, RecordsAssumption DEF WriteInProgress, next
  <2>2. slot[next] = arg
    BY <1>1, <1>2, <1>9, <2>1, Room DEF Clean, NoRemnants, Erased, next
  <2>3. ASSUME NEW i \in Slots, i > next
        PROVE  slot[i] = Erased
    BY <1>1, <1>9, <2>3, Room DEF Clean, NoRemnants, next
  <2> QED
    BY <1>1, <1>6, <1>7, <2>2, <2>3 DEF Clean, NoRemnants, next
<1> QED
  BY <1>1, <1>6, <1>7, <1>8, <1>9 DEF Read, next

\* An erased sector is clean and reads as blank from slot 0.
LEMMA ErasedSector ==
  ASSUME NEW u \in SUBSET Slots, u = {}
  PROVE  u # Slots /\ Smallest(Slots \ u) = 0 /\ 0 \in Slots
<1>1. 0 \in Slots /\ Slots \subseteq Nat /\ u # Slots
  BY SlotsAssumption DEF Slots
<1> DEFINE s == Smallest(Slots \ u)
<1>2. s \in Slots /\ \A j \in Slots : j < s => j \in u
  BY <1>1, Scan
<1> HIDE DEF s
<1>3. s \in Nat /\ ~(0 < s)
  BY <1>1, <1>2
<1>4. s = 0
  BY <1>3
<1> QED
  BY <1>1, <1>4 DEF s

\* A full sector has no room left, whether its last bit is cleared or not.
LEMMA FullHasNoRoom ==
  ASSUME TypeOK, Full, pc # "slot0"
  PROVE  RoomLeft = 0
<1>1. FirstFree = -1 \/ FirstFree = MaxSlots - 1
  BY Position, SlotsAssumption DEF Full, InForce, Slots
<1> QED
  BY <1>1, SlotsAssumption DEF RoomLeft

LEMMA EraseStep ==
  ASSUME IInv, EraseSector
  PROVE  RoomLeft = 0 /\ RoomLeft' = MaxSlots /\ Read' = Erased /\ Clean'
<1> USE DEF IInv
<1>1. /\ pc = "erase" /\ pc' = "slot0" /\ used' = {}
      /\ slot' = [i \in Slots |-> Erased]
  BY DEF EraseSector
<1>2. FirstFree' = 0 /\ Current' = 0 /\ 0 \in Slots
  BY <1>1, ErasedSector DEF FirstFree, Current
<1>3. Read' = Erased /\ Clean'
  BY <1>1, <1>2 DEF Read, Clean, TornBitmap, NoRemnants
<1>4. RoomLeft = 0
  BY <1>1, FullHasNoRoom DEF WriteInProgress
<1> QED
  BY <1>1, <1>3, <1>4 DEF RoomLeft

LEMMA Slot0 ==
  ASSUME IInv, pc = "slot0"
  PROVE  /\ used = {} /\ FirstFree = 0 /\ Current = 0 /\ 0 \in Slots
         /\ slot = [i \in Slots |-> Erased]
         /\ RoomLeft = MaxSlots /\ arg \in Records /\ Clean
<1>1. used = {} /\ slot = [i \in Slots |-> Erased]
  BY DEF IInv, WriteInProgress
<1>2. FirstFree = 0 /\ Current = 0 /\ 0 \in Slots
  BY <1>1, ErasedSector DEF FirstFree, Current
<1> QED
  BY <1>1, <1>2 DEF RoomLeft, Clean, TornBitmap, NoRemnants, IInv, TypeOK

LEMMA WriteSlot0Step ==
  ASSUME IInv, WriteSlot0
  PROVE  Read' = arg /\ RoomLeft' = MaxSlots - 1 /\ Clean'
<1>1. /\ pc = "slot0" /\ pc' = "idle" /\ used' = used
      /\ slot' = [slot EXCEPT ![0] = slot[0] \cup arg]
  BY DEF WriteSlot0, Program
<1>2. FirstFree' = 0 /\ Current' = 0
  BY <1>1, Slot0 DEF FirstFree, Current
<1>3. Read' = arg
  BY <1>1, <1>2, Slot0 DEF Read, Erased
<1>4. Clean'
  BY <1>1, <1>2, Slot0, SlotsAssumption DEF Clean, TornBitmap, NoRemnants, Slots
<1>5. RoomLeft' = MaxSlots - 1
  BY <1>1, <1>2, SlotsAssumption DEF RoomLeft
<1> QED
  BY <1>3, <1>4, <1>5

\* Whatever an outage leaves behind, a sector at rest reads as something and
\* has room for at most MaxSlots - 1 writes.
LEMMA AtRest ==
  ASSUME TypeOK', pc' # "slot0"
  PROVE  Read' \in SUBSET Bits /\ RoomLeft' \in 0 .. MaxSlots - 1
<1>1. InForce'
  BY PositionNext
<1>2. Current' \in Slots
  BY <1>1, SlotsAssumption DEF InForce, Slots
<1>3. Read' \in SUBSET Bits
  BY <1>2 DEF Read, TypeOK
<1>4. RoomLeft' \in 0 .. MaxSlots - 1
  <2>1. CASE FirstFree' = -1
    BY <2>1, SlotsAssumption DEF RoomLeft
  <2>2. CASE FirstFree' # -1
    <3>1. FirstFree' \in 0 .. MaxSlots - 1
      BY <1>1, <2>2 DEF InForce, Slots
    <3>2. RoomLeft' = MaxSlots - 1 - FirstFree'
      BY <2>2 DEF RoomLeft
    <3>3. \A f \in 0 .. MaxSlots - 1 : MaxSlots - 1 - f \in 0 .. MaxSlots - 1
      BY SlotsAssumption
    <3> QED
      BY <3>1, <3>2, <3>3
  <2> QED
    BY <2>1, <2>2
<1> QED
  BY <1>3, <1>4

\* Clearing a bit uses up room, more than one slot of it in a torn bitmap.
LEMMA ClearBitGainsNothing ==
  ASSUME IInv, ClearBit
  PROVE  RoomLeft' \in 0 .. RoomLeft - 1
<1>1. pc = "bit" /\ pc' = "idle" /\ used' = used \cup {FirstFree}
  BY DEF ClearBit
<1> DEFINE f == FirstFree
<1>2. /\ f \in 0 .. MaxSlots - 2 /\ RoomLeft = MaxSlots - 1 - f
      /\ \A j \in Slots : j <= f => j \in used'
  <2>1. Slots \subseteq Int /\ f \in 0 .. MaxSlots - 2
    BY <1>1, Room, SlotsAssumption DEF Slots
  <2>2. \A j \in Slots : j <= f => j < f \/ j = f
    BY <2>1
  <2> QED
    BY <1>1, <2>1, <2>2, Room
<1> HIDE DEF f
<1>3. InForce' /\ (FirstFree' = -1 => RoomLeft' = 0)
      /\ (FirstFree' # -1 => RoomLeft' = MaxSlots - 1 - FirstFree')
  BY <1>1, PositionNext, NextTypeOK DEF Next, RoomLeft
<1>4. CASE FirstFree' = -1
  BY <1>2, <1>3, <1>4, SlotsAssumption
<1>5. CASE FirstFree' # -1
  <2>1. FirstFree' \in 0 .. MaxSlots - 1 /\ ~(FirstFree' <= f)
    BY <1>2, <1>3, <1>5 DEF InForce, Slots
  <2>2. \A g \in 0 .. MaxSlots - 1 :
          ~(g <= f) => MaxSlots - 1 - g \in 0 .. (MaxSlots - 1 - f) - 1
    BY <1>2, SlotsAssumption
  <2> QED
    BY <1>2, <1>3, <1>5, <2>1, <2>2
<1> QED
  BY <1>4, <1>5

LEMMA NextCleanBeforeOutage ==
  ASSUME IInv, [Next]_vars
  PROVE  CleanBeforeOutage'
<1>1. CASE "outage" \in harm'
  BY <1>1 DEF CleanBeforeOutage
<1>2. CASE "outage" \notin harm'
  <2>1. ~PowerLoss
    BY <1>2 DEF PowerLoss
  <2>2. "outage" \notin harm
    BY <1>2, <2>1
       DEF Next, vars, BeginWrite, WriteData, ClearBit, EraseSector, WriteSlot0
  <2>3. Clean
    BY <2>2 DEF IInv, CleanBeforeOutage, Clean
  <2>4. ASSUME NEW v \in Records, BeginWrite(v)
        PROVE  Clean'
    BY <2>3, <2>4
       DEF BeginWrite, Clean, TornBitmap, NoRemnants, Current, FirstFree
  <2>5. ASSUME UNCHANGED vars PROVE Clean'
    BY <2>3, <2>5 DEF vars, Clean, TornBitmap, NoRemnants, Current, FirstFree
  <2>6. ASSUME ClearBit PROVE Clean'
    BY <2>3, <2>6, ClearBitStep DEF Clean
  <2>7. Clean'
    BY <2>1, <2>3, <2>4, <2>5, <2>6, WriteDataStep, EraseStep, WriteSlot0Step
       DEF Next
  <2> QED
    BY <2>7 DEF CleanBeforeOutage, Clean
<1> QED
  BY <1>1, <1>2

LEMMA Invariance == Spec => []IInv
<1>1. IInv /\ [Next]_vars => IInv'
  BY NextTypeOK, NextWriteInProgress, NextCleanBeforeOutage DEF IInv
<1> QED
  BY InitIInv, <1>1, PTL DEF Spec

(* Every variable of a bitmap sector keeps its type, supply failures       *)
(* included: bitmap_write never programs outside the slots of the sector.  *)
THEOREM TypeCorrect == Spec => []TypeOK
BY Invariance, PTL DEF IInv

-----------------------------------------------------------------------------

Outage == "outage" \in harm

LEMMA StepImplementsStore ==
  ASSUME IInv, IInv', [Next]_vars
  PROVE  [Store!Next]_(Store!vars)
<1> USE DEF IInv, Store!vars
<1>1. ASSUME NEW v \in Records, BeginWrite(v)
      PROVE  UNCHANGED Store!vars
  BY <1>1
     DEF BeginWrite, Read, Current, FirstFree, RoomLeft, AheadOfCurrent,
         TornBitmap, NoRemnants
<1>2. ASSUME WriteData
      PROVE  Store!Interrupted \/ UNCHANGED Store!vars
  <2>1. UNCHANGED <<Read, RoomLeft, harm>> /\ TornBitmap' = TornBitmap
        /\ (Clean => Clean')
    BY <1>2, WriteDataStep
  <2>2. CASE AheadOfCurrent' = AheadOfCurrent
    BY <2>1, <2>2
  <2>3. CASE AheadOfCurrent' # AheadOfCurrent
    <3>1. AheadOfCurrent = "remnants" /\ AheadOfCurrent' = "clean"
      BY <2>1, <2>3, Verdicts, VerdictsNext
    <3>2. "outage" \in harm'
      BY <2>1, <3>1, Verdicts DEF CleanBeforeOutage, Clean
    <3> QED
      BY <2>1, <3>1, <3>2 DEF Store!Interrupted
  <2> QED
    BY <2>2, <2>3
<1>3. ASSUME ClearBit
      PROVE  \/ \E v \in Records : Store!Write(v) \/ Store!WriteOverRemnants(v)
             \/ Store!WriteIntoTorn
  <2>1. pc = "bit" /\ pc' = "idle" /\ Outage' = Outage
    BY <1>3 DEF ClearBit, Outage
  <2>2. RoomLeft \in 1 .. MaxSlots - 1 /\ arg \in Records
    BY <2>1, Room
  <2>3. Read' \in SUBSET Bits
    BY <2>1, AtRest
  <2>4. CASE Clean
    <3>1. Read' = arg /\ RoomLeft' = RoomLeft - 1 /\ Clean'
      BY <1>3, <2>4, ClearBitStep DEF Clean
    <3>2. AheadOfCurrent = "clean" /\ AheadOfCurrent' = "clean"
      BY <2>4, <3>1, Verdicts, VerdictsNext
    <3>3. Store!Write(arg)
      BY <2>1, <2>2, <3>1, <3>2 DEF Store!Write, Outage
    <3> QED
      BY <2>2, <3>3
  <2>5. CASE ~Clean /\ ~TornBitmap
    <3>1. Read' = slot[FirstFree + 1] /\ RoomLeft' = RoomLeft - 1 /\ ~TornBitmap'
      BY <1>3, <2>5, ClearBitStep
    <3>2. arg \subseteq Read'
      BY <2>1, <3>1 DEF WriteInProgress
    <3>3. AheadOfCurrent = "remnants" /\ AheadOfCurrent' \in {"clean", "remnants"}
      BY <2>5, <3>1, Verdicts, VerdictsNext
    <3>4. Store!WriteOverRemnants(arg)
      BY <2>1, <2>2, <2>3, <3>1, <3>2, <3>3 DEF Store!WriteOverRemnants, Outage
    <3> QED
      BY <2>2, <3>4
  <2>6. CASE TornBitmap
    <3>1. AheadOfCurrent = "torn" /\ AheadOfCurrent' \in Store!Ahead
      BY <2>6, Verdicts, VerdictsNext DEF Store!Ahead
    <3>2. RoomLeft' \in 0 .. RoomLeft - 1
      BY <1>3, ClearBitGainsNothing
    <3> QED
      BY <2>1, <2>2, <2>3, <3>1, <3>2 DEF Store!WriteIntoTorn, Outage
  <2> QED
    BY <2>4, <2>5, <2>6
<1>4. ASSUME EraseSector
      PROVE  Store!Erase
  <2>1. RoomLeft = 0 /\ RoomLeft' = MaxSlots /\ Read' = Erased /\ Clean'
    BY <1>4, EraseStep
  <2>2. AheadOfCurrent' = "clean"
    BY <2>1, VerdictsNext
  <2>3. Outage' = Outage
    BY <1>4 DEF EraseSector, Outage
  <2> QED
    BY <2>1, <2>2, <2>3 DEF Store!Erase, Outage, Store!Erased, Erased
<1>5. ASSUME WriteSlot0
      PROVE  \E v \in Records : Store!Renew(v)
  <2>1. Read' = arg /\ RoomLeft' = MaxSlots - 1 /\ Clean'
    BY <1>5, WriteSlot0Step
  <2>2. RoomLeft = MaxSlots /\ arg \in Records /\ Clean
    BY <1>5, Slot0 DEF WriteSlot0
  <2>3. AheadOfCurrent = "clean" /\ AheadOfCurrent' = "clean"
    BY <2>1, <2>2, Verdicts, VerdictsNext
  <2>4. Outage' = Outage
    BY <1>5 DEF WriteSlot0, Outage
  <2>5. Store!Renew(arg)
    BY <2>1, <2>2, <2>3, <2>4 DEF Store!Renew, Outage
  <2> QED
    BY <2>2, <2>5
<1>6. ASSUME PowerLoss
      PROVE  Store!Interrupted \/ Store!RenewalInterrupted
  <2>1. Outage' /\ pc' = "idle"
    BY <1>6 DEF PowerLoss, Outage
  <2>2. CASE pc \in {"data", "bit"}
    <3>1. /\ used' = used /\ slot' \in [Slots -> SUBSET Bits]
          /\ \A i \in Slots : i # FirstFree + 1 => slot'[i] = slot[i]
      BY <1>6, <2>2, Room DEF PowerLoss, TypeOK
    <3>2. FirstFree' = FirstFree /\ Current' = Current /\ TornBitmap' = TornBitmap
      BY <3>1 DEF FirstFree, Current, TornBitmap
    <3>3. Read' = Read
      BY <2>2, <3>1, <3>2, Room DEF Read
    <3>4. RoomLeft' = RoomLeft
      BY <2>1, <2>2, <3>2 DEF RoomLeft
    <3>5. AheadOfCurrent' \in
            IF AheadOfCurrent = "torn" THEN {"torn"} ELSE {"clean", "remnants"}
      BY <3>2, Verdicts, VerdictsNext
    <3> QED
      BY <2>1, <3>3, <3>4, <3>5 DEF Store!Interrupted, Outage
  <2>3. CASE pc \in {"erase", "slot0"}
    <3>1. RoomLeft \in {0, MaxSlots}
      BY <2>3, Slot0, FullHasNoRoom DEF WriteInProgress
    <3>2. Read' \in SUBSET Bits /\ RoomLeft' \in 0 .. MaxSlots - 1
      BY <2>1, AtRest
    <3>3. AheadOfCurrent' \in Store!Ahead
      BY VerdictsNext DEF Store!Ahead
    <3> QED
      BY <2>1, <3>1, <3>2, <3>3 DEF Store!RenewalInterrupted, Outage
  <2> QED
    BY <1>6, <2>2, <2>3 DEF PowerLoss, TypeOK
<1>7. ASSUME UNCHANGED vars
      PROVE  UNCHANGED Store!vars
  BY <1>7
     DEF vars, Read, Current, FirstFree, RoomLeft, AheadOfCurrent, TornBitmap,
         NoRemnants
<1> QED
  BY <1>1, <1>2, <1>3, <1>4, <1>5, <1>6, <1>7 DEF Next, Store!Next

(* wl_read and wl_write on a bitmap sector implement the register of       *)
(* RecordStore, for every layout and every pattern of supply failures:     *)
(* until the supply first fails each completed write is what is read, a    *)
(* failure outside a renewal costs the write in progress only, and what a  *)
(* renewal or remnants of a torn write can cost is what the register says. *)
THEOREM Implements == Spec => ImplementsStore
<1>1. Init => Store!Init
  <2>1. ASSUME Init
        PROVE  /\ Read = Erased /\ RoomLeft = MaxSlots - 1
               /\ AheadOfCurrent = "clean" /\ ~Outage
    <3>1. FirstFree = 0 /\ Current = 0 /\ 0 \in Slots
      BY <2>1, ErasedSector DEF Init, FirstFree, Current
    <3> QED
      BY <2>1, <3>1, SlotsAssumption
         DEF Init, Read, RoomLeft, AheadOfCurrent, TornBitmap, NoRemnants, Outage
  <2> QED
    BY <2>1 DEF Store!Init, Outage, Store!Erased, Erased
<1>2. IInv /\ IInv' /\ [Next]_vars => [Store!Next]_(Store!vars)
  BY StepImplementsStore
<1> QED
  BY <1>1, <1>2, Invariance, PTL DEF Spec, ImplementsStore, Store!Spec

-----------------------------------------------------------------------------
(* The settings. *)

\* What settings_init would come up with now.
BootRecord == IF LooksErased(Read) THEN Defaults ELSE Read

(* The strengthening of RamMatchesFlash and RebootRestores.  A save in     *)
(* progress writes the RAM copy; a bitmap is torn by a renewal only; and   *)
(* what a boot would come up with is what was last saved until the moment  *)
(* a renewal has erased the sector.                                        *)
SaveInProgress ==
  /\ power = "off" => pc = "idle"
  /\ pc # "idle" => ram = arg

TornByRenewal == TornBitmap => "renewal" \in harm

BootsAsExpected ==
  harm \subseteq {"outage"} /\ pc # "slot0" => expected = BootRecord

SettingsIInv ==
  /\ IInv
  /\ ram \in SUBSET Bits /\ power \in {"on", "off"} /\ expected \in SUBSET Bits
  /\ SaveInProgress
  /\ TornByRenewal
  /\ BootsAsExpected
  /\ RamMatchesFlash

-----------------------------------------------------------------------------

LEMMA InitSettings == SettingsInit => SettingsIInv
<1> SUFFICES ASSUME SettingsInit PROVE SettingsIInv
  OBVIOUS
<1>1. IInv
  BY InitIInv DEF SettingsInit
<1>2. /\ ram = {} /\ power = "off" /\ expected = Defaults /\ pc = "idle" /\ used = {}
      /\ slot = [i \in Slots |-> Erased]
  BY DEF SettingsInit, Init
<1>3. Defaults \in SUBSET Bits
  BY DefaultsAssumption, RecordsAssumption
<1>4. Read = {}
  BY <1>2, ErasedSector DEF Read, Current, FirstFree, Erased
<1>5. ~TornBitmap
  BY <1>2 DEF TornBitmap
<1> QED
  BY <1>1, <1>2, <1>3, <1>4, <1>5
     DEF SettingsIInv, SaveInProgress, TornByRenewal, BootsAsExpected,
         RamMatchesFlash, BootRecord, LooksErased

LEMMA SettingsStep ==
  ASSUME [SettingsNext]_allVars
  PROVE  [Next]_vars
BY DEF SettingsNext, allVars, SettingsBoot, Save, SaveStep, SettingsOutage, Next

\* A step that leaves the sector alone leaves what is read from it alone.
LEMMA SectorUnchanged ==
  ASSUME UNCHANGED vars
  PROVE  Read' = Read /\ TornBitmap' = TornBitmap /\ harm' = harm /\ pc' = pc /\ arg' = arg
BY DEF vars, Read, Current, FirstFree, TornBitmap

LEMMA TornByRenewalStep ==
  ASSUME IInv, TornByRenewal, [Next]_vars
  PROVE  TornByRenewal'
<1>1. ASSUME NEW v \in Records, BeginWrite(v)
      PROVE  TornByRenewal'
  BY <1>1 DEF BeginWrite, TornByRenewal, TornBitmap, Current, FirstFree
<1>2. CASE WriteData
  BY <1>2, WriteDataStep DEF TornByRenewal
<1>3. CASE ClearBit
  <2>1. harm \subseteq harm'
    BY <1>3 DEF ClearBit
  <2>2. CASE TornBitmap
    BY <2>1, <2>2 DEF TornByRenewal
  <2>3. CASE ~TornBitmap
    BY <1>3, <2>3, ClearBitStep DEF TornByRenewal
  <2> QED
    BY <2>2, <2>3
<1>4. CASE EraseSector
  BY <1>4, EraseStep DEF TornByRenewal, Clean
<1>5. CASE WriteSlot0
  BY <1>5, WriteSlot0Step DEF TornByRenewal, Clean
<1>6. CASE PowerLoss
  <2>1. harm \subseteq harm'
    BY <1>6 DEF PowerLoss
  <2>2. CASE pc \in {"erase", "slot0"}
    BY <1>6, <2>2 DEF PowerLoss, TornByRenewal
  <2>3. CASE pc \in {"data", "bit"}
    <3>1. used' = used
      BY <1>6, <2>3 DEF PowerLoss
    <3> QED
      BY <2>1, <3>1 DEF TornByRenewal, TornBitmap, Current, FirstFree
  <2> QED
    BY <1>6, <2>2, <2>3 DEF PowerLoss, IInv, TypeOK
<1>7. CASE UNCHANGED vars
  BY <1>7, SectorUnchanged DEF TornByRenewal
<1> QED
  BY <1>1, <1>2, <1>3, <1>4, <1>5, <1>6, <1>7 DEF Next

\* A save that completes puts the RAM copy in force, unless remnants of an
\* earlier one got mixed in or an earlier renewal was cut short.
LEMMA CompletedSave ==
  ASSUME SettingsIInv, ClearBit \/ WriteSlot0, harm' \subseteq {"outage"}
  PROVE  Read' = ram /\ pc' = "idle" /\ ram \in Records
<1>1. pc # "idle" /\ pc' = "idle" /\ ram = arg /\ arg \in Records
  BY RecordsAssumption
     DEF SettingsIInv, SaveInProgress, ClearBit, WriteSlot0, IInv, TypeOK
<1>2. CASE WriteSlot0
  BY <1>1, <1>2, WriteSlot0Step DEF SettingsIInv
<1>3. CASE ClearBit
  <2>1. slot[FirstFree + 1] = arg /\ harm' = harm
    BY <1>3 DEF ClearBit
  <2>2. ~TornBitmap
    BY <2>1 DEF SettingsIInv, TornByRenewal
  <2> QED
    BY <1>1, <1>3, <2>1, <2>2, ClearBitStep DEF SettingsIInv
<1> QED
  BY <1>2, <1>3

LEMMA NextSettings ==
  ASSUME SettingsIInv, [SettingsNext]_allVars
  PROVE  SettingsIInv'
<1> USE DEF SettingsIInv
<1>1. [Next]_vars
  BY SettingsStep
<1>2. IInv' /\ TornByRenewal'
  BY <1>1, NextTypeOK, NextWriteInProgress, NextCleanBeforeOutage,
     TornByRenewalStep DEF IInv
<1>3. Read \in SUBSET Bits /\ Defaults \in SUBSET Bits /\ Records \subseteq SUBSET Bits
  <2>1. Current \in Slots
    BY Position, SlotsAssumption DEF IInv, InForce, Slots
  <2> QED
    BY <2>1, DefaultsAssumption, RecordsAssumption DEF IInv, TypeOK, Read
<1>4. ASSUME SettingsBoot
      PROVE  SettingsIInv'
  <2>1. UNCHANGED vars /\ power' = "on" /\ power = "off" /\ ram' = BootRecord /\ expected' = ram'
    BY <1>4 DEF SettingsBoot, BootRecord
  <2>2. BootRecord' = BootRecord /\ Read' = Read /\ pc' = "idle"
    BY <2>1, SectorUnchanged DEF BootRecord, LooksErased, SaveInProgress
  <2> QED
    BY <1>2, <1>3, <2>1, <2>2
       DEF SaveInProgress, BootsAsExpected, RamMatchesFlash, BootRecord, LooksErased
<1>5. ASSUME NEW v \in Records, Save(v)
      PROVE  SettingsIInv'
  <2>1. /\ power = "on" /\ pc = "idle" /\ pc' \in {"data", "erase"} /\ harm' = harm
        /\ arg' = v /\ ram' = v /\ UNCHANGED <<power, expected>>
    BY <1>5 DEF Save, BeginWrite
  <2>2. Read' = Read
    BY <1>5 DEF Save, BeginWrite, Read, Current, FirstFree
  <2> QED
    BY <1>2, <1>3, <2>1, <2>2
       DEF SaveInProgress, BootsAsExpected, RamMatchesFlash, BootRecord, LooksErased
<1>6. ASSUME SaveStep
      PROVE  SettingsIInv'
  <2>1. /\ UNCHANGED <<ram, power>>
        /\ expected' = IF pc' = "idle" THEN ram ELSE expected
    BY <1>6 DEF SaveStep
  <2>2. SaveInProgress'
    BY <1>6, <2>1 DEF SaveStep, WriteData, ClearBit, EraseSector, WriteSlot0, SaveInProgress
  <2>3. ASSUME WriteData \/ EraseSector
        PROVE  RamMatchesFlash' /\ BootsAsExpected'
    <3>1. pc' # "idle" /\ expected' = expected
      BY <2>1, <2>3 DEF WriteData, EraseSector
    <3>2. RamMatchesFlash'
      BY <3>1 DEF RamMatchesFlash
    <3>3. ASSUME WriteData PROVE BootsAsExpected'
      BY <3>1, <3>3, WriteDataStep DEF BootsAsExpected, BootRecord, LooksErased, WriteData
    <3>4. ASSUME EraseSector PROVE BootsAsExpected'
      BY <3>4 DEF EraseSector, BootsAsExpected
    <3> QED
      BY <2>3, <3>2, <3>3, <3>4
  <2>4. ASSUME ClearBit \/ WriteSlot0
        PROVE  RamMatchesFlash' /\ BootsAsExpected'
    <3>1. CASE harm' \subseteq {"outage"}
      <4>1. Read' = ram /\ pc' = "idle" /\ ram \in Records
        BY <2>4, <3>1, CompletedSave
      <4>2. ~LooksErased(ram)
        BY <4>1, CheckedAssumption DEF LooksErased
      <4> QED
        BY <2>1, <4>1, <4>2
           DEF RamMatchesFlash, BootsAsExpected, BootRecord, LooksErased
    <3>2. CASE ~(harm' \subseteq {"outage"})
      BY <3>2 DEF RamMatchesFlash, BootsAsExpected
    <3> QED
      BY <3>1, <3>2
  <2>5. RamMatchesFlash' /\ BootsAsExpected'
    BY <1>6, <2>3, <2>4 DEF SaveStep
  <2>6. expected' \in SUBSET Bits
    BY <2>1
  <2> QED
    BY <1>2, <2>1, <2>2, <2>5, <2>6
<1>7. ASSUME SettingsOutage
      PROVE  SettingsIInv'
  <2>1. power' = "off" /\ power = "on" /\ ram' = {} /\ expected' = expected
    BY <1>7 DEF SettingsOutage
  <2>2. CASE pc = "idle"
    <3>1. UNCHANGED vars
      BY <1>7, <2>2 DEF SettingsOutage
    <3>2. Read' = Read /\ harm' = harm /\ pc' = pc
      BY <3>1, SectorUnchanged
    <3> QED
      BY <1>2, <2>1, <2>2, <3>2
         DEF SaveInProgress, RamMatchesFlash, BootsAsExpected, BootRecord, LooksErased
  <2>3. CASE pc # "idle"
    <3>1. PowerLoss
      BY <1>7, <2>3 DEF SettingsOutage
    <3>2. pc' = "idle" /\ harm \subseteq harm'
      BY <3>1 DEF PowerLoss
    <3>3. BootsAsExpected'
      <4>1. CASE pc \in {"erase", "slot0"}
        BY <3>1, <4>1 DEF PowerLoss, BootsAsExpected
      <4>2. CASE pc \in {"data", "bit"}
        <5>1. /\ used' = used
              /\ \A i \in Slots : i # FirstFree + 1 => slot'[i] = slot[i]
          BY <3>1, <4>2, Room DEF PowerLoss, IInv, TypeOK
        <5>2. Current' = Current
          BY <5>1 DEF Current, FirstFree
        <5>3. Read' = Read
          BY <4>2, <5>1, <5>2, Room DEF Read
        <5> QED
          BY <2>1, <3>2, <4>2, <5>3 DEF BootsAsExpected, BootRecord, LooksErased
      <4> QED
        BY <2>3, <4>1, <4>2 DEF IInv, TypeOK
    <3> QED
      BY <1>2, <2>1, <3>2, <3>3 DEF SaveInProgress, RamMatchesFlash
  <2> QED
    BY <2>2, <2>3
<1>8. ASSUME UNCHANGED allVars
      PROVE  SettingsIInv'
  <2>1. UNCHANGED vars /\ UNCHANGED <<ram, power, expected>>
    BY <1>8 DEF allVars, settingsVars
  <2> QED
    BY <1>2, <2>1, SectorUnchanged
       DEF SaveInProgress, RamMatchesFlash, BootsAsExpected, BootRecord, LooksErased
<1> QED
  BY <1>4, <1>5, <1>6, <1>7, <1>8 DEF SettingsNext

LEMMA SettingsInvariance == SettingsSpec => []SettingsIInv
BY InitSettings, NextSettings, PTL DEF SettingsSpec

(* Every variable keeps its type, and no save programs past the last slot  *)
(* of the sector.                                                          *)
THEOREM SettingsTypeCorrect == SettingsSpec => []SettingsTypeOK
<1>1. ASSUME SettingsIInv PROVE SettingsTypeOK
  <2>1. pc \in {"data", "bit"} => FirstFree + 1 \in Slots
    BY <1>1, Room DEF SettingsIInv
  <2> QED
    BY <1>1, <2>1 DEF SettingsIInv, IInv, SettingsTypeOK
<1> QED
  BY <1>1, SettingsInvariance, PTL

(* Between saves the flash holds what the getters answer, or looks blank   *)
(* under the defaults, in every radio whose sector was never interrupted   *)
(* in a renewal and never mixed two records.                               *)
THEOREM SettingsInRamMatchFlash == SettingsSpec => []RamMatchesFlash
BY SettingsInvariance, PTL DEF SettingsIInv

(* Under the same condition every boot comes up with the settings last     *)
(* saved: an outage in the middle of a save costs that save at most.       *)
THEOREM SettingsSurviveOutage == SettingsSpec => RebootRestores
<1>1. SettingsIInv /\ [SettingsNext]_allVars
        => [SettingsBoot /\ harm \subseteq {"outage"} => ram' = expected]_allVars
  BY DEF SettingsBoot, SettingsIInv, SaveInProgress, BootsAsExpected, BootRecord
<1> QED
  BY <1>1, SettingsInvariance, PTL DEF SettingsSpec, RebootRestores
=============================================================================
