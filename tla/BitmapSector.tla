---------------------------- MODULE BitmapSector ----------------------------
(***************************************************************************)
(* One bitmap-based wear-levelled sector (SYSCFG, VFOCFG, EXTCFG, VFOSEL)  *)
(* of drivers/flash_wearleveling.c, one flash command per step, with the   *)
(* supply failing between or inside the commands.                          *)
(*                                                                         *)
(* Slot i is superseded when bit i of the bitmap is programmed: the record *)
(* in force is that of the first slot whose bit still reads 1.             *)
(***************************************************************************)
EXTENDS Integers, NorFlash

CONSTANTS
  MaxSlots,   \* sec->max_slots
  Bits,       \* the bits of a record that the properties tell apart
  Records,    \* the records callers write
  TornSlots,  \* what an erase that is cut short may leave in a slot
  NoRecord    \* no write is in progress

ASSUME SlotsAssumption == MaxSlots \in Nat \ {0}
ASSUME RecordsAssumption ==
  /\ Records \subseteq (SUBSET Bits) \ {Erased}
  /\ NoRecord \notin Records
ASSUME TornAssumption == TornSlots \subseteq SUBSET Bits

VARIABLES
  used,       \* the bits of the bitmap that are programmed
  slot,       \* the content of each slot
  pc,         \* the next flash command of bitmap_write
  arg,        \* the record it is writing
  harm        \* history: what has ever gone wrong

vars == <<used, slot, pc, arg, harm>>

Slots == 0 .. MaxSlots - 1

\* The supply failed; it failed during a renewal; a record was put in force
\* in a slot that held remnants of another.
Harm == {"outage", "renewal", "mixed"}

TypeOK ==
  /\ used \in SUBSET Slots
  /\ slot \in [Slots -> SUBSET Bits]
  /\ pc \in {"idle", "data", "bit", "erase", "slot0"}
  /\ arg \in Records \cup {NoRecord}
  /\ pc = "idle" <=> arg = NoRecord
  /\ harm \in SUBSET Harm

Init ==
  /\ used = {}
  /\ slot = [i \in Slots |-> Erased]
  /\ pc = "idle"
  /\ arg = NoRecord
  /\ harm = {}

-----------------------------------------------------------------------------

Smallest(S) == CHOOSE i \in S : \A j \in S : i <= j

\* bitmap_first_free: the first slot whose bit still reads 1, -1 if none.
FirstFree == IF used = Slots THEN -1 ELSE Smallest(Slots \ used)

\* The slot bitmap_read takes the record from.
Current == IF FirstFree = -1 THEN MaxSlots - 1 ELSE FirstFree

\* bitmap_read: whatever the current slot holds; it never fails.
Read == slot[Current]

\* Mutants of Full: a write goes past the last slot; the last one is wasted.
FullTooLate == FirstFree = -1 \/ FirstFree >= MaxSlots
FullTooEarly == FirstFree = -1 \/ FirstFree >= MaxSlots - 2

Full == FirstFree = -1 \/ FirstFree >= MaxSlots - 1

-----------------------------------------------------------------------------

\* bitmap_write: scan the bitmap and choose between the two command
\* sequences.
BeginWrite(v) ==
  /\ pc = "idle"
  /\ pc' = IF Full THEN "erase" ELSE "data"
  /\ arg' = v
  /\ UNCHANGED <<used, slot, harm>>

\* Mutant of WriteData: the record in force is programmed over.
WriteDataInPlace ==
  /\ pc = "data"
  /\ slot' = [slot EXCEPT ![FirstFree] = Program(@, arg)]
  /\ pc' = "bit"
  /\ UNCHANGED <<used, arg, harm>>

\* Room left: program the record into the slot after the current one ...
WriteData ==
  /\ pc = "data"
  /\ slot' = [slot EXCEPT ![FirstFree + 1] = Program(@, arg)]
  /\ pc' = "bit"
  /\ UNCHANGED <<used, arg, harm>>

\* Mutant of ClearBit: the bit of the new slot is cleared.
ClearNewBit ==
  /\ pc = "bit"
  /\ used' = used \cup {FirstFree + 1}
  /\ pc' = "idle"
  /\ arg' = NoRecord
  /\ harm' = IF slot[FirstFree + 1] = arg THEN harm ELSE harm \cup {"mixed"}
  /\ UNCHANGED slot

\* ... and clear the bit of the current one.
ClearBit ==
  /\ pc = "bit"
  /\ used' = used \cup {FirstFree}
  /\ pc' = "idle"
  /\ arg' = NoRecord
  /\ harm' = IF slot[FirstFree + 1] = arg THEN harm ELSE harm \cup {"mixed"}
  /\ UNCHANGED slot

\* Full: erase the sector, bitmap and records alike ...
EraseSector ==
  /\ pc = "erase"
  /\ used' = {}
  /\ slot' = [i \in Slots |-> Erased]
  /\ pc' = "slot0"
  /\ UNCHANGED <<arg, harm>>

\* ... and program the record into slot 0.
WriteSlot0 ==
  /\ pc = "slot0"
  /\ slot' = [slot EXCEPT ![0] = Program(@, arg)]
  /\ pc' = "idle"
  /\ arg' = NoRecord
  /\ UNCHANGED <<used, harm>>

\* The supply fails inside the pending command, or before it: what the
\* command had to do is done in part, and what follows it is not done.  A
\* torn erase may leave any bitmap.
PowerLoss ==
  /\ pc # "idle"
  /\ \/ /\ pc = "data"
        /\ \E c \in TornProgram(slot[FirstFree + 1], arg) :
              slot' = [slot EXCEPT ![FirstFree + 1] = c]
        /\ UNCHANGED used
     \/ /\ pc = "bit"
        /\ UNCHANGED <<slot, used>>
     \/ /\ pc = "erase"
        /\ slot' \in [Slots -> TornSlots]
        /\ used' \in SUBSET Slots
     \/ /\ pc = "slot0"
        /\ \E c \in TornProgram(slot[0], arg) : slot' = [slot EXCEPT ![0] = c]
        /\ UNCHANGED used
  /\ pc' = "idle"
  /\ arg' = NoRecord
  /\ harm' = harm \cup {"outage"}
                  \cup (IF pc \in {"erase", "slot0"} THEN {"renewal"} ELSE {})

Next ==
  \/ \E v \in Records : BeginWrite(v)
  \/ WriteData
  \/ ClearBit
  \/ EraseSector
  \/ WriteSlot0
  \/ PowerLoss

Spec == Init /\ [][Next]_vars

-----------------------------------------------------------------------------
(***************************************************************************)
(* The sector as the register of RecordStore: the record is replaced by    *)
(* the clearing of the bit, and lies ahead of it, exact, from the step     *)
(* before.                                                                 *)
(***************************************************************************)

\* Nothing lies ahead of the current slot but the record being committed.
NoRemnants ==
  \A i \in Slots : i > Current =>
     \/ slot[i] = Erased
     \/ pc = "bit" /\ i = Current + 1 /\ slot[i] = arg

\* A torn erase may leave bits that are cleared ahead of the first free one.
TornBitmap == \E i \in used : i > Current

AheadOfCurrent ==
  IF TornBitmap THEN "torn" ELSE IF NoRemnants THEN "clean" ELSE "remnants"

RoomLeft ==
  IF pc = "slot0" THEN MaxSlots
  ELSE IF FirstFree = -1 THEN 0 ELSE MaxSlots - 1 - FirstFree

Store == INSTANCE RecordStore
           WITH Capacity <- MaxSlots, val <- Read, room <- RoomLeft,
                ahead <- AheadOfCurrent, outage <- ("outage" \in harm)

(* bitmap_read/bitmap_write implement the register of RecordStore, supply  *)
(* failures included: atomic replacement while there is room, one erase    *)
(* per MaxSlots writes, exact contents until the first outage.             *)
ImplementsStore == Store!Spec

=============================================================================
