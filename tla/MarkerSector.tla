---------------------------- MODULE MarkerSector ----------------------------
(***************************************************************************)
(* The marker-based dual sector (WL_CHCFG) of                              *)
(* drivers/flash_wearleveling.c, one flash command per step, with the      *)
(* supply failing between or inside the commands.                          *)
(*                                                                         *)
(* Slot i starts with a marker byte: 0xFF blank, 0xA5 valid, 0x00 dead.    *)
(* The slots are packed over two erase sectors, so that one of them        *)
(* (Straddler) has its marker and its first bits in the first sector and   *)
(* the others in the second.                                               *)
(***************************************************************************)
EXTENDS Integers, NorFlash

CONSTANTS
  MaxSlots,   \* sec->max_slots (79)
  Straddler,  \* the slot that crosses the sector boundary (39)
  MidPoint,   \* the old slot at which the first sector is erased (41)
  Bits,       \* the bits of a record
  HeadBits,   \* those of the straddling slot that lie in the first sector
  Records,    \* the records callers write
  NoRecord

ASSUME LayoutAssumption ==
  /\ MaxSlots \in Nat \ {0} /\ Straddler \in Nat /\ MidPoint \in Nat
  /\ Straddler < MaxSlots
  /\ MidPoint >= Straddler
ASSUME RecordsAssumption ==
  /\ HeadBits \subseteq Bits
  /\ Records \subseteq (SUBSET Bits) \ {Erased}
  /\ NoRecord \notin Records

VARIABLES
  mark,       \* the marker byte of each slot
  body,       \* the rest of each slot
  pc,         \* the next flash command of marker_write
  cur,        \* its local current: the slot found valid, or -1
  arg,        \* the record it is writing
  saved,      \* history: the record last written to the end
  tried       \* history: the records outages cut short since

vars == <<mark, body, pc, cur, arg, saved, tried>>

Slots == 0 .. MaxSlots - 1
Mark == {"blank", "valid", "dead"}
Steps == {"idle", "wipe1", "wipe2", "rewipe2", "rewipe1", "mark0", "body0",
          "kill", "mark", "body", "mid"}

\* A write in progress stays inside the sectors.
TypeOK ==
  /\ mark \in [Slots -> Mark]
  /\ body \in [Slots -> SUBSET Bits]
  /\ pc \in Steps
  /\ cur \in -1 .. MaxSlots - 1
  /\ pc \in {"kill", "mark", "body", "mid"} => cur \in Slots /\ cur + 1 \in Slots
  /\ arg \in Records \cup {NoRecord}
  /\ saved \in Records \cup {NoRecord}
  /\ tried \in SUBSET Records

Init ==
  /\ mark = [i \in Slots |-> "blank"]
  /\ body = [i \in Slots |-> Erased]
  /\ pc = "idle"
  /\ cur = -1
  /\ arg = NoRecord
  /\ saved = NoRecord
  /\ tried = {}

-----------------------------------------------------------------------------

\* marker_find_valid: the first slot marked valid, -1 if none.
IsFound(i) ==
  IF \A j \in Slots : mark[j] # "valid" THEN i = -1
  ELSE /\ i \in Slots /\ mark[i] = "valid"
       /\ \A j \in Slots : mark[j] = "valid" => i <= j

Found == CHOOSE i \in -1 .. MaxSlots - 1 : IsFound(i)

\* marker_read: the record behind the valid marker, or -1.
Read == IF Found = -1 THEN NoRecord ELSE body[Found]

\* Programming a marker byte: 0x00 absorbs, 0xA5 lands on a blank byte only.
Mark0xA5(m) == IF m = "dead" THEN "dead" ELSE "valid"

\* The part of a slot that the erase of each sector clears.
InFirst == [i \in Slots |-> IF i < Straddler THEN Bits
                            ELSE IF i = Straddler THEN HeadBits ELSE {}]
InSecond == [i \in Slots |-> Bits \ InFirst[i]]

FirstErased ==
  /\ mark' = [i \in Slots |-> IF i <= Straddler THEN "blank" ELSE mark[i]]
  /\ body' = [i \in Slots |-> body[i] \ InFirst[i]]

SecondErased ==
  /\ mark' = [i \in Slots |-> IF i > Straddler THEN "blank" ELSE mark[i]]
  /\ body' = [i \in Slots |-> body[i] \ InSecond[i]]

Continue(step) ==
  /\ pc' = step
  /\ UNCHANGED <<cur, arg, saved, tried>>

Return ==
  /\ pc' = "idle"
  /\ cur' = -1
  /\ arg' = NoRecord
  /\ saved' = arg
  /\ tried' = {}

-----------------------------------------------------------------------------

\* Mutants of BeginWrite: a write goes past the last slot; with no valid
\* record nothing is erased first.
BeginPastTheEnd(v) ==
  /\ pc = "idle"
  /\ cur' = Found
  /\ pc' = IF cur' < 0 THEN "wipe1" ELSE "kill"
  /\ arg' = v
  /\ UNCHANGED <<mark, body, saved, tried>>

BeginWithoutWipe(v) ==
  /\ pc = "idle"
  /\ cur' = Found
  /\ pc' = IF cur' < 0 THEN "mark0"
           ELSE IF cur' >= MaxSlots - 1 THEN "rewipe2" ELSE "kill"
  /\ arg' = v
  /\ UNCHANGED <<mark, body, saved, tried>>

\* marker_write: look for the valid slot and choose the command sequence.
BeginWrite(v) ==
  /\ pc = "idle"
  /\ cur' = Found
  /\ pc' = IF cur' < 0 THEN "wipe1"
           ELSE IF cur' >= MaxSlots - 1 THEN "rewipe2" ELSE "kill"
  /\ arg' = v
  /\ UNCHANGED <<mark, body, saved, tried>>

\* No valid record: both sectors are erased, the first one first ...
Wipe ==
  \/ pc = "wipe1" /\ FirstErased /\ Continue("wipe2")
  \/ pc = "wipe2" /\ SecondErased /\ Continue("mark0")

\* Mutant of WrapAround: only the second sector is erased.
WrapHalf == pc = "rewipe2" /\ SecondErased /\ Continue("mark0")

\* ... after the last slot, the second one first.
WrapAround ==
  \/ pc = "rewipe2" /\ SecondErased /\ Continue("rewipe1")
  \/ pc = "rewipe1" /\ FirstErased /\ Continue("mark0")

\* Mutant of Kill: the old marker is left alone.
KillNothing == pc = "kill" /\ Continue("mark") /\ UNCHANGED <<mark, body>>

\* Invalidate the old record: 0xA5 -> 0x00.
Kill ==
  /\ pc = "kill"
  /\ mark' = [mark EXCEPT ![cur] = "dead"]
  /\ Continue("mark")
  /\ UNCHANGED body

\* The slot written: slot 0 after a wipe, else the one after the old record.
Target == IF pc \in {"mark0", "body0"} THEN 0 ELSE cur + 1

\* The marker of the new record goes first ...
WriteMark ==
  /\ pc \in {"mark0", "mark"}
  /\ mark' = [mark EXCEPT ![Target] = Mark0xA5(@)]
  /\ Continue(IF pc = "mark0" THEN "body0" ELSE "body")
  /\ UNCHANGED body

\* Mutant of WriteBody: the first sector is erased when the new record is in
\* the straddling slot.
WriteBodyMidTooEarly ==
  /\ pc \in {"body0", "body"}
  /\ body' = [body EXCEPT ![Target] = Program(@, arg)]
  /\ IF pc = "body" /\ cur = Straddler - 1 THEN Continue("mid") ELSE Return
  /\ UNCHANGED mark

\* ... then the record itself.
WriteBody ==
  /\ pc \in {"body0", "body"}
  /\ body' = [body EXCEPT ![Target] = Program(@, arg)]
  /\ IF pc = "body" /\ cur = MidPoint THEN Continue("mid") ELSE Return
  /\ UNCHANGED mark

\* Past the middle, the first sector is erased.
MidErase == pc = "mid" /\ FirstErased /\ Return

-----------------------------------------------------------------------------

\* An erase that is cut short clears some slots of the sector in part; the
\* bytes it leaves where markers were are not 0xA5.
TornErase(part, marked) ==
  \E torn \in SUBSET {i \in Slots : part[i] # {}}, bits \in SUBSET Bits,
     byte \in {"blank", "dead"} :
    /\ mark' = [i \in Slots |-> IF i \in torn \cap marked THEN byte ELSE mark[i]]
    /\ body' = [i \in Slots |-> IF i \in torn THEN body[i] \ (part[i] \cap bits)
                                ELSE body[i]]

TornCommand ==
  \/ pc \in {"wipe1", "rewipe1", "mid"} /\ TornErase(InFirst, 0 .. Straddler)
  \/ pc \in {"wipe2", "rewipe2"}
     /\ TornErase(InSecond, Straddler + 1 .. MaxSlots - 1)
  \/ /\ pc \in {"mark0", "mark"}
     /\ mark' \in {mark, [mark EXCEPT ![Target] = "dead"]}
     /\ UNCHANGED body
  \/ /\ pc \in {"body0", "body"}
     /\ \E c \in TornProgram(body[Target], arg) :
           body' = [body EXCEPT ![Target] = c]
     /\ UNCHANGED mark
  \/ pc = "kill" /\ UNCHANGED <<mark, body>>

\* The supply fails: the pending command is done in part, and what follows
\* it is not done.
PowerLoss ==
  /\ TornCommand
  /\ pc' = "idle"
  /\ cur' = -1
  /\ arg' = NoRecord
  /\ tried' = tried \cup {arg}
  /\ UNCHANGED saved

Next ==
  \/ \E v \in Records : BeginWrite(v)
  \/ Wipe
  \/ WrapAround
  \/ Kill
  \/ WriteMark
  \/ WriteBody
  \/ MidErase
  \/ PowerLoss

Spec == Init /\ [][Next]_vars

-----------------------------------------------------------------------------

(* The scan for the valid marker cannot be ambiguous: the old record is    *)
(* killed before the new one is marked, outages included.                  *)
AtMostOneValid ==
  \A i, j \in Slots : mark[i] = "valid" /\ mark[j] = "valid" => i = j

(* A record that was written to the end reads back, whatever outages came  *)
(* before the write: marker_write never programs over remnants.            *)
CompletedWriteReadsBack ==
  pc = "idle" /\ tried = {} => Read = saved

(* An outage costs the record in force and the one being written at most:  *)
(* what is found is the last one saved, or one that was cut short since,   *)
(* whole or in part, and never one that was superseded before.             *)
NothingStaleComesBack ==
  pc = "idle" /\ Found # -1 =>
    \/ saved # NoRecord /\ Read \subseteq saved
    \/ \E r \in tried : Read \subseteq r

(* The erase at the middle (slot 41) must not reach the record that was    *)
(* just written: not even the part of the straddling slot (39) that lies   *)
(* in the first sector.                                                    *)
MidEraseSparesRecord ==
  [][pc = "mid" => Read' = arg]_vars
=============================================================================
