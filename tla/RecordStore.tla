----------------------------- MODULE RecordStore -----------------------------
(***************************************************************************)
(* What a bitmap sector of flash_wearleveling.c promises its callers       *)
(* (settings.c, vfo.c, fm_radio.c): a register that holds one record, is   *)
(* erased once every Capacity writes, and says exactly what an outage may  *)
(* cost.                                                                   *)
(*                                                                         *)
(*   - a write replaces the record atomically, and with no erase as long   *)
(*     as there is room;                                                   *)
(*   - until the first outage a write stores exactly its argument;         *)
(*   - an outage outside a renewal leaves the record as it was, but may    *)
(*     leave remnants that the next write is mixed with;                   *)
(*   - a renewal (the sector is full) is not atomic: between Erase and     *)
(*     Renew the store holds nothing, and an outage there may leave        *)
(*     anything, a store that loses writes included, until the next        *)
(*     renewal.                                                            *)
(***************************************************************************)
EXTENDS Integers, NorFlash

CONSTANTS
  Capacity,   \* number of record slots of the sector
  Bits,       \* the bits of a record
  Records     \* the records callers write: sets of programmed bits

VARIABLES
  val,        \* what a read returns
  room,       \* writes left before a renewal; Capacity while it is erased
  ahead,      \* what lies in the slots to come: "clean", "remnants", "torn"
  outage      \* power has been lost at least once

vars == <<val, room, ahead, outage>>

Ahead == {"clean", "remnants", "torn"}

TypeOK ==
  /\ val \in SUBSET Bits
  /\ room \in 0 .. Capacity
  /\ ahead \in Ahead
  /\ outage \in BOOLEAN

\* A sector as the factory delivers it: blank.
Init ==
  /\ val = Erased
  /\ room = Capacity - 1
  /\ ahead = "clean"
  /\ outage = FALSE

Write(v) ==
  /\ room \in 1 .. Capacity - 1
  /\ ahead = "clean"
  /\ val' = v
  /\ room' = room - 1
  /\ UNCHANGED <<ahead, outage>>

\* A write over the remnants of an interrupted one: the record is there,
\* with other bits programmed beside it.
WriteOverRemnants(v) ==
  /\ room \in 1 .. Capacity - 1
  /\ ahead = "remnants"
  /\ val' \in {r \in SUBSET Bits : v \subseteq r}
  /\ room' = room - 1
  /\ ahead' \in {"clean", "remnants"}
  /\ UNCHANGED outage

\* A write after a torn erase: anything may be in force afterwards.
WriteIntoTorn ==
  /\ room \in 1 .. Capacity - 1
  /\ ahead = "torn"
  /\ val' \in SUBSET Bits
  /\ room' \in 0 .. room - 1
  /\ ahead' \in Ahead
  /\ UNCHANGED outage

\* Power is lost, or what an earlier outage left behind is written again.
Interrupted ==
  /\ outage'
  /\ ahead' \in IF ahead = "torn" THEN {"torn"} ELSE {"clean", "remnants"}
  /\ UNCHANGED <<val, room>>

Erase ==
  /\ room = 0
  /\ val' = Erased
  /\ room' = Capacity
  /\ ahead' = "clean"
  /\ UNCHANGED outage

Renew(v) ==
  /\ room = Capacity
  /\ val' = v
  /\ room' = Capacity - 1
  /\ UNCHANGED <<ahead, outage>>

RenewalInterrupted ==
  /\ room \in {0, Capacity}
  /\ outage'
  /\ val' \in SUBSET Bits
  /\ room' \in 0 .. Capacity - 1
  /\ ahead' \in Ahead

Next ==
  \/ \E v \in Records : Write(v) \/ WriteOverRemnants(v) \/ Renew(v)
  \/ WriteIntoTorn
  \/ Interrupted
  \/ Erase
  \/ RenewalInterrupted

Spec == Init /\ [][Next]_vars
=============================================================================
