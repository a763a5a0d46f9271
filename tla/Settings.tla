------------------------------ MODULE Settings ------------------------------
(***************************************************************************)
(* app/settings.c over its sector WL_SYSCFG: the settings_t in RAM, which  *)
(* is the copy every getter reads, and the setters that write the whole    *)
(* record through to flash.  The processor runs nothing else while a write *)
(* is in progress, and starts again at settings_init after an outage.      *)
(***************************************************************************)
EXTENDS BitmapSector

CONSTANTS
  Defaults,    \* settings_defaults
  CheckedBits  \* the bits of sql_level and beep that are 0 in every real
               \* record: settings_init takes a record without them for blank

ASSUME DefaultsAssumption == Defaults \in Records
ASSUME CheckedAssumption ==
  CheckedBits \subseteq Bits /\ \A r \in Records : r \cap CheckedBits # {}

VARIABLES
  ram,         \* the live settings_t
  power,       \* "off", or "on" after settings_init
  expected     \* history: the settings last saved, or last come up with

settingsVars == <<ram, power, expected>>
allVars == <<vars, settingsVars>>

\* A write in progress stays inside the sector.
SettingsTypeOK ==
  /\ TypeOK
  /\ pc \in {"data", "bit"} => FirstFree + 1 \in Slots
  /\ ram \in SUBSET Bits
  /\ power \in {"on", "off"}
  /\ expected \in SUBSET Bits

SettingsInit ==
  /\ Init
  /\ ram = {}
  /\ power = "off"
  /\ expected = Defaults

-----------------------------------------------------------------------------

LooksErased(r) == r \cap CheckedBits = {}

\* settings_init: the defaults replace a record that looks erased, in RAM
\* only.
SettingsBoot ==
  /\ power = "off"
  /\ power' = "on"
  /\ ram' = IF LooksErased(Read) THEN Defaults ELSE Read
  /\ expected' = ram'
  /\ UNCHANGED vars

\* settings_set_u8 and settings_factory_reset: change the RAM copy, then
\* save it.
Save(v) ==
  /\ power = "on"
  /\ BeginWrite(v)
  /\ ram' = v
  /\ UNCHANGED <<power, expected>>

\* The flash commands of the save.
SaveStep ==
  /\ WriteData \/ ClearBit \/ EraseSector \/ WriteSlot0
  /\ expected' = IF pc' = "idle" THEN ram ELSE expected
  /\ UNCHANGED <<ram, power>>

\* The supply fails, in a save or outside one.
SettingsOutage ==
  /\ power = "on"
  /\ IF pc = "idle" THEN UNCHANGED vars ELSE PowerLoss
  /\ power' = "off"
  /\ ram' = {}
  /\ UNCHANGED expected

SettingsNext ==
  \/ SettingsBoot
  \/ \E v \in Records : Save(v)
  \/ SaveStep
  \/ SettingsOutage

SettingsSpec == SettingsInit /\ [][SettingsNext]_allVars

-----------------------------------------------------------------------------

(* The RAM copy is authoritative (settings.c): between saves the flash     *)
(* holds what the getters answer, or looks blank under the defaults, as    *)
(* long as no renewal was cut short and no record mixed with remnants.     *)
RamMatchesFlash ==
  power = "on" /\ pc = "idle" /\ harm \subseteq {"outage"} =>
    ram = Read \/ (LooksErased(Read) /\ ram = Defaults)

(* A write that returned 0 is what a read returns from then on             *)
(* (flash_wearleveling.h), so that flash always backs the RAM copy.        *)
WrittenReadsBack ==
  power = "on" /\ pc = "idle" => ram = Read \/ LooksErased(Read)

(* The radio comes up with the settings last saved, or those before the    *)
(* save that was cut short: an outage can cost more than the save in       *)
(* progress only in a renewal, or through remnants it left behind.         *)
RebootRestores ==
  [][SettingsBoot /\ harm \subseteq {"outage"} => ram' = expected]_allVars

=============================================================================
