SPECIFICATION SettingsSpec
CONSTANTS
  MaxSlots = 4
  Bits <- MCBits
  Records <- MCRecords
  TornSlots <- MCTornSlots
  NoRecord = NoRecord
  Defaults <- MCDefaults
  CheckedBits <- MCCheckedBits
INVARIANTS
  WrittenReadsBack
