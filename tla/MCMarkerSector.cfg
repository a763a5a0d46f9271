SPECIFICATION Spec
CONSTANTS
  MaxSlots = 5
  Straddler = 1
  MidPoint = 2
  Bits <- MCBits
  HeadBits <- MCHeadBits
  Records <- MCRecords
  NoRecord = NoRecord
INVARIANTS
  TypeOK
  AtMostOneValid
  CompletedWriteReadsBack
  NothingStaleComesBack
PROPERTIES
  MidEraseSparesRecord
