SPECIFICATION Spec
CONSTANTS
  MinFreq = 2
  MaxFreq = 4
  Bands <- MCBands
  Offset = 1
  TxAllowed <- MCTxAllowed
  Submode <- MCSubmode
  EntryFreqs <- MCEntryFreqs
  ChannelFreqs <- MCChannelFreqs
  TotLimit = 2
INVARIANT
  OffsetUndone
