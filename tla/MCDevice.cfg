SPECIFICATION DeviceSpec
CONSTANTS
  Matrix <- MCMatrix
  Undriven = 4
  DebounceCount = 3
  RepeatDelay = 5
  RepeatRate = 2
  HoldMod = 12
  StepsPerDetent = 2
  Turns = 5
  AudioTickMod = 16
  PollGap = 2
  Beeps <- MCBeeps
  Sequences <- MCSequences
  LongPress = 3
  Minute = 2
  AutoOffMinutes = {0, 1, 2}
  KeylockSeconds = 3
  LowBattBeep = 2
  MaxQuiet = 4
  VoxTickMod = 6
  VoxHang = 3
  VoxPollGap = 1
  HangTicks = 2
  RelayTot = 3
  ChannelCount = 3
  PerPage = 1
  PerSector = 2
  BcdBytes = 2
  VfoStates <- MCVfo
  Names = {"n"}
  NoChannel = 10
  Records <- MCRecords
  Steps = {12500}
  CtcssTones <- MCTones
  DcsCodes <- MCCodes
  ToneIndices = {0, 255}
  Levels = {15}
  SettleTicks = 2
  HoldoffTicks = 2
  ResumeTicks = 3
  DebounceReads = 3
  Speeds = {1, 2}
  Band = 4
  RangeLo = 1
  RangeHi = 2
  MemChannels = 3
  ScanLists <- MCLists
  Unloadable = {2}
  NumBins = 2
  SpanMin = 3
  SpanDefault = 4
  SpanMax = 4
  StepMin = 1
  StepDefault = 1
  StepMax = 3
  CenterDefault = 7
  RfMin = 3
  RfMax = 12
  KnobSteps = 2
  Readings = {0, 1}
  HoldPolls = 3
  DtmfMax = 2
  DtmfTimeout = 2
  DwTickMod = 4
  Watchable <- MCWatch
  RawValues <- MCRaw
  RangeCap = 7
  Visited = {1, 2, 3, 4, 6, 11}
  TextMax = 3
  Rows <- MCRows
  LowerOf <- MCLower
  TapTimeout = 1
  PanelDigits = {0, 4}
  EntryBands <- MCEntry
  Zones = 3
  Contacts = 5
  VisibleRows = 3
  Stored = {0, 2}
  RingSize = 4
  BufSize = 7
  HeaderByte = 6
  PacketSize = 2
  LenAt = 2
  Trailer = 1
  HandshakeCount = 2
  IdleLimit = 2
  Messages <- MCMessages
  Noise = {6, 1}
  MaxMessages = 2
  MaxNoise = 2
  MaxLost = 1
  GpsPlaces <- MCPlaces
  GpsClocks <- MCClocks
  Qualities = {1, 2}
  FmMin = 3
  FmMax = 5
  FmStep = 1
  FmDefault = 4
  PresetSlots = 2
  StationSets = {{}, {3}, {4, 5}}
  AmBands <- MCAmBands
  Filters = 2
  BfoMax = 1
  NoaaChannels = 2
  MaxCalls = 5
  Intervals <- MCIntervals
  DefaultIndex = 1
  FifoWords = 7
  MaxInfo = 94
  Configs <- MCConfigs
  Positions <- MCPositions
  MaxSent = 2
INVARIANTS
  DeviceTypeOK
  InputsMatchHands
  RadioGetsSpeakerBack
  OffOnlyWhenAsked
  TransmitterIsHeld
  ChannelsSurvive
  ChipFollowsVfo
  SearchShowsWhatItHears
  FocusFollowsSignal
  PanelsShowWhatIsKept
  LinksCarryWhatWasSent
  ReceiversAgreeWithChip
  BeaconsAreHeard
CHECK_DEADLOCK FALSE
