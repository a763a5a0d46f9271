SPECIFICATION Spec
CONSTANTS
  TaskCount = 5
  Interval <- MCInterval
  TickMod = 9
  MaxPass = 2
  Watched = 5
  Encoder = 1
  Keypad = 2
  Buttons = 3
  Ui = 5
  QueueCapacity = 6
  ChannelCount = 3
  Stored <- MCStored
  Boot = Boot
INVARIANTS
  LoopTypeOK
  CalledInTime
  NoEventLost
  KnobFollowed
PROPERTIES
  EventuallyDrained
