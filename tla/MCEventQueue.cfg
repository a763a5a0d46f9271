SPECIFICATION Spec
CONSTANTS
  Size = 4
  Events <- MCEvents
  NoEvent = NoEvent
  PostInIsr = FALSE
  MaxPosts = 8
INVARIANTS
  TypeOK
  EveryEventAccounted
PROPERTIES
  ImplementsFifo
