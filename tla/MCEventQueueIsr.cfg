SPECIFICATION Spec
CONSTANTS
  Size = 4
  Events <- MCEvents
  NoEvent = NoEvent
  PostInIsr = TRUE
  MaxPosts = 8
INVARIANTS
  NothingVanishes
