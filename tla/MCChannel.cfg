SPECIFICATION FairSpec
CONSTANTS
  Bodies <- MCBodies
  HeaderBytes = 2
  MaxBody = 2
  MaxQueued = 2
  ReadChunk = 4
  WireBytes = 5
  MaxSent = 3
  Damages = TRUE
INVARIANTS
  TypeOK
  FailuresHaveACause
PROPERTIES
  IsALink
  Delivered
CHECK_DEADLOCK FALSE
