SPECIFICATION Spec
CONSTANTS
  Sizes = {1, 2, 3, 9}
  Room = 3
  U16 = 8
  Shared = TRUE
  Pool = 2
  MaxBytes = 12
INVARIANTS TypeOK NothingClaimedIsMissing PbufsAreFreed
PROPERTIES RefusedIsSentLater
CHECK_DEADLOCK FALSE
