SPECIFICATION Spec
CONSTANTS
  NumSockets = 2
  Buffer = 2
  Segments = {1, 3}
  MaxSegments = 4
INVARIANT TokensCoverData
PROPERTIES NothingLeftBehind DataIsRead
CHECK_DEADLOCK FALSE
