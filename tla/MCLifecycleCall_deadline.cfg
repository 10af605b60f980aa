SPECIFICATION FairCallSpec
CONSTANTS
  Timeouts = {0, 1, 2, 5}
  Interval = 2
  MaxCancels = 2
  NONE = NONE
CHECK_DEADLOCK FALSE
INVARIANTS
  EndsByDeadline
  LatencyKept
  CancellationWins
PROPERTIES
  CallEnds
