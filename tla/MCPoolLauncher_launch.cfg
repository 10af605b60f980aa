SPECIFICATION FairSpec
CONSTANTS
  p1 = p1
  p2 = p2
  p3 = p3
  Pids = {p1, p2, p3}
  NONE = NONE
  MaxStarts <- Starts
  a = a
  b = b
  Names = {a, b}
  Startup = b
CHECK_DEADLOCK FALSE
INVARIANTS
  AllStopped
  SigtermSpared
  OneFootprint
PROPERTIES
  PublishedPrepared
  UnwindingEnds
