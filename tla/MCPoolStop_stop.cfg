SPECIFICATION Spec
CONSTANTS
  p1 = p1
  p2 = p2
  p3 = p3
  p4 = p4
  Pids = {p1, p2, p3, p4}
  NONE = NONE
  MaxStarts <- Starts
  a = a
  b = b
  Names = {a, b}
SYMMETRY Symmetry
CHECK_DEADLOCK FALSE
INVARIANTS
  SparesItself
  ReusedLeaderSpared
PROPERTIES
  RemovedOnlyWhenStopped
