SPECIFICATION Spec
CONSTANTS
  p1 = p1
  p2 = p2
  p3 = p3
  Pids = {p1, p2, p3}
  NONE = NONE
  MaxStarts <- Starts
  a = a
  Names = {a}
SYMMETRY Symmetry
CHECK_DEADLOCK FALSE
INVARIANTS
  ForeignSpared
