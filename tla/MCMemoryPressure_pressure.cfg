SPECIFICATION Spec
CONSTANTS
  c1 = c1
  c2 = c2
  Clients = {c1, c2}
  cold = cold
  hot = hot
  BackupModels = {cold, hot}
  model_priority <- Priorities
  NoCap = NoCap
  Cap = 2
  MaxBytes = 2
  MaxReleased = 1
  low = 1
  high = 2
  consecutive_samples = 2
SYMMETRY Symmetry
INVARIANTS
  ObligationsKept
  CapPursued
PROPERTIES
  DebouncedHysteresis
  NoDuplicateBudget
  VictimsInOrder
  OnlyUnderPressure
  RoundExhaustive
