SPECIFICATION Spec
CONSTANTS
  c1 = c1
  Clients = {c1}
  cold = cold
  hot = hot
  BackupModels = {cold}
  model_priority <- Priorities
  NoCap = NoCap
  Cap = NoCap
  MaxBytes = 1
  MaxReleased = 1
  low = 2
  high = 3
  consecutive_samples = 1
PROPERTIES
  ShortfallVisible
