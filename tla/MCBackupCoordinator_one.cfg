SPECIFICATION FairCoordinatorSpec
CONSTANTS
  c1 = c1
  Clients = {c1}
  cold = cold
  BackupModels = {cold}
  model_priority <- Priorities
  model_of <- ModelOf
  NoCap = NoCap
  Cap = 0
  MaxBytes = 1
  MaxReleased = 2
  MaxReports = 2
  MaxEpochs = 2
INVARIANTS
  PendingIsOwed
PROPERTIES
  NothingOwedTwice
  ObligationMet
