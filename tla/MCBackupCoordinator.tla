-------------------------- MODULE MCBackupCoordinator --------------------------
(***************************************************************************)
(* Instances of BackupCoordinator for TLC.  What one worker and the        *)
(* controller do to each other is independent of the other workers, except *)
(* that the cap and the monitor divide their targets, which the run of     *)
(* MCMemoryPressure covers: one worker has the whole protocol.             *)
(***************************************************************************)
EXTENDS BackupCoordinator, TLC

CONSTANT cold

Priorities == [m \in BackupModels |-> 0]

ModelOf == [c \in Clients |-> cold]

=============================================================================
