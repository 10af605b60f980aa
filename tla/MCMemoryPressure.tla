--------------------------- MODULE MCMemoryPressure ---------------------------
(***************************************************************************)
(* Instances of MemoryPressure for TLC: two workers and two models of      *)
(* different priority, so that the order of victims and the age of reports *)
(* both decide; watermarks one byte apart, so that a sample can be below,  *)
(* between and above them, and a target that can exceed what the workers   *)
(* hold.  The bounds on bytes are in the guards of BackupPool.             *)
(***************************************************************************)
EXTENDS MemoryPressure, TLC

CONSTANTS cold, hot

Priorities == [m \in BackupModels |-> IF m = hot THEN 1 ELSE 0]

Symmetry == Permutations(Clients)

=============================================================================
