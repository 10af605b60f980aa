------------------------------ MODULE MCPoolStop ------------------------------
(***************************************************************************)
(* Instances of PoolStop for TLC.                                          *)
(***************************************************************************)
EXTENDS PoolStop, TLC

\* Every id is used twice.
Starts == [p \in Pids |-> 2]

Symmetry == Permutations(Pids) \cup Permutations(Names)

=============================================================================
