---------------------------- MODULE MCPoolLauncher ----------------------------
(***************************************************************************)
(* The instance of PoolLauncher for TLC: two backends, one of them the     *)
(* startup model.  Its configuration names the ids and the models.         *)
(***************************************************************************)
EXTENDS PoolLauncher

CONSTANTS p1, p2, p3, a, b

\* One id is used again.
Starts == [p \in Pids |-> IF p = p1 THEN 2 ELSE 1]

=============================================================================
