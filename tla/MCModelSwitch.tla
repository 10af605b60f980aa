---------------------------- MODULE MCModelSwitch ----------------------------
(***************************************************************************)
(* Instances of ModelSwitch for TLC.  Nothing in it counts up, so there is *)
(* no state constraint: Requests bounds the tasks alive at one time, and a *)
(* task that has ended is used again.                                      *)
(***************************************************************************)
EXTENDS ModelSwitch, TLC

\* Requests are interchangeable.  Safety only.
Symmetry == Permutations(Requests)

=============================================================================
