---------------------------- MODULE MCLifecycleCall ----------------------------
(***************************************************************************)
(* An instance of LifecycleCall for TLC.                                   *)
(***************************************************************************)
EXTENDS LifecycleCall

=============================================================================
