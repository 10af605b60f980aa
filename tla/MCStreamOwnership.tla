--------------------------- MODULE MCStreamOwnership ---------------------------
(***************************************************************************)
(* StreamOwnership for TLC.  Nothing counts up and there is no constant:   *)
(* the run covers every order of ends, failures and cancellations of one   *)
(* request.                                                                *)
(***************************************************************************)
EXTENDS StreamOwnership

=============================================================================
