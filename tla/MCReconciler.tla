---------------------------- MODULE MCReconciler ----------------------------
(***************************************************************************)
(* Model values for checking Reconciler with TLC.                          *)
(***************************************************************************)
EXTENDS Reconciler

CONSTANTS p1, r1, r2, r3
=============================================================================
