------------------------------ MODULE MCOutbox ------------------------------
(***************************************************************************)
(* Model values for checking Outbox with TLC.                              *)
(***************************************************************************)
EXTENDS Outbox

CONSTANTS s1, s2
=============================================================================
