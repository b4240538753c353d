---------------------------- MODULE MCRoomLocks ----------------------------
(***************************************************************************)
(* Model values for checking RoomLocks with TLC: two rooms of the same two *)
(* accounts in opposite seats, the second one with both moves made.        *)
(***************************************************************************)
EXTENDS RoomLocks, TLC

CONSTANTS t1, t2, t3, c1, c2

MCHost == (c1 :> 1) @@ (c2 :> 2)
MCGuest == (c1 :> 2) @@ (c2 :> 1)
MCStart == (c1 :> Committed) @@ (c2 :> {Playing(Role)})
Symmetry == Permutations(Txs)
=============================================================================
