---------------------------- MODULE MCRoomStore ----------------------------
(***************************************************************************)
(* Model values and symmetry for checking RoomStore with TLC.              *)
(***************************************************************************)
EXTENDS RoomStoreProperties, TLC

CONSTANTS a1, a2, a3, c1, c2

Symmetry ==
  Permutations(Codes) \cup Permutations(Accounts) \cup Permutations(Keys) \cup Permutations(Conns)
=============================================================================
