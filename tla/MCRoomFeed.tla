----------------------------- MODULE MCRoomFeed -----------------------------
(***************************************************************************)
(* Model values for checking RoomFeed with TLC.                            *)
(***************************************************************************)
EXTENDS RoomFeed

CONSTANTS b1, b2
=============================================================================
