----------------------------- MODULE MCRoomPage ----------------------------
(* An instance of RoomPage for TLC.                                         *)
EXTENDS RoomPage, TLC

Fetches == Permutations(Gets)
=============================================================================
