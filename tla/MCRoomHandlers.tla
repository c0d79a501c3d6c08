---------------------------- MODULE MCRoomHandlers -----------------------------
(***************************************************************************)
(* RoomHooks and RoomHandlers for TLC: three players, an auto-dispose      *)
(* realtime room with two seats and a turn room with one, and groups of up *)
(* to three players, so that no room has seats for all.                    *)
(***************************************************************************)
EXTENDS RoomHandlers

CONSTANTS r1, r2

MCCapacity == [r \in Room |-> IF r = r1 THEN 2 ELSE 1]
===============================================================================
