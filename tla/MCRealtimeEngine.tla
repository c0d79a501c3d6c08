--------------------------- MODULE MCRealtimeEngine ---------------------------
(***************************************************************************)
(* RealtimeEngine for TLC: ticks of 3 ms, timers that fire on time or      *)
(* little late, stalls of twelve ticks and a clock set back by two, and    *)
(* ticks that stop their own room.                                         *)
(***************************************************************************)
EXTENDS RealtimeEngine

MCElapsed == {3, 4, 7}
MCJump == {37, -6}
===============================================================================
