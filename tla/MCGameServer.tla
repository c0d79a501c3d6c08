----------------------------- MODULE MCGameServer -----------------------------
(***************************************************************************)
(* GameServer for TLC.  Two kinds of request: duel, two players in a       *)
(* realtime room for two that is disposed when empty, and hall, three      *)
(* players for a turn room with two seats that stays when it is empty.     *)
(***************************************************************************)
EXTENDS GameServer, TLC

CONSTANTS duel, hall

MCRequired == [k \in Key |-> IF k = hall THEN 3 ELSE 2]
MCCapacity == [k \in Key |-> 2]

\* The ids of each pool are interchangeable.
Interchangeable ==
  Permutations(Session) \cup Permutations(Player) \cup Permutations(Room)
===============================================================================
