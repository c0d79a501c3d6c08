----------------------------- MODULE MCMatchmaker -----------------------------
(***************************************************************************)
(* Matchmaker for TLC: five players and three keys, one for each kind of   *)
(* requiredPlayers: three (a queue with a middle), two (the default) and   *)
(* zero (a client may ask for it).                                         *)
(***************************************************************************)
EXTENDS Matchmaker

CONSTANTS k0, k2, k3

MCKey == {k0, k2, k3}
MCRequired == [k \in MCKey |-> CASE k = k0 -> 0 [] k = k2 -> 2 [] k = k3 -> 3]
===============================================================================
