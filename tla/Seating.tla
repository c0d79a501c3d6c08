-------------------------------- MODULE Seating --------------------------------
(***************************************************************************)
(* What rooms promise about seats (docs/architecture.md, "A player can     *)
(* exist in exactly one active room at a time"; docs/api/room-lifecycle.md, *)
(* "One player, one active room membership"): a player has at most one     *)
(* seat, stands up before it sits down elsewhere and sits down in open     *)
(* rooms only; a room is closed when nobody sits in it, and once it has    *)
(* begun to close it does.                                                 *)
(***************************************************************************)
EXTENDS Integers, FiniteSets

CONSTANTS Player, Room, None, Capacity

VARIABLES
  phase,  \* of a room
  seat    \* the room a player sits in

vars == <<phase, seat>>

Seated(r) == {p \in Player : seat[p] = r}

Init ==
  /\ phase = [r \in Room |-> "closed"]
  /\ seat = [p \in Player |-> None]

Opens(r) ==
  /\ phase[r] = "closed"
  /\ phase' = [phase EXCEPT ![r] = "open"]
  /\ UNCHANGED seat

SitsDown(p, r) ==
  /\ phase[r] = "open"
  /\ seat[p] = None
  /\ Cardinality(Seated(r)) < Capacity[r]
  /\ seat' = [seat EXCEPT ![p] = r]
  /\ UNCHANGED phase

StandsUp(p) ==
  /\ seat[p] # None
  /\ seat' = [seat EXCEPT ![p] = None]
  /\ UNCHANGED phase

BeginsToClose(r) ==
  /\ phase[r] = "open"
  /\ phase' = [phase EXCEPT ![r] = "closing"]
  /\ UNCHANGED seat

Closes(r) ==
  /\ phase[r] = "closing"
  /\ Seated(r) = {}
  /\ phase' = [phase EXCEPT ![r] = "closed"]
  /\ UNCHANGED seat

Next ==
  \/ \E r \in Room : Opens(r) \/ BeginsToClose(r) \/ Closes(r)
  \/ \E p \in Player : StandsUp(p) \/ \E r \in Room : SitsDown(p, r)

Fairness ==
  \A r \in Room :
    WF_vars(Closes(r) \/ (phase[r] = "closing" /\ \E p \in Seated(r) : StandsUp(p)))

SafeSpec == Init /\ [][Next]_vars

Spec == SafeSpec /\ Fairness
===============================================================================
