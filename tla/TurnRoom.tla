------------------------------- MODULE TurnRoom -------------------------------
(***************************************************************************)
(* Whose turn it is in one turn room: core/room/turn-room.ts and           *)
(* core/engine/turn-engine.ts on top of the membership of BaseRoom.        *)
(*                                                                         *)
(* room.players is a Map, which iterates in the order of insertion.  Its   *)
(* keys are the sequence order, read with the operators of MatchQueue: a   *)
(* player that leaves is taken out of it as out of a queue, and one that   *)
(* joins again (ROOM_JOIN to the room it is in) keeps its place.           *)
(***************************************************************************)
EXTENDS Integers, MatchQueue

CONSTANTS Player, MaxPlayers, None

ASSUME NoneAssumption == None \notin Player

ASSUME MaxPlayersAssumption == MaxPlayers \in Nat

VARIABLES
  active,   \* room.state is "active", else "destroyed"
  order,    \* the keys of room.players
  current   \* currentTurnPlayerId

vars == <<active, order, current>>

Members == Waiting(order)

TypeOK ==
  /\ active \in BOOLEAN
  /\ order \in Seq(Player)
  /\ \A i, j \in DOMAIN order : order[i] = order[j] => i = j
  /\ current \in Player \cup {None}

Init == active = TRUE /\ order = << >> /\ current = None
-------------------------------------------------------------------------------
\* An addPlayer() on a list of players in the place of the Map.
AddedTwice(p) == Append(order, p)

\* players.set(p.id, p)
Added(p) == IF p \in Members THEN order ELSE Append(order, p)

\* keys().next().value
FirstOf(q) == IF q = << >> THEN None ELSE q[1]

\* A room class whose onPlayerLeave does not pass the turn on.
HolderKept(p) == current

\* onPlayerLeave, called when p is out of room.players: the turn of a player
\* that leaves goes to the first of those that stay.
HolderAfterLeave(p) == IF current = p THEN FirstOf(Without(order, p)) ELSE current

\* The index of the next player without the modulo.
NextOfStuck(p) == LET i == Position(order, p)
                  IN  IF i = Len(order) THEN p ELSE order[i + 1]

\* nextTurnPlayerId: the one behind p, in a circle.
NextOf(p) == LET i == Position(order, p)
             IN  IF i = Len(order) THEN order[1] ELSE order[i + 1]

\* addPlayer and onPlayerJoin: the first to come begins.
Join(p) ==
  /\ active
  /\ Len(order) < MaxPlayers
  /\ order' = Added(p)
  /\ current' = IF current = None THEN p ELSE current
  /\ UNCHANGED active

\* processPendingRemovals for p.
Leave(p) ==
  /\ active
  /\ p \in Members
  /\ order' = Without(order, p)
  /\ current' = HolderAfterLeave(p)
  /\ UNCHANGED active

\* processAction of a member whose turn it is.  INVALID_TURN, for anybody else,
\* changes nothing.
TakeTurn(p) ==
  /\ active
  /\ p \in Members
  /\ current \in {None, p}
  /\ current' = NextOf(p)
  /\ UNCHANGED <<active, order>>

\* A hook throws, in onTurn, onJoin or onLeave, or the server destroys the
\* room.  Nobody reads currentTurnPlayerId any more, and nobody resets it.
Destroy ==
  /\ active
  /\ active' = FALSE
  /\ order' = << >>
  /\ current' \in Player \cup {None}

Next == (\E p \in Player : Join(p) \/ Leave(p) \/ TakeTurn(p)) \/ Destroy

Spec == Init /\ [][Next]_vars

\* A client that holds the turn plays.  The server cannot force it to: it can
\* only remove the player when its grace period is over.
Fairness == \A p \in Player : WF_vars(TakeTurn(p))

FairSpec == Spec /\ Fairness
-------------------------------------------------------------------------------
\* The game can go on: in a room with members the turn is held by one of them,
\* through any order of joining, joining again, leaving and playing; a room
\* that has been emptied gives the turn to the next to come.
HolderIsMember ==
  active => IF order = << >> THEN current = None ELSE current \in Members

\* If those who hold the turn play, and the members do not keep leaving for
\* ever, everyone that stays gets the turn, whatever joins, leaves and changes
\* of holder there were before.  (They must not: the turn of a holder that
\* leaves goes back to the first of the room, so a member in the middle can be
\* passed over again and again.)
EveryoneGetsTurn ==
  <>[][Len(order') >= Len(order)]_order =>
    \A p \in Player : active /\ p \in Members ~> current = p \/ p \notin Members
===============================================================================
