--------------------------------- MODULE Rooms ---------------------------------
(***************************************************************************)
(* What the handlers of the server do to rooms and seats, each in one      *)
(* step: BaseRoom and RoomManager as internal-server.ts uses them.  Module *)
(* GameServer builds its handlers from these operators.  Module            *)
(* RoomHandlers shows that the calls and hooks a handler is made of        *)
(* (RoomHooks) come to the same, whichever of them throw.                  *)
(***************************************************************************)
EXTENDS Integers, FiniteSets

CONSTANTS
  Player, Room,   \* pools of ids
  Key,            \* what a room may be asked for
  None,           \* undefined, and an id that names nothing
  Capacity,       \* [Key -> Nat]: maxPlayers of the room
  AutoDispose,    \* subset of Key: autoDispose rooms
  Realtime,       \* subset of Key: realtime rooms, else turn
  HooksThrow      \* may room hooks throw?

VARIABLES
  roomState,  \* "none": not in RoomManager; "destroyed": still in it
  roomKey,    \* the request a room in RoomManager was created for
  members,    \* room.players
  playerRoom  \* player.roomId

roomVars == <<roomState, roomKey, members, playerRoom>>

RoomStates == {"none", "active", "destroyed"}

RoomsInit ==
  /\ roomState = [r \in Room |-> "none"]
  /\ roomKey = [r \in Room |-> None]
  /\ members = [r \in Room |-> {}]
  /\ playerRoom = [p \in Player |-> None]
-------------------------------------------------------------------------------
(* Leaving rooms: detachPlayerFromCurrentRoom() for a set L of players.    *)
(*                                                                         *)
(* C is the set of the rooms they leave in which an onLeave hook throws:   *)
(* BaseRoom then destroys the room and turns everybody out.  A room left   *)
(* empty is removed from RoomManager if it is an autoDispose room; a room  *)
(* that crashed and is not stays there, destroyed.                         *)

RoomsLeft(L) == {playerRoom[p] : p \in L} \ {None}

Crashes(L) == IF HooksThrow THEN SUBSET RoomsLeft(L) ELSE {{}}

Departed(L, C) == L \cup UNION {members[r] : r \in C}

MembersAfter(L, C) == [r \in Room |-> members[r] \ Departed(L, C)]

\* A crash that forgets the roomId of those it turns out.
PlayerRoomStale(L, C) == [p \in Player |-> IF p \in L THEN None ELSE playerRoom[p]]

PlayerRoomAfter(L, C) ==
  [p \in Player |-> IF p \in Departed(L, C) THEN None ELSE playerRoom[p]]

Disposed(L, C) ==
  {r \in RoomsLeft(L) : MembersAfter(L, C)[r] = {} /\ roomKey[r] \in AutoDispose}

RoomStateAfter(L, C) ==
  [r \in Room |-> CASE r \in Disposed(L, C) -> "none"
                    [] r \in C \ Disposed(L, C) -> "destroyed"
                    [] OTHER -> roomState[r]]

RoomKeyAfter(L, C) ==
  [r \in Room |-> IF r \in Disposed(L, C) THEN None ELSE roomKey[r]]

Depart(L, C) ==
  /\ members' = MembersAfter(L, C)
  /\ playerRoom' = PlayerRoomAfter(L, C)
  /\ roomState' = RoomStateAfter(L, C)
  /\ roomKey' = RoomKeyAfter(L, C)

\* detachPlayerFromCurrentRoom(), which does nothing for a player in no room.
Detaches(p) == \E C \in Crashes({p}) : Depart({p}, C)

\* room.destroy() by a failing hook, with the room kept in RoomManager
\* (kept = TRUE) or removed from it by destroyRoom().
Destroy(r, kept) ==
  /\ members' = [members EXCEPT ![r] = {}]
  /\ playerRoom' = [p \in Player |-> IF playerRoom[p] = r THEN None ELSE playerRoom[p]]
  /\ roomState' = [roomState EXCEPT ![r] = IF kept THEN "destroyed" ELSE "none"]
  /\ roomKey' = [roomKey EXCEPT ![r] = IF kept THEN @ ELSE None]

\* A room for k is created and seats as many players as that, after all in L
\* have left the rooms they were in.  When onCreate or an onJoin throws, or nobody
\* could be seated, it is destroyed and removed again.
FormsRoom(L, seated, k) ==
  \E r \in Room, C \in Crashes(L) :
    /\ roomState[r] = "none"
    /\ IF seated = {}
       THEN Depart(L, C)
       ELSE /\ members' = [MembersAfter(L, C) EXCEPT ![r] = seated]
            /\ playerRoom' = [q \in Player |-> IF q \in seated THEN r
                                               ELSE PlayerRoomAfter(L, C)[q]]
            /\ roomState' = [RoomStateAfter(L, C) EXCEPT ![r] = "active"]
            /\ roomKey' = [RoomKeyAfter(L, C) EXCEPT ![r] = k]

Joinable(r) == roomState[r] = "active"

\* size > maxPlayers for size >= maxPlayers.
HasSeatLate(r) == Cardinality(members[r]) <= Capacity[roomKey[r]]

\* room.players.size >= maxPlayers after the players in L have left.
HasSeat(r) == Cardinality(members[r]) < Capacity[roomKey[r]]

\* A player that joins another room leaves its own first, whatever comes of it.
Leaves(p, r) == IF playerRoom[p] \in {None, r} THEN {} ELSE {p}

\* The end of a handleRoomJoin that is refused: r is full or destroyed.
JoinRefused(p, r) ==
  /\ roomState[r] # "none"
  /\ ~(Joinable(r) /\ HasSeat(r))
  /\ \E C \in Crashes(Leaves(p, r)) : Depart(Leaves(p, r), C)

\* p is seated.
Joins(p, r) ==
  LET L == Leaves(p, r) IN
  /\ Joinable(r) /\ HasSeat(r)
  /\ \E C \in Crashes(L) :
       /\ members' = [MembersAfter(L, C) EXCEPT ![r] = members[r] \cup {p}]
       /\ playerRoom' = [PlayerRoomAfter(L, C) EXCEPT ![p] = r]
       /\ roomState' = RoomStateAfter(L, C)
       /\ roomKey' = RoomKeyAfter(L, C)

\* onJoin throws: addPlayer() destroys r with everyone in it and returns false.
\* Nobody calls destroyRoom(): r stays in RoomManager.
JoinFails(p, r) ==
  LET L == Leaves(p, r) IN
  /\ HooksThrow
  /\ Joinable(r) /\ HasSeat(r)
  /\ \E C \in Crashes(L) :
       /\ members' = [MembersAfter(L, C) EXCEPT ![r] = {}]
       /\ playerRoom' = [q \in Player |-> IF q \in members[r] \cup {p} THEN None
                                          ELSE PlayerRoomAfter(L, C)[q]]
       /\ roomState' = [RoomStateAfter(L, C) EXCEPT ![r] = "destroyed"]
       /\ roomKey' = RoomKeyAfter(L, C)

\* RoomManager.clear()
Clears ==
  /\ members' = [r \in Room |-> {}]
  /\ playerRoom' = [p \in Player |-> None]
  /\ roomState' = [r \in Room |-> "none"]
  /\ roomKey' = [r \in Room |-> None]
-------------------------------------------------------------------------------
(* The rooms by themselves.                                                *)

\* Whom a room for k seats of a group L: all of it, or as many as there are
\* seats, or nobody if a hook throws.
Seatings(L, k) ==
  {S \in SUBSET L :
     \/ Cardinality(S) = IF Cardinality(L) < Capacity[k] THEN Cardinality(L) ELSE Capacity[k]
     \/ HooksThrow /\ S = {}}

\* A hook throws outside joins and leaves.  Only handleInput, of a realtime room,
\* removes the room.
Breaks(r, kept) ==
  /\ HooksThrow
  /\ roomState[r] = "active"
  /\ kept \/ roomKey[r] \in Realtime
  /\ Destroy(r, kept)

RoomsNext ==
  \/ \E p \in Player : \/ Detaches(p)
                        \/ \E r \in Room : JoinRefused(p, r) \/ Joins(p, r) \/ JoinFails(p, r)
  \/ \E L \in SUBSET Player, k \in Key : \E S \in Seatings(L, k) : FormsRoom(L, S, k)
  \/ \E r \in Room, kept \in BOOLEAN : Breaks(r, kept)
  \/ Clears

RoomsSpec == RoomsInit /\ [][RoomsNext]_roomVars
===============================================================================
