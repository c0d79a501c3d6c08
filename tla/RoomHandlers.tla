----------------------------- MODULE RoomHandlers ------------------------------
(***************************************************************************)
(* RoomHooks with a history variable: what the rooms were like when the    *)
(* running handler began.  Nothing runs between two calls of a handler, so *)
(* that a client that asks before or after it never sees them otherwise;   *)
(* looked at like this, every handler is one step of module Rooms, whose   *)
(* operators GameServer is built from.                                     *)
(***************************************************************************)
EXTENDS RoomHooks

VARIABLE was  \* the rooms as the running handler has found them

\* RoomManager and BaseRoom.state as Rooms has them.  A room of RoomHooks is asked
\* for by its own name.
RoomsNow ==
  [state   |-> [r \in Room |-> CASE r \notin managed -> "none"
                                 [] r \in managed /\ state[r] = "active" -> "active"
                                 [] OTHER -> "destroyed"],
   key     |-> [r \in Room |-> IF r \in managed THEN r ELSE None],
   members |-> members,
   seat    |-> playerRoom]

Seen == IF todo = << >> THEN RoomsNow ELSE was

HandlersInit == Init /\ was = RoomsNow

HandlersNext == Next /\ was' = Seen

HandlersSpec == HandlersInit /\ [][HandlersNext]_<<vars, was>>

HandlersFairSpec == HandlersSpec /\ Fairness

Whole == INSTANCE Rooms WITH
  Key <- Room, roomState <- Seen.state, roomKey <- Seen.key,
  members <- Seen.members, playerRoom <- Seen.seat

\* Whichever hooks of a handler throw, and however often, the handler as a whole
\* leaves rooms and seats as one of the steps of Rooms does: in no mixture of
\* outcomes, with no room half destroyed and nobody half seated.
HandlersAreWhole == Whole!RoomsSpec
===============================================================================
