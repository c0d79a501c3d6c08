------------------------------- MODULE RoomHooks -------------------------------
(***************************************************************************)
(* Inside the handlers: the hooks of room classes, one call after the      *)
(* other, as core/room/base-room.ts, room-manager.ts and                   *)
(* public-room-runtime.ts make them, and the room facades that             *)
(* plugins/public-plugin-adapter.ts keeps for a plugin; and the gauges of   *)
(* server/runtime-metrics.ts that count rooms and players in rooms.         *)
(*                                                                         *)
(* A handler of the server is a list of calls, todo, that grows at its     *)
(* front as calls make calls of their own.  One step is one call, up to    *)
(* and including the one hook it runs, which returns or throws.  A new     *)
(* handler begins when the one before it has ended.  Module GameServer has *)
(* the same handlers as single steps, with sessions, timers and queues.    *)
(*                                                                         *)
(* A plugin is called right before the hook (onPlayerJoin, onPlayerLeave)  *)
(* and cannot disturb anything: PluginSystem.safeInvoke isolates it.  It   *)
(* sees the calls the room class sees.                                     *)
(***************************************************************************)
EXTENDS Integers, FiniteSets, SequencesExt

CONSTANTS
  Player, Room,
  None,         \* undefined
  Capacity,     \* [Room -> Nat]: maxPlayers of the room of that id
  AutoDispose,  \* subset of Room
  Realtime,     \* subset of Room: realtime rooms, else turn rooms
  HooksThrow,   \* may hooks throw?
  AsyncCreate,  \* may onCreate return a Promise?
  MaxGroup,     \* the largest requiredPlayers of a request
  MaxGauge      \* a bound: hooks fail, and members join again, only while
                \* activeRoomPlayers is below it

ASSUME KindAssumption ==
  /\ Capacity \in [Room -> Nat]
  /\ AutoDispose \subseteq Room /\ Realtime \subseteq Room
  /\ {HooksThrow, AsyncCreate} \subseteq BOOLEAN
  /\ None \notin Player \cup Room
  /\ MaxGroup \in Nat /\ MaxGauge \in Nat

VARIABLES
  state,       \* BaseRoom.state, "none" before there is a room
  managed,     \* the rooms in RoomManager
  members,     \* room.players
  playerRoom,  \* player.roomId
  created,     \* what became of onCreate
  inside,      \* the players a room class knows, as SampleRealtimeRoom does:
               \* joined and not left
  disposals,   \* how often onDispose was called
  facades,     \* roomAdapters of a public plugin
  activeRooms, activeRoomPlayers,  \* gauges of RuntimeMetrics
  down,        \* has shutdown() run?
  hook,        \* the hook the last step called: its name, room and player
  todo         \* the calls the running handler has still to make

seatVars == <<members, playerRoom>>
roomVars == <<state, managed, created>>
userVars == <<inside, disposals, facades, hook>>
gauges == <<activeRooms, activeRoomPlayers, down>>
vars == <<seatVars, roomVars, userVars, gauges, todo>>

Hooks == {"onCreate", "onJoin", "onLeave", "onMessage", "onDispose"}

Call(name, r, p) == [call |-> name, room |-> r, player |-> p]

RoomCalls == {"createRoom", "start", "autoDispose", "destroyRoom", "destroy",
              "evict", "onDestroy", "delete"}

Calls ==
  [call : RoomCalls, room : Room, player : {None}]
  \cup [call : {"detach"}, room : {None}, player : Player]
  \cup [call : {"addPlayer"}, room : Room, player : Player]

TypeOK ==
  /\ state \in [Room -> {"none", "active", "closing", "destroyed"}]
  /\ managed \subseteq Room
  /\ members \in [Room -> SUBSET Player]
  /\ playerRoom \in [Player -> Room \cup {None}]
  /\ created \in [Room -> {"no", "pending", "done"}]
  /\ inside \in [Room -> SUBSET Player]
  /\ disposals \in [Room -> 0..1]
  /\ facades \subseteq Room
  /\ activeRooms \in Nat /\ activeRoomPlayers \in Nat /\ down \in BOOLEAN
  /\ hook \in {<< >>} \cup (Hooks \X Room \X (Player \cup {None}))
  /\ todo \in Seq(Calls)

Init ==
  /\ state = [r \in Room |-> "none"]
  /\ managed = {}
  /\ members = [r \in Room |-> {}]
  /\ playerRoom = [p \in Player |-> None]
  /\ created = [r \in Room |-> "no"]
  /\ inside = [r \in Room |-> {}]
  /\ disposals = [r \in Room |-> 0]
  /\ facades = {}
  /\ activeRooms = 0 /\ activeRoomPlayers = 0
  /\ down = FALSE
  /\ hook = << >>
  /\ todo = << >>

\* The call to make now, and what is left of the handler.
Now(name) == todo # << >> /\ Head(todo).call = name
This == Head(todo)
Rest == Tail(todo)

MayFail == HooksThrow /\ activeRoomPlayers < MaxGauge
Throws == {FALSE, MayFail}

\* The host of a room class hands the hook on to it.
Hook(name, r, p) == hook' = <<name, r, p>>

\* A step that calls no hook and changes no more than the list of calls.
NothingElse == UNCHANGED <<seatVars, roomVars, inside, disposals, facades, gauges>>

\* Math.max(0, n - 1)
OneLess(n) == IF n = 0 THEN 0 ELSE n - 1

\* getRoom() of the plugin adapter: made when first asked for.
Facade(r) == facades' = facades \cup {r}
-------------------------------------------------------------------------------
(* The calls.                                                              *)

\* createRoom() up to onInit(), which is onCreate of the room class.  It may
\* return a Promise that nobody waits for.  safeRoomInvoke() reports a throw
\* to the plugins and destroys the room.
CreateRoom ==
  LET r == This.room IN
  /\ Now("createRoom")
  /\ state' = [state EXCEPT ![r] = "active"]
  /\ managed' = managed \cup {r}
  /\ disposals' = [disposals EXCEPT ![r] = 0]
  /\ Facade(r)
  /\ Hook("onCreate", r, None)
  /\ \/ /\ created' = [created EXCEPT ![r] = "done"]
        /\ \E t \in Throws : todo' = (IF t THEN <<Call("destroyRoom", r, None)>> ELSE << >>) \o Rest
     \/ /\ AsyncCreate
        /\ created' = [created EXCEPT ![r] = "pending"]
        /\ todo' = Rest
  /\ activeRooms' = activeRooms + 1
  /\ UNCHANGED <<seatVars, inside, activeRoomPlayers, down>>

\* detachPlayerFromCurrentRoom() of a player that is in no room.
DetachNobody ==
  /\ Now("detach")
  /\ playerRoom[This.player] = None
  /\ todo' = Rest
  /\ hook' = << >>
  /\ NothingElse

\* detachPlayerFromCurrentRoom(): queueRemovePlayer and processPendingRemovals,
\* with onLeave, then the end of the handler's part on an empty room.
Detach ==
  LET p == This.player
      r == playerRoom[p]
  IN
  /\ Now("detach")
  /\ r # None
  /\ playerRoom' = [playerRoom EXCEPT ![p] = None]
  /\ members' = [members EXCEPT ![r] = @ \ {p}]
  /\ inside' = [inside EXCEPT ![r] = @ \ {p}]
  /\ Facade(r)
  /\ Hook("onLeave", r, p)
  /\ \E t \in Throws :
       todo' = (IF t THEN <<Call("destroy", r, None)>> ELSE << >>)
               \o <<Call("autoDispose", r, None)>> \o Rest
  /\ UNCHANGED <<roomVars, disposals, gauges>>

\* The end of detachPlayerFromCurrentRoom(), which counts the leave.
AutoDisposes ==
  LET r == This.room IN
  /\ Now("autoDispose")
  /\ todo' = (IF members[r] = {} /\ r \in AutoDispose
              THEN <<Call("destroyRoom", r, None)>> ELSE << >>) \o Rest
  /\ hook' = << >>
  /\ activeRoomPlayers' = OneLess(activeRoomPlayers)
  /\ UNCHANGED <<seatVars, roomVars, inside, disposals, facades, activeRooms, down>>

\* size > maxPlayers for size >= maxPlayers.
AcceptsLate(r) == state[r] = "active" /\ Cardinality(members[r]) <= Capacity[r]

Accepts(r) == state[r] = "active" /\ Cardinality(members[r]) < Capacity[r]

\* addPlayer() returns false.
AddPlayerRefused ==
  /\ Now("addPlayer")
  /\ ~Accepts(This.room)
  /\ todo' = Rest
  /\ hook' = << >>
  /\ NothingElse

\* addPlayer(): also of a member, whose onJoin then runs again.  A join that did
\* not fail is counted by the handlers, that of a member once more.
AddPlayer ==
  LET p == This.player
      r == This.room
  IN
  /\ Now("addPlayer")
  /\ Accepts(r)
  /\ playerRoom' = [playerRoom EXCEPT ![p] = r]
  /\ members' = [members EXCEPT ![r] = @ \cup {p}]
  /\ inside' = [inside EXCEPT ![r] = @ \cup {p}]
  /\ Facade(r)
  /\ Hook("onJoin", r, p)
  /\ \E t \in Throws :
       /\ todo' = (IF t THEN <<Call("destroy", r, None)>> ELSE << >>) \o Rest
       /\ activeRoomPlayers' = IF t THEN activeRoomPlayers ELSE activeRoomPlayers + 1
  /\ UNCHANGED <<roomVars, disposals, activeRooms, down>>

\* The end of handleMatchJoin(): start the room if somebody is in it.
StartRoom ==
  LET r == This.room IN
  /\ Now("start")
  /\ todo' = (IF members[r] = {} THEN <<Call("destroyRoom", r, None)>> ELSE << >>) \o Rest
  /\ hook' = << >>
  /\ NothingElse

\* A destroyRoom() that counts a room that is not there any more.
KnowsAny(r) == TRUE

Knows(r) == r \in managed

\* destroyRoom(): RoomManager.removeRoom() destroys the room and deletes it.
DestroyRoom ==
  LET r == This.room IN
  /\ Now("destroyRoom")
  /\ IF Knows(r)
     THEN /\ activeRooms' = OneLess(activeRooms)
          /\ todo' = <<Call("destroy", r, None), Call("delete", r, None)>> \o Rest
     ELSE /\ UNCHANGED activeRooms
          /\ todo' = Rest
  /\ hook' = << >>
  /\ UNCHANGED <<seatVars, roomVars, inside, disposals, facades, activeRoomPlayers, down>>

\* A destroy() that does not look at the state of the room.
MayDestroyAlways(r) == TRUE

MayDestroy(r) == state[r] = "active"

\* destroy() up to its loop over the players.
Destroy ==
  LET r == This.room IN
  /\ Now("destroy")
  /\ IF MayDestroy(r)
     THEN /\ state' = [state EXCEPT ![r] = "closing"]
          /\ todo' = <<Call("evict", r, None)>> \o Rest
     ELSE /\ UNCHANGED state
          /\ todo' = Rest
  /\ hook' = << >>
  /\ UNCHANGED <<seatVars, managed, created, inside, disposals, facades, gauges>>

\* Those destroy() has still to take leave of.  Until all are gone, room.players
\* holds everyone.
Staying(r) == {p \in members[r] : playerRoom[p] = r}

\* A loop that ends with the first hook that throws.
AfterEvictStops(r, throws) ==
  IF throws THEN <<Call("onDestroy", r, None)>> \o Rest ELSE todo

\* If onLeave throws, safeInvoke() calls destroy(), which returns at once, and
\* the loop goes on.
AfterEvict(r, throws) ==
  (IF throws THEN <<Call("destroy", r, None)>> ELSE << >>) \o todo

\* One turn of the loop of destroy().
Evict ==
  LET r == This.room IN
  /\ Now("evict")
  /\ \E p \in Staying(r) :
       /\ playerRoom' = [playerRoom EXCEPT ![p] = None]
       /\ inside' = [inside EXCEPT ![r] = @ \ {p}]
       /\ Hook("onLeave", r, p)
       /\ \E t \in Throws : todo' = AfterEvict(r, t)
  /\ Facade(r)
  /\ UNCHANGED <<members, roomVars, disposals, gauges>>

\* players.clear()
EvictEnds ==
  LET r == This.room IN
  /\ Now("evict")
  /\ Staying(r) = {}
  /\ members' = [members EXCEPT ![r] = {}]
  /\ todo' = <<Call("onDestroy", r, None)>> \o Rest
  /\ hook' = << >>
  /\ UNCHANGED <<playerRoom, roomVars, inside, disposals, facades, gauges>>

\* An adapter that deletes the facade before it hands it to onRoomDispose.
FacadeKept(r) == facades' = (facades \ {r}) \cup {r}

\* onRoomDestroy of the adapter, for a plugin whose onRoomDispose returns.
FacadeFreed(r) == facades' = facades \ {r}

\* The end of destroy(): onDispose, which may throw for all it matters, and the
\* plugins are told.
OnDestroy ==
  LET r == This.room IN
  /\ Now("onDestroy")
  /\ state' = [state EXCEPT ![r] = "destroyed"]
  /\ disposals' = [disposals EXCEPT ![r] = @ + 1]
  /\ FacadeFreed(r)
  /\ Hook("onDispose", r, None)
  /\ todo' = Rest
  /\ UNCHANGED <<seatVars, managed, created, inside, gauges>>

\* rooms.delete() of RoomManager.
Delete ==
  /\ Now("delete")
  /\ managed' = managed \ {This.room}
  /\ todo' = Rest
  /\ hook' = << >>
  /\ UNCHANGED <<seatVars, state, created, inside, disposals, facades, gauges>>

Step ==
  \/ CreateRoom \/ DetachNobody \/ Detach \/ AutoDisposes
  \/ AddPlayerRefused \/ AddPlayer \/ StartRoom
  \/ DestroyRoom \/ Destroy \/ Evict \/ EvictEnds \/ OnDestroy \/ Delete
-------------------------------------------------------------------------------
(* The handlers, and what else may happen between two of them.             *)

Runs(calls) ==
  /\ todo = << >>
  /\ todo' = calls
  /\ hook' = << >>
  /\ UNCHANGED <<seatVars, roomVars, inside, disposals, facades>>

\* handleRoomLeave, the first step of handleMatchJoin, finalizePlayerDisconnect.
Leave(p) == playerRoom[p] # None /\ Runs(<<Call("detach", None, p)>>) /\ UNCHANGED gauges

\* A handleRoomJoin that leaves the old room when it is in the new one.
JoinThenLeave(p, r) == <<Call("addPlayer", r, p), Call("detach", None, p)>>

\* The calls of handleRoomJoin.
JoinCalls(p, r) ==
  (IF playerRoom[p] \in {None, r} THEN << >> ELSE <<Call("detach", None, p)>>)
  \o <<Call("addPlayer", r, p)>>

\* handleRoomJoin
Join(p, r) ==
  /\ r \in managed
  /\ playerRoom[p] = r => activeRoomPlayers < MaxGauge
  /\ Runs(JoinCalls(p, r))
  /\ UNCHANGED gauges

\* The loop of handleMatchJoin over the group: each player leaves the room it is
\* in, then takes its seat.
SeatCalls(group, r) ==
  [i \in 1..(2 * Len(group)) |->
     LET p == group[(i + 1) \div 2] IN
     IF i % 2 = 1 THEN Call("detach", None, p) ELSE Call("addPlayer", r, p)]

\* handleMatchJoin for a complete group: a room, a seat for each, start.
Match(group, r) ==
  /\ r \notin managed
  /\ Runs(<<Call("createRoom", r, None)>> \o SeatCalls(group, r)
          \o <<Call("start", r, None)>>)
  /\ UNCHANGED gauges

\* handleInput: onInput of a realtime room hands the input to onMessage.  If it
\* throws, safeRoomInvoke() tells the plugins, destroys the room and removes it.
Message(p) ==
  LET r == playerRoom[p] IN
  /\ todo = << >>
  /\ r \in Realtime
  /\ Hook("onMessage", r, p)
  /\ \/ UNCHANGED <<todo, facades>>
     \/ /\ MayFail
        /\ todo' = <<Call("destroyRoom", r, None)>>
        /\ Facade(r)
  /\ UNCHANGED <<seatVars, roomVars, inside, disposals, gauges>>

\* processAction of the turn engine: onTurn hands the action to onMessage.  If it
\* throws, the room is destroyed, and stays in RoomManager.
TurnMessage(p) ==
  LET r == playerRoom[p] IN
  /\ todo = << >>
  /\ r \in Room \ Realtime
  /\ Hook("onMessage", r, p)
  /\ \/ UNCHANGED todo
     \/ MayFail /\ todo' = <<Call("destroy", r, None)>>
  /\ UNCHANGED <<seatVars, roomVars, inside, disposals, facades, gauges>>

\* A tick throws in RealtimeEngine.step.
TickThrows(r) ==
  /\ MayFail
  /\ r \in Realtime
  /\ state[r] = "active"
  /\ Runs(<<Call("destroy", r, None)>>)
  /\ UNCHANGED gauges

\* The Promise of onCreate settles; a rejection is written to the console.
CreateSettles(r) ==
  /\ todo = << >>
  /\ created[r] = "pending"
  /\ created' = [created EXCEPT ![r] = "done"]
  /\ hook' = << >>
  /\ UNCHANGED <<seatVars, state, managed, inside, disposals, facades, gauges, todo>>

\* RoomManager.clear(), in shutdown().  No metric is told.
Clear ==
  /\ ~down
  /\ down' = TRUE
  /\ LET rooms == SetToSeq(managed) IN
     Runs([i \in DOMAIN rooms |-> Call("destroy", rooms[i], None)]
          \o [i \in DOMAIN rooms |-> Call("delete", rooms[i], None)])
  /\ UNCHANGED <<activeRooms, activeRoomPlayers>>

\* The groups that the matchmaker may return.
Groups == UNION {[1..n -> Player] : n \in 1..MaxGroup}

Next ==
  \/ Step
  \/ \E p \in Player : Leave(p) \/ Message(p) \/ TurnMessage(p) \/ \E r \in Room : Join(p, r)
  \/ \E r \in Room : TickThrows(r) \/ CreateSettles(r)
  \/ \E group \in Groups, r \in Room : IsInjective(group) /\ Match(group, r)
  \/ Clear

Spec == Init /\ [][Next]_vars

\* A handler that has begun runs to its end.
Fairness == WF_vars(Step)

FairSpec == Spec /\ Fairness
-------------------------------------------------------------------------------
\* The hooks of a room come in the order its documentation promises (call order
\* guarantees of docs/api/room-lifecycle.md), whichever of them throw: nobody
\* joins a room, or a second one, before it has left the other; everyone who is
\* taken leave of or heard is inside; onDispose is called once, when everyone
\* has been taken leave of.
HooksInOrder ==
  [][\A r \in Room, p \in Player :
       /\ hook' = <<"onJoin", r, p>> =>
            disposals[r] = 0 /\ \A q \in Room \ {r} : p \notin inside[q]
       /\ hook' = <<"onLeave", r, p>> => disposals[r] = 0 /\ p \in inside[r]
       /\ hook' = <<"onMessage", r, p>> => disposals[r] = 0 /\ p \in inside[r]
       /\ hook' = <<"onDispose", r, None>> => disposals[r] = 0 /\ inside[r] = {}]_vars

\* When a handler has ended, the class of a room knows exactly the players the
\* server has in it, and a room that is gone has been disposed of: no onLeave
\* and no onDispose is lost when a hook throws in the middle.
NobodyForgotten ==
  todo = << >> => \A r \in Room :
    /\ inside[r] = members[r]
    /\ disposals[r] = IF state[r] = "destroyed" THEN 1 ELSE 0
    /\ state[r] \in {"none", "active", "destroyed"}

\* A plugin has one facade for each room that is open and keeps none of a room
\* that is gone, if its onRoomDispose returns.
FacadesFollowRooms ==
  todo = << >> => facades = {r \in Room : state[r] = "active"}

\* The gauges may stay too high, of players when a member joins again or a room
\* is destroyed around its members, of rooms when the server has shut down; they
\* are never too low.  activeRooms is exact until then, whichever hooks throw.
GaugesCoverRooms ==
  todo = << >> =>
    /\ activeRoomPlayers >= Cardinality({rp \in Room \X Player : rp[2] \in members[rp[1]]})
    /\ activeRooms >= Cardinality(managed)
    /\ ~down => activeRooms = Cardinality(managed)

\* What BaseRoom.state says of the phase of a room.
Phase ==
  [r \in Room |-> CASE state[r] = "active" -> "open"
                    [] state[r] = "closing" -> "closing"
                    [] OTHER -> "closed"]

Plan == INSTANCE Seating WITH phase <- Phase, seat <- playerRoom

\* The calls of a handler, each at a time, keep to the seating plan; a
\* destroy() that has begun ends.
SeatingKept == Plan!Spec

\* "Happens before player-specific lifecycle work" (docs/api/room-lifecycle.md
\* of onCreate, which may return a Promise): onCreate has ended when the first
\* player joins.
CreatedBeforeJoin ==
  [][\A r \in Room, p \in Player : hook' = <<"onJoin", r, p>> => created[r] = "done"]_vars
===============================================================================
