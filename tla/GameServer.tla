------------------------------ MODULE GameServer ------------------------------
(***************************************************************************)
(* The server's orchestration of sessions, players, matchmaking and rooms  *)
(* (core/server/internal-server.ts); what its handlers do to rooms is in    *)
(* module Rooms.                                                            *)
(*                                                                         *)
(* Node runs one handler at a time to its end, so a packet, a socket event *)
(* or a timer is one atomic step; what interleaves is the order of these   *)
(* events.  Each action is one whole handler.  User code (the hooks of a   *)
(* room) is modelled by the only thing of it that this state can see: a    *)
(* hook returns or throws.                                                 *)
(*                                                                         *)
(* An id (of a session, a player, a room) is fresh when nothing refers to  *)
(* it, so that the finite sets of ids can be used again and again where    *)
(* the code draws a new UUID.                                              *)
(***************************************************************************)
EXTENDS Rooms, MatchQueue

CONSTANTS
  Session, Token,  \* a pool of ids, and the tokens of clients
  Required,        \* [Key -> Nat]: players needed for a match
  ReAuth,          \* may a client send AUTH a second time?
  SharedToken,     \* may it use the token of a live session?
  MayShutdown      \* may shutdown() be called?

ASSUME NoneAssumption ==
  None \notin Session \cup Player \cup Token \cup Room \cup Key

ASSUME ParameterAssumption ==
  /\ Required \in [Key -> Nat]
  /\ Capacity \in [Key -> Nat]
  /\ AutoDispose \subseteq Key
  /\ Realtime \subseteq Key
  /\ {HooksThrow, ReAuth, SharedToken, MayShutdown} \subseteq BOOLEAN

VARIABLES
  sessions,       \* the ids in GameServer.sessions
  sessionPlayer,  \* session.playerId; defined iff session.isAuthenticated
  players,        \* the ids in GameServer.players
  playerSession,  \* player.sessionId, None when it no longer names a session
  tokenOf,        \* reconnectTokenByPlayerId
  pending,        \* pendingReconnectByToken, the playerId of each entry
  timers,         \* players for whom a grace timer is armed
  queues,         \* Matchmaker.queues
  down            \* shutdown() has been called

clientVars == <<sessions, sessionPlayer, playerSession>>
identityVars == <<players, tokenOf, pending, timers>>
vars == <<clientVars, identityVars, queues, roomVars, down>>

TypeOK ==
  /\ sessions \subseteq Session
  /\ sessionPlayer \in [Session -> Player \cup {None}]
  /\ players \subseteq Player
  /\ playerSession \in [Player -> Session \cup {None}]
  /\ playerRoom \in [Player -> Room \cup {None}]
  /\ tokenOf \in [Player -> Token \cup {None}]
  /\ pending \in [Token -> Player \cup {None}]
  /\ timers \subseteq Player
  /\ queues \in [Key -> Seq(Player)]
  /\ roomState \in [Room -> RoomStates]
  /\ roomKey \in [Room -> Key \cup {None}]
  /\ members \in [Room -> SUBSET Player]
  /\ down \in BOOLEAN

Init ==
  /\ sessions = {}
  /\ sessionPlayer = [s \in Session |-> None]
  /\ players = {}
  /\ playerSession = [p \in Player |-> None]
  /\ tokenOf = [p \in Player |-> None]
  /\ pending = [t \in Token |-> None]
  /\ timers = {}
  /\ queues = [k \in Key |-> << >>]
  /\ RoomsInit
  /\ down = FALSE
-------------------------------------------------------------------------------
(* Connections and identities.                                             *)

\* onConnect: the transport announces a session; shutdown() stops listening.
Connect(s) ==
  /\ ~down
  /\ s \notin sessions
  /\ sessions' = sessions \cup {s}
  /\ UNCHANGED <<sessionPlayer, playerSession, identityVars, queues, roomVars, down>>

\* The client a player's identity answers to is on line.
Bound(p) == \E s \in sessions : sessionPlayer[s] = p

\* What clients do: AUTH once per session, unless ReAuth; a token used by one
\* live session at a time, unless SharedToken.
ClientSends(s, t) ==
  /\ ReAuth \/ sessionPlayer[s] = None
  /\ SharedToken \/ t = None \/ \A p \in players : tokenOf[p] = t => ~Bound(p)

Fresh(p) == p \notin players

\* A handleAuth that does not clearTimeout() the grace timer.
ClearedNever(known) == timers

Cleared(known) == timers \ {known}

\* A handleAuth that always creates a player.
ResumesNever(known) == FALSE

Resumes(known) == known \in players

\* handleAuth with token t, or with none.  The grace timer of a pending entry
\* is cleared; its player, if there still is one, is bound to this session,
\* otherwise a player is created.
Auth(s, t) ==
  LET known == IF t = None THEN None ELSE pending[t] IN
  /\ s \in sessions
  /\ ClientSends(s, t)
  /\ timers' = Cleared(known)
  /\ pending' = IF t = None THEN pending ELSE [pending EXCEPT ![t] = None]
  /\ \E p \in Player :
       /\ IF Resumes(known) THEN p = known ELSE Fresh(p)
       /\ players' = players \cup {p}
       /\ sessionPlayer' = [sessionPlayer EXCEPT ![s] = p]
       /\ playerSession' = [playerSession EXCEPT ![p] = s]
       /\ tokenOf' = [tokenOf EXCEPT ![p] = t]
  /\ UNCHANGED <<sessions, queues, roomVars, down>>

\* A finalizePlayerDisconnect that forgets pendingReconnectByToken.
UnregisteredNot(p) == pending

Unregistered(p) ==
  IF tokenOf[p] = None THEN pending ELSE [pending EXCEPT ![tokenOf[p]] = None]

\* finalizePlayerDisconnect: p leaves the queue, the room and the server.
Finalize(p) ==
  /\ queues' = Cancel(queues, p)
  /\ Detaches(p)
  /\ players' = players \ {p}
  /\ tokenOf' = [tokenOf EXCEPT ![p] = None]
  /\ pending' = Unregistered(p)

\* A pending entry whose timer was never started.
ArmedNever(p) == timers

Armed(p) == timers \cup {p}

\* onDisconnect: the player of a client with a token is kept for a while, and
\* its grace timer armed; any other player is finalized at once.
Disconnect(s) ==
  LET p == sessionPlayer[s] IN
  /\ s \in sessions
  /\ sessions' = sessions \ {s}
  /\ sessionPlayer' = [sessionPlayer EXCEPT ![s] = None]
  /\ playerSession' = [q \in Player |-> IF playerSession[q] = s THEN None ELSE playerSession[q]]
  /\ \/ /\ p \notin players
        /\ UNCHANGED <<identityVars, queues, roomVars>>
     \/ /\ p \in players
        /\ tokenOf[p] # None
        /\ timers' = Armed(p)
        /\ pending' = [pending EXCEPT ![tokenOf[p]] = p]
        /\ UNCHANGED <<players, tokenOf, queues, roomVars>>
     \/ /\ p \in players
        /\ tokenOf[p] = None
        /\ Finalize(p)
        /\ UNCHANGED timers
  /\ UNCHANGED down

\* The setTimeout callback of onDisconnect.
GraceExpires(p) ==
  /\ p \in timers
  /\ timers' = timers \ {p}
  /\ IF p \in players
     THEN Finalize(p)
     ELSE UNCHANGED <<queues, roomVars, players, tokenOf, pending>>
  /\ playerSession' = [playerSession EXCEPT ![p] = None]
  /\ UNCHANGED <<sessions, sessionPlayer, down>>
-------------------------------------------------------------------------------
(* Matchmaking.  The three actions are the three ways handleMatchJoin of   *)
(* the player p of session s for the key k can end.                        *)

Acting(s) == s \in sessions /\ sessionPlayer[s] \in players

\* The queue for k with the request of p at its end.
QueueFor(p, k) == Enqueued(queues, p, k)[k]

\* The queues when the group for k has been spliced off.
QueuesAfterMatch(p, k) ==
  [Enqueued(queues, p, k) EXCEPT ![k] = Rest(QueueFor(p, k), Required[k])]

\* for (i in group) where for (player of group) is meant.
SeatedIndices(group, k) == {i \in DOMAIN group : i <= Capacity[k]}

\* The last of the group are served first.
SeatedLast(group, k) ==
  {group[i] : i \in {j \in DOMAIN group : j > Len(group) - Capacity[k]}}

\* The first of the group fill the room; addPlayer() refuses the others.
Seated(group, k) ==
  {group[i] : i \in {j \in DOMAIN group : j <= Capacity[k]}}

\* Too few players: p leaves its room and waits.
MatchWait(s, k) ==
  LET p == sessionPlayer[s] IN
  /\ Acting(s)
  /\ ~Ready(QueueFor(p, k), Required[k])
  /\ queues' = Enqueued(queues, p, k)
  /\ Detaches(p)
  /\ UNCHANGED <<clientVars, identityVars, down>>

\* A group is complete and a room r is created for it: the whole group leaves
\* the rooms it is in and the first of it are seated in r.  When onCreate or an
\* onJoin throws, or nobody could be seated, r is destroyed and removed again.
MatchForm(s, k) ==
  LET p     == sessionPlayer[s]
      group == Group(QueueFor(p, k), Required[k])
      L     == {p} \cup Waiting(group)
  IN
  /\ Acting(s)
  /\ Ready(QueueFor(p, k), Required[k])
  /\ queues' = QueuesAfterMatch(p, k)
  /\ \E fails \in {FALSE, HooksThrow} :
       FormsRoom(L, IF fails THEN {} ELSE Seated(group, k), k)
  /\ UNCHANGED <<clientVars, identityVars, down>>

\* A group is complete but the constructor of the room throws: p has left its
\* room, the group has left the queue, and onPacket catches the error.
MatchLost(s, k) ==
  LET p == sessionPlayer[s] IN
  /\ HooksThrow
  /\ Acting(s)
  /\ Ready(QueueFor(p, k), Required[k])
  /\ queues' = QueuesAfterMatch(p, k)
  /\ Detaches(p)
  /\ UNCHANGED <<clientVars, identityVars, down>>

\* handleMatchCancel
MatchCancel(s) ==
  /\ s \in sessions
  /\ sessionPlayer[s] # None
  /\ queues' = Cancel(queues, sessionPlayer[s])
  /\ UNCHANGED <<clientVars, identityVars, roomVars, down>>
-------------------------------------------------------------------------------
(* Rooms.                                                                  *)

\* handleRoomJoin, with its three ends.
RoomJoinRefused(s, r) ==
  /\ Acting(s)
  /\ JoinRefused(sessionPlayer[s], r)
  /\ UNCHANGED <<clientVars, identityVars, queues, down>>

RoomJoin(s, r) ==
  /\ Acting(s)
  /\ Joins(sessionPlayer[s], r)
  /\ UNCHANGED <<clientVars, identityVars, queues, down>>

RoomJoinFails(s, r) ==
  /\ Acting(s)
  /\ JoinFails(sessionPlayer[s], r)
  /\ UNCHANGED <<clientVars, identityVars, queues, down>>

\* handleRoomLeave
RoomLeave(s) ==
  LET p == sessionPlayer[s] IN
  /\ Acting(s)
  /\ playerRoom[p] # None
  /\ Detaches(p)
  /\ UNCHANGED <<clientVars, identityVars, queues, down>>

\* A tick throws: RealtimeEngine.step destroys the room and stops.
TickFails(r) ==
  /\ HooksThrow
  /\ roomState[r] = "active"
  /\ roomKey[r] \in Realtime
  /\ Destroy(r, TRUE)
  /\ UNCHANGED <<clientVars, identityVars, queues, down>>

\* onInput throws in handleInput: safeRoomInvoke calls destroyRoom().
InputFails(s) ==
  /\ HooksThrow
  /\ Acting(s)
  /\ LET r == playerRoom[sessionPlayer[s]] IN
       /\ r # None
       /\ roomKey[r] \in Realtime
       /\ Destroy(r, FALSE)
  /\ UNCHANGED <<clientVars, identityVars, queues, down>>

\* onTurn throws in TurnEngine.processAction, which destroys the room.  Whose
\* turn it is belongs to module TurnRoom; here any member may hold it.
TurnFails(s) ==
  /\ HooksThrow
  /\ Acting(s)
  /\ LET r == playerRoom[sessionPlayer[s]] IN
       /\ r # None
       /\ roomKey[r] \notin Realtime
       /\ Destroy(r, TRUE)
  /\ UNCHANGED <<clientVars, identityVars, queues, down>>
-------------------------------------------------------------------------------
\* shutdown() up to its first await: the timers of the pending entries are
\* cleared and every room is destroyed.  Sessions, players and queues stay;
\* the transport then closes the sockets, and until each of them is closed its
\* packets are still handled (the actions above), and so is its close event.
Shutdown ==
  /\ MayShutdown
  /\ ~down
  /\ down' = TRUE
  /\ timers' = timers \ {pending[t] : t \in Token}
  /\ pending' = [t \in Token |-> None]
  /\ Clears
  /\ UNCHANGED <<clientVars, players, tokenOf, queues>>

Packet(s) ==
  \/ \E t \in Token \cup {None} : Auth(s, t)
  \/ \E k \in Key : MatchWait(s, k) \/ MatchForm(s, k) \/ MatchLost(s, k)
  \/ MatchCancel(s)
  \/ \E r \in Room : RoomJoin(s, r) \/ RoomJoinRefused(s, r) \/ RoomJoinFails(s, r)
  \/ RoomLeave(s) \/ InputFails(s) \/ TurnFails(s)

Next ==
  \/ \E s \in Session : Connect(s) \/ Disconnect(s) \/ Packet(s)
  \/ \E p \in Player : GraceExpires(p)
  \/ \E r \in Room : TickFails(r)
  \/ Shutdown

Spec == Init /\ [][Next]_vars

\* A timer that Node has armed fires unless it is cleared.
Fairness == \A p \in Player : WF_vars(GraceExpires(p))

FairSpec == Spec /\ Fairness
-------------------------------------------------------------------------------
(* What the server promises, whatever clients, sockets, timers and hooks   *)
(* do.                                                                     *)

\* "A player can exist in exactly one active room at a time"
\* (docs/architecture.md), and the two records of it, player.roomId and
\* room.players, never disagree: not after a hook has thrown in the middle of
\* a migration, not after a crash or a shutdown.
Membership ==
  /\ \A r \in Room, p \in Player : p \in members[r] <=> playerRoom[p] = r
  /\ \A r \in Room : roomState[r] # "active" => members[r] = {}
  /\ \A r \in Room : members[r] \subseteq players

\* No room holds more than maxPlayers, by whichever way they came in, and an
\* empty autoDispose room does not outlive the handler that emptied it.
RoomOccupancy ==
  \A r \in Room : roomState[r] = "active" =>
    /\ Cardinality(members[r]) <= Capacity[roomKey[r]]
    /\ roomKey[r] \in AutoDispose => members[r] # {}

\* Matchmaking is left consistent by disconnects, finalizations and matches: a
\* player the server no longer knows waits nowhere, nobody waits twice, and no
\* queue holds a complete group.
QueueSound ==
  /\ \A k \in Key : Waiting(queues[k]) \subseteq players
  /\ \A k1, k2 \in Key : \A i \in DOMAIN queues[k1], j \in DOMAIN queues[k2] :
       queues[k1][i] = queues[k2][j] => k1 = k2 /\ i = j
  /\ \A k \in Key : Required[k] > 0 => Len(queues[k]) < Required[k]

\* A connected, authenticated client acts as a player that exists, that sends
\* to it and to nobody else, and that no grace timer is about to remove.
SessionBinding ==
  \A s \in Session : sessionPlayer[s] # None =>
    /\ s \in sessions
    /\ sessionPlayer[s] \in players \ timers
    /\ playerSession[sessionPlayer[s]] = s

\* A pending reconnect can be honoured: its player still exists, is waited for
\* by an armed timer and is registered under that token (the branch of
\* handleAuth for a pending entry without its player is never taken).
PendingSound ==
  /\ \A t \in Token : pending[t] # None =>
       /\ pending[t] \in timers
       /\ tokenOf[pending[t]] = t
  /\ timers \subseteq {p \in players : tokenOf[p] # None}

\* When a match for k seats somebody who was waiting for it, everyone who was
\* ahead in that queue is seated with them: "FIFO within each queue key"
\* (docs/api/matchmaking.md), also when the room is smaller than the group.
FirstComeFirstSeated ==
  [][\A k \in Key : \A i, j \in DOMAIN queues[k] :
       LET a == queues[k][i]
           b == queues[k][j]
       IN  /\ i < j
           /\ b \notin Waiting(queues'[k])
           /\ playerRoom'[b] \notin {None, playerRoom[b]}
           /\ roomKey'[playerRoom'[b]] = k
           => playerRoom'[a] = playerRoom'[b]]_vars

\* Reconnecting "restores playerId and previous roomId"
\* (docs/guides/reconnect-handling.md): a step that takes a player out of its
\* grace period leaves it its seat and its place in the queues, or removes it
\* from the server altogether.
ReconnectRestores ==
  [][\A p \in timers : p \notin timers' /\ ~down' =>
       \/ /\ p \in players'
          /\ playerRoom'[p] = playerRoom[p]
          /\ queues' = queues
          /\ \E s \in sessions : sessionPlayer'[s] = p /\ playerSession'[p] = s
       \/ /\ p \notin players'
          /\ playerRoom'[p] = None
          /\ \A k \in Key : p \notin Waiting(queues'[k])]_vars
-------------------------------------------------------------------------------
(* What it promises only to clients, hooks or operators that behave.       *)

\* RoomManager holds active rooms only, as "Room create/destroy leaves no stale
\* references" (PLAN.md) asks for.  A hook that throws destroys its room and
\* leaves it there, unless the caller looks at what has become of the room.
NoZombieRooms == \A r \in Room : roomState[r] # "destroyed"

\* Holds if no client authenticates twice and shutdown() is not called: every
\* player is either on line or about to be finalized, as "if reconnect does not
\* happen in time" (docs/guides/reconnect-handling.md) it must be.
NoGhostPlayers == \A p \in players : Bound(p) \/ p \in timers

\* Holds if no two live sessions use the same token: as long as the grace
\* timer of a player runs, its token restores it, "if the grace window is
\* still open" (docs/guides/reconnect-handling.md).
GraceWindowHonoured == \A p \in timers : pending[tokenOf[p]] = p

\* When shutdown() has run and the last socket is closed, no room is open and
\* no timer armed: "Stop the server and dispose runtime resources"
\* (docs/api/gameserver.md), "without hanging rooms" (PLAN.md).
CleanShutdown ==
  down /\ sessions = {} => /\ timers = {}
                           /\ \A r \in Room : roomState[r] = "none"

\* A player that goes off line does not hold its seat and its place in a queue
\* for ever: it comes back or it is removed.
OfflineResolved ==
  \A p \in Player : (p \in players /\ ~Bound(p)) ~> (p \notin players \/ Bound(p))
===============================================================================
