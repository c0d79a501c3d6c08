# Verification of the multiplayer game server

TLA+ models of the single-process game server under `src/src/`, the TLC runs
that check them on small instances, and proofs, checked by TLAPS, that hold for
any number of sessions, players, rooms and keys.

The server is one Node.js process. A packet, a socket event or a timer callback
runs to its end before the next begins (the only `await` between two changes of
state is in `shutdown()`), so nothing is lost to data races. What is hard is the
*order* of these events, and user code: the hooks of a room may throw in the
middle of any handler. In `GameServer` each action is one whole handler; `RoomHooks`
looks inside the handlers, one hook call at a time, and `RoomHandlers` shows that the
two say the same of rooms and seats; `Gateway` looks at the edge of the server, where
sockets, timers and the clock are.

## 1. Inventory

| Part | State it keeps | Operations | Interacts with |
|---|---|---|---|
| **Server** `core/server/internal-server.ts` | sessions, players, player of a session, pending reconnects by token, token of a player, engines and autoDispose flag by room | onConnect, onDisconnect, grace timer, AUTH, MATCH_JOIN, MATCH_CANCEL, ROOM_JOIN, ROOM_LEAVE, INPUT, TURN_ACTION, shutdown | everything below |
| **Matchmaker** `core/matchmaking/matchmaker.ts` | one queue for each mode:type:required:max | enqueue, cancel | called by MATCH_JOIN, MATCH_CANCEL, finalize |
| **BaseRoom, RoomManager** `core/room/base-room.ts`, `room-manager.ts` | members, state active/closing/destroyed, rooms by id | addPlayer, removals, destroy; createRoom, removeRoom, clear | calls hooks of user code and plugins; `player.roomId` |
| **Realtime engine** `core/engine/realtime-engine.ts`, `room/internal-room.ts` | running, timer, accumulator; started | start, stop, loop, step | timers of Node, `Date.now()`, ticks of the room |
| **Turn engine** `core/engine/turn-engine.ts`, `room/turn-room.ts` | currentTurnPlayerId | processAction, join and leave hooks | members of the room |
| **Realtime room** `room/realtime-room.ts` | tick count, input buffers | tick, onInput | engine, rate limiter |
| **Rate limiter, input buffer** `server/rate-limiter.ts` | window of each player | allowWithinRate | INPUT |
| **WebSocket transport** `core/transport/*` | sockets, lastPing, heartbeat timer | message, close, send, disconnect, heartbeat, close | emits onConnect/onPacket/onDisconnect |
| **Plugins** `core/plugins/*` | room adapters | hooks, isolated one by one | server, rooms |
| **Metrics, telemetry** | counters | increments | server |
| **Public API, sample rooms, protocol, scripts** | - | delegation, encoding | - |

Behaviours that are hard, and what makes each component correct:

* identities: a grace timer races the reconnect it waits for; a token may be used
  by two sessions; a client may authenticate twice. *Correct:* a session acts as
  one living player, a pending reconnect can be honoured, nobody is forgotten.
* membership: `player.roomId`, `room.players` and RoomManager are written one
  after the other with hooks in between. *Correct:* the two records agree in every
  state, no room is over its capacity. *Wanted:* no destroyed room is kept.
* matchmaking: a player is enqueued while it waits elsewhere, or is finalized
  while it waits. *Correct:* one place for one player, no complete group left
  waiting, first in first out up to the seat.
* realtime loop: it re-arms its own timer after ticks that may have stopped it.
  *Correct:* one loop, and no more than the ticks that stopped it can explain; all let
  go in the end; backlog worked off.
* turns: the holder leaves. *Correct:* the turn is always held by a member.
* shutdown: the transport goes on delivering while it closes. *Wanted:* nothing is
  left behind.
* hooks: each call of user code may throw, and the handler goes on from there, partly
  through calls that are made again. *Correct:* hooks keep their documented order, no
  leave and no disposal is lost or doubled.
* heartbeat: one timer sends the PINGs and judges the answers. *Correct:* a client that
  answers is never closed, a silent or slow one is, and the events of a session reach
  the server in order although sockets close on many paths.
* input path: a rate limit by fixed windows, then a buffer that drops its oldest entry.
  *Correct:* bounds on what gets through, nothing refused or lost without a reason.

The complete list of hazards, each at its line, is `hazards` in `PROJECT.json`.

## 2. Modules

| Module | Models |
|---|---|
| `MatchQueue` | the pure operators of the matchmaker: queues as sequences |
| `Matchmaker`, `MCMatchmaker` | the matchmaker under arbitrary calls |
| `Rooms` | what handlers do to rooms and seats, each in one step; also a specification of its own (`RoomsSpec`) |
| `GameServer`, `MCGameServer` | sessions, identities, grace timers, matchmaking and shutdown, with the rooms of `Rooms` |
| `RealtimeEngine`, `MCRealtimeEngine` | the loop of one realtime room with its timers and the clock |
| `TurnRoom` | the turn of one turn room |
| `Transport` | sockets, sessions, heartbeat, sending under backpressure, close() |
| `SessionContract` | abstract: the three events of a transport, as the server relies on them |
| `InputPath` | rate limiter, input buffer and tick, for one player |
| `Gateway` | `Transport` and `InputPath` composed on one clock; INPUT packets come through the socket |
| `RoomHooks` | every hook call of rooms and handlers, plugin facades, gauges of RuntimeMetrics |
| `RoomHandlers`, `MCRoomHandlers` | `RoomHooks` seen before and after each handler, against `Rooms` |
| `Seating` | abstract: who sits where, and rooms that open and close |
| `MatchQueueProofs` | lemmas on the operators of `MatchQueue` |
| `MatchmakerProofs`, `TurnRoomProofs` | the inductive invariants of those two modules and their theorems |
| `RealtimeEngineProofs` | the inductive invariant of `RealtimeEngine` and three theorems |
| `GatewayProofs` | the inductive invariants of `Transport` and `InputPath`, the refinement of `SessionContract`, and that all of it holds in `Gateway` |
| `RoomHooksProofs` | the inductive invariant of `RoomHooks` over the pending calls, the order of the hooks, and the refinement of the safety part of `Seating` |
| `RoomHandlersProofs` | every handler of `RoomHooks` is one step of `Rooms` |
| `GameServerProofs` | the inductive invariant of `GameServer` and its safety properties, two of them about steps; that it implements `Rooms`; and what holds in addition if clients authenticate once, or tokens are not shared |

`MatchQueue` is shared: the queues of `Matchmaker` and `GameServer`, and the order
of the keys of the `players` Map in `TurnRoom`, use the same operators and lemmas.

### GameServer and the code

`sessions`, `players`, `tokenOf`, `pending` and `queues` are the Maps of the class;
`sessionPlayer` is `session.playerId`, `playerSession` is `player.sessionId`,
`playerRoom` is `player.roomId`, `members` is `room.players`. `timers` are the
grace timers Node holds, apart from `pending`, whose entries name only some of
them. `roomState` is `"none"` for a room RoomManager does not have and
`"destroyed"` for one it still has; `roomKey` stands for the request a room was
created for, which gives its capacity, mode and autoDispose flag.

* Ids: the code draws UUIDs. An id is *fresh* here when nothing refers to it, so
  that finite pools are used again.
* Hooks: a hook returns or throws. `Crashes(L)` picks the rooms left by the players
  `L` in which `onLeave` throws; `MatchForm`, `RoomJoinFails`, `TickFails`,
  `InputFails`, `TurnFails` and `MatchLost` (a throwing constructor) are the others.
* The early returns of a handler are disabled actions: nothing changes.
* `HooksThrow`, `ReAuth`, `SharedToken` and `MayShutdown` say what the environment
  may do. With all of them TRUE it may do anything the code lets it.
* Left out because nothing modelled reads it: `session.roomId`, `playerIdByToken`,
  `player.active`, metrics, messages to clients. PING/PONG, unknown opcodes and
  packets that do not decode change none of this state (or close the socket, which
  is `Disconnect`).

The part about rooms is in `Rooms`, which `GameServer` extends: leaving (`Depart`), forming
a room for a group, joining, failing to join, destruction, `clear()`. `RoomsSpec` lets
these steps happen in any order to any players, without sessions, queues or timers.

### RealtimeEngine and the code

`loop()` is synchronous, but the tick it calls is user code, which may stop, start and
destroy its own room. So `loop()` is cut at these calls: `loops` is the stack of the calls
of `loop()` under way, each with its `catches` so far (a `start()` in a tick calls `loop()`
inside the one that ticks), and `ticking` says that the innermost is in a tick.
`TickBegins`, then any of `Start`, `Stop` and `Destroy`, then `TickReturns` or `TickThrows`;
`LoopEnds` arms a timer *whatever the ticks have done*, as line 90 does. Outside ticks
handlers and timers run only on an empty stack.

`armed` are the timers Node holds, `timer` is the handle the engine remembers.
`TimerFires` finds a running room, `TimerFiresLate` one that has been stopped or destroyed.
`Elapsed` and `Jump` are the differences of `Date.now()`; a timer may find less time gone
if another loop has run since it was armed (`SinceLast`).
`OwnOnDestroy` admits room classes that override `onDestroy()` and do not stop.
`Destroy` includes the `engine.stop()` that `destroyRoom()` and `shutdown()` of the
server make before they destroy the room. What a tick does to members is in `GameServer`
(`TickFails`) and the hooks.

A tick that calls `stop()` on its active room leaves a timer that the engine does not know
of once it is started again: the room then has two loops, until one of them finds it
stopped. The history variable `stopsInTick` counts these ticks, and `SingleLoop` allows one
loop more for each. The server itself stops a room in a tick only by destroying it; a room
class may do otherwise.

### TurnRoom and the code

`order` is the key order of the `players` Map; `current` is `currentTurnPlayerId`.
`Join` and `Leave` include the hooks of `TurnRoom` that pass the turn on.

### Transport, InputPath, Gateway and the code

`socket` is `readyState` of the socket of a session, `sessions` the Map of the
transport, `unheard` the age of `session.lastPing`, `buffered` is
`socket.bufferedAmount`. `called` is the event the server has just been called with,
which the contract is about. `Beat` is one callback of the heartbeat, over all
sessions, its `send()` included. `Message` and `Pong` are packets that decode,
`BadMessage` is one that does not. After `CloseSockets` a socket is *closing*:
packets still arrive, nothing is sent any more, and `SocketCloses` follows.

Time is a number of ages that `Elapse` moves together. The heartbeat comes `Interval`
to `Interval + Lag` after the one before it: a loop that stalls for longer also runs
the timer before the PONGs that wait behind it, so `Lag` and `Delay` together bound the
stall. `pings` holds the ages of the PINGs a client in `Responsive` has not answered.

`InputPath` measures the window of the rate limiter by its age. `passed` (how many
inputs got through, by age) and `lost` are history for the properties. The player
stays in one running realtime room, and the clock is monotonic. In `Gateway` the input
arrives as a `Message` of the socket of that player.

The contract is a refinement: `ContractKept` says that `Transport`, with a session
*connected* while it is in the Map, implements `SessionContract`. `GameServer` uses
exactly that (`Connect`, packets of live sessions, `Disconnect`).

### RoomHooks and the code

`todo` is what the running handler has still to call; a call may put calls of its own
before the rest. So `destroyRoom` becomes `destroy`, `delete`; `destroy` becomes one
`evict` for each member, then `onDestroy`; and a hook that throws puts the `destroy`
of `safeInvoke` in front. Each step runs one hook at most. `members` and `playerRoom`
are as in `GameServer`; `inside` is what a room class knows from its `onJoin` and
`onLeave` (the positions of `SampleRealtimeRoom`); `created` and `disposals` follow
`onCreate` and `onDispose`; `facades` are the `roomAdapters` of a public plugin, which
hears of everything right before the room class does.

* Between two handlers: `Leave` stands for every detachment (ROOM_LEAVE, a finalized
  player), `Match` for a complete group, `Message` and `TurnMessage` for inputs and
  turn actions, `TickThrows` for a failing tick, `CreateSettles` for the Promise of an
  asynchronous `onCreate`, `Clear` for the rooms in `shutdown()`.
* `activeRooms` and `activeRoomPlayers` are the gauges of the same names.
* Sessions, tokens and queues are left to `GameServer`: the callers of a room appear here
  with any player at any time, which is more than they do.

`SeatingKept` is a refinement too (`Plan`, with `Phase` as the mapping): a room is *open* while it is active, *closing* while
`destroy()` runs, and a player sits where `player.roomId` says; the calls of a handler
are then single steps of `Seating` or none. `Seating!SafeSpec` is its safety part; the
rest is liveness: a room that has begun to close gets closed, whatever its hooks do.

### RoomHandlers and the code

`GameServer` takes it for granted that a handler is one step, and says by hand what that
step comes to when hooks throw: `Crashes` and `Disposed` of a departure, `JoinFails`,
`FormsRoom` with nobody seated. `RoomHandlers` checks this against the calls. The history
variable `was` keeps the rooms as the running handler has found them, and `Seen` is what a
client that asks between two handlers may know: the rooms as they are, or, while a handler
runs, as they were. Seen like this, `RoomHooks` implements `Rooms` (`HandlersAreWhole`,
with `Whole` as the mapping): a handler changes nothing before its last call, and then
everything as one step of `Rooms` does. `"closing"` never shows; a room of RoomManager that
is not active is `"destroyed"`.

## 3. Runs

| Run | Shows |
|---|---|
| `matchmaker` | 5 players, 3 keys (required 3, 2 and 0): one place per player, no match missed, groups taken out, FIFO |
| `server_hostile` | every environment flag TRUE: membership, occupancy, queues, sessions, pending entries; seating in FIFO order; a reconnect restores the seat and the queue place |
| `server_behaved` | every flag FALSE: no player forgotten, grace windows usable, and nobody off line for ever |
| `ghost_player` | **violation**: AUTH twice on one session leaves the first player for ever |
| `grace_window` | **violation**: two sessions with one token lose each other's pending entry |
| `zombie_room` | **violation**: a room destroyed by a throwing hook stays in RoomManager |
| `clean_shutdown` | **violation**: close events and packets during `transport.close()` arm timers and create rooms |
| `engine` | one loop, and one more at most for each tick that stopped its own room; a destroyed room, and one that stays stopped, is let go by every loop; a backlog is worked off |
| `turns` | the turn is held by a member; once members stop leaving everyone gets it |
| `gateway` | a client that answers is never timed out and a silent one is disconnected; buffers and silence are bounded; events keep the contract; `close()` ends; twice the input limit at most in any period, no client within the limit refused, no input lost when the buffer fits |
| `room` | whichever hooks throw: hooks in their documented order, no leave or disposal lost, facades and gauges in step with the rooms, the seating plan implemented; each handler leaves rooms and seats as one step of `Rooms` does, from which `GameServer` is built |
| `async_create` | **violation**: `onJoin` runs before an asynchronous `onCreate` has ended |

Each violation contradicts a sentence of the repository's documents, quoted under
`findings` in `PROJECT.json`.

### Bounds

* `GameServer`: 2 sessions, 3 players, 1 token, 2 rooms, 2 keys. Two sessions suffice
  for every race of two clients, and since sessions and players are separate, three
  players exist with two sessions (one or two off line in their grace period or
  forgotten). `duel` needs two players and has two seats in an autoDispose realtime
  room; `hall` needs three and has two seats in a turn room that stays, so that one of
  a group is refused. Two rooms make migrations. All values of a pool are
  interchangeable (symmetry, safety runs only). The state space is finite without any
  counter.
* `Matchmaker`: queues hold each player once, hence are finite.
* `RealtimeEngine`: a step of 3 ms with timers 0, 1 or 4 ms late, two jumps
  (`MaxJumps`) of 37 ms (twelve ticks, more than two loops of five) or -6 ms. `MaxDebt`
  is above what these can add up to. At most two ticks stop their own room (`MaxStops`);
  three timer handles show the three loops this may leave. A tick takes no time of its
  own, so that an overload that lasts is outside the model: nothing could work it off.
* `TurnRoom`: four players for three seats.

* `Gateway`: two connections, one that answers (the player whose inputs are followed)
  and one that never does. Interval 2, lag 1, round trip 2, timeout 5: exactly the sum
  that `NeverTimedOut` asks for; with a timeout of 4 its conclusion fails. Packets of one
  byte and a limit of 0 bytes: sending is refused with anything in the buffer. Two
  inputs in a period of two units, a buffer of four, a tick in every two units: the
  equality cases of `NothingLost`.
* `RoomHooks`: three players, an autoDispose realtime room with two seats and a turn
  room with one; groups of one to three (`MaxGroup`), more than there are seats, so that a
  match seats some of its group and only unseats the rest. `MaxGauge` 4:
  `activeRoomPlayers` drifts up without end when hooks fail or members join again, and
  neither happens once it has reached 4, one more than there are players.
* `RoomHandlers`: the same rooms, in the same run: `HandlersSpec` adds the history variable
  `was` to `RoomHooks` and restricts nothing.

Deadlock is checked in `gateway`, `room` and `async_create`, where time, clients or
handlers can always go on. It is not in the others: the server may rest, with nobody
connected or after shutdown.

### Fairness

Only what Node guarantees or the property assumes in its words: a timer that is armed
and not cleared fires (`GraceExpires`, `TimerFires`). In `RealtimeEngine` the fairness of a
timer is strong, because it cannot fire while a loop is on the stack, and weak fairness of
`LoopStep` says that a tick returns or throws: user code that never returns stops the
whole process. For `EveryoneGetsTurn` the holder of the turn plays; the code cannot force
it, and the property says so. No client is assumed to connect, reconnect, join or leave.

In `Gateway`: time passes, an interval that is set runs, the room ticks, `ws` completes
the close of a socket (it destroys the socket if the peer does not answer), and clients
in `Responsive` answer. In `RoomHooks`: a handler that has begun runs to its end, as
synchronous code does.

## 4. Proofs

`GameServerProofs` proves `Spec => []IInv` for arbitrary (also infinite) sets of
sessions, players, tokens, rooms and keys, any capacities and thresholds, and any
values of the four environment flags. The only assumptions are those of the module:
`None` is no id, `Required` and `Capacity` are natural numbers. `IInv` is

* `RoomInv`: the types of the room variables and `Membership`. It is inductive by
  itself, once departures (`DepartKeeps`) and the seating of a group are known to
  write both records.
* `QueueInv`: types and `QueueSound`. It needs `players` only, to know that those
  who wait exist.
* `IdentityInv`: types, `SessionBinding` and `PendingSound` *together*. Neither is
  inductive alone: an AUTH may bind the player of a pending entry only because that
  player is timed (`PendingSound`) and a timed player has no session
  (`SessionBinding`).

`TypeOK`, `Membership`, `QueueSound`, `SessionBinding` and `PendingSound` follow.

It also proves the two promises that need clients to behave, each from one assumption about
the environment and nothing else: `NoGhostPlayers` if no client authenticates twice and there
is no shutdown; `GraceWindowHonoured` if no client uses the token of a live session. The last
one needs the strengthening `OneLivePlayerPerToken`: of the players registered under one token
at most one is on line or timed. The violation runs show that neither of the two assumptions
can be dropped. `NoZombieRooms` is not among them: if no hook throws there is nothing to show,
and if one does it fails.

Beside `IInv`, `OccupancyInv` proves `RoomOccupancy`: it adds to the property that the
members of a room are finitely many (the server counts them before it seats one) and that
an active room was created for a request. Two promises are about steps, and follow from
`IInv` and the action alone. `FirstComeFirstSeated`: only a complete match takes anyone
from a queue into a room, and it seats the group in its order until the room is full.
`ReconnectRestores`: a player whose grace timer is armed has no session
(`SessionBinding`), so no handler of a client touches it; a reconnect binds it and
leaves the rest, and the end of the timer takes it out of everything at once.

`RoomsInServer` proves `Spec => RoomsSpec`: whatever a packet, a timer or a closing socket
makes the server do to rooms and seats is one step of `Rooms` or nothing. Together with
`HandlersAreWholeHolds` (below) it says that the two views of the handlers, as steps of the
server and as sequences of hook calls, are both refinements of the same specification.

`MatchQueueProofs` states what `Without`, `Cancel`, `Enqueued`, `Group`, `Rest` and
`Position` return for sequences of any length. `MatchmakerProofs` proves `TypeOK`,
`NoDoubleQueue`, `NoMatchMissed`, `GroupIsTakenOut` and `FirstInFirstOut`. The last rests
on `GroupIsQueueAndPlayer`: since no complete group is ever left waiting, a group that is
matched is the whole queue and the player that has just asked, so nobody can be passed
over. `CancelFilters` proves `CancelIsFilter`, a fact about an operator that is left to the
prover: what the recursion of the filter comes to for a queue of any length. The prefixes of
the queue, without the player, satisfy the recursion, and two functions that satisfy it
cannot differ at a least place (`LeastOf`, from the well-foundedness of finite sets under
inclusion, stands in for induction).
`TurnRoomProofs` proves `TypeOK` and `HolderIsMember`.

`RoomHooksProofs` proves `Spec => []IInv` for any players, rooms, capacities, sizes of
groups and bounds. `NobodyForgotten`, `FacadesFollowRooms` and `GaugesCoverRooms` speak of
the moments between two handlers and are far from inductive, since a hook may throw
anywhere in between. `IInv` says how far a handler has come:

* `Ordered`, `JoinsAreFree`: which call may stand before which in `todo`. Calls made by a
  call come before what its caller has still to do, and a player is detached right before
  it is seated.
* `ClosingIsPending`: a room is closing exactly while an `evict` or `onDestroy` of it is
  pending. This is what makes the repeated `destroyRoom` of a throwing hook harmless.
* `Mirrored`, `DisposedOnce`, `FacadesOpen`, `OpenIsManaged`: what `members`,
  `playerRoom`, `inside`, `disposals`, `facades` and `managed` have to do with one another
  in each state of a room. The three records of who is in a room differ only while its
  `destroy()` is under way.
* `RoomsCounted`, `PlayersCovered`: the gauges, less what pending calls will still take off
  them. A room that is about to be deleted is not counted any more; a leave that has
  happened and that the gauge has not been told of (`autoDispose` is pending) counts one.

`HooksInOrder` follows from `IInv` step by step, and so does `SeatingImplemented`: every
call is a step of `Seating` or a stutter, `Spec => Plan!SafeSpec`.

`RoomHandlersProofs` proves the refinement `HandlersSpec => HandlersAreWhole`, for any
players, rooms, capacities, kinds of rooms and sizes of groups, whichever hooks throw. While
a handler runs, rooms may be half destroyed and players in two minds, so the proof does not
look at them as they are but at what they will be (`SeatThen`, `StateThen`) once the calls
that were *made by other calls* are over: a room whose `destroy()` is still to come is as
good as destroyed, one whose `delete` is to come as good as forgotten. `HInv` says

* `ToMake(script, m)`: the pending calls are made calls, followed by the last *m* of the
  handler's own script;
* `WasSound`: what the handler has found was sound;
* `Underway`: where the script has come to, and what has become of the rooms by then. For a
  match (`Forming`): after its first *d* calls exactly the players `Taken` have left their
  rooms, some of which have crashed, and those `Offered` a seat sit in the new room, or a
  hook has thrown in it, it is gone, and nobody has a seat.

Made calls do not change the view (`MadeView`), a call of the script moves it on by one
(`DetachView`, `AddPlayerView`, `CreateRoomView`, `StartRoomView`), and when nothing is
pending any more the view is what can be seen (`RestIsSeen`) and a step of `Rooms`
(`WholeIsStep`). The order in which the players of a match leave does not matter because a
room that crashes in front of a player is one it would have left (`OneMoreLeaves`,
`LeavesAfterOthers`). TLC has checked `HInv` before it was proved.

`GatewayProofs` begins with the transport: `TransportSpec => []IInv` for any connections,
intervals, delays, timeouts and sizes (the assumptions are that they are numbers). `IInv`
adds three parts to the types. `SocketInv`: a session is in the Map exactly while its
socket is open or closing, and while one is open the heartbeat runs. `AnswerInv`: a client
that answers has been heard since the last heartbeat, or has a PING to answer of age *a*
and has been silent for no more than *a* + interval + lag. `BoundInv`: a silence exceeds
the timeout by no more than the age of the last heartbeat. `NeverTimedOut` follows from
`AnswerInv` because no PING gets older than the round trip, `KeptWithinBounds` from
`BoundInv`, and `ContractKept`, the refinement of `SessionContract`, from `SocketInv`.
`TransportInGateway` (`Spec => TransportSpec`) carries all three over to `Gateway`.

Of the input path it proves `AtMostTwice`, `ThrottledFairly` and `NothingLost`, for any
limit, period, buffer and tick gap, over every behaviour of `Gateway`. `PassInv`: of the
inputs that got through in the last period, those since the open window was opened are as
many as it has counted, those before it fitted into a window, and a window that has
expired saw none just now. Hence twice the limit at most, and a window that is full holds
as many as the limit that are less than a period old. `BufferInv` (if the buffer has room
for twice the limit and ticks come in every period): what has come in since the last tick
was counted by the open window, or by it and the one before.

`RealtimeEngineProofs` proves `SingleLoop` for any number of timers and of ticks that stop
their room, any step (0 included), cap and clock. It is not inductive, since `Start` enters a
loop without looking for another. `LoopBound` says why it may: while a room is active and its
engine does not run, its loops are no more than the ticks that stopped it; otherwise there is
one more. `TimerNamed` (an engine that runs waits for the timer it would clear) makes `stop()`
between two loops take away the loop it stands for, and `ActiveAgrees` (while the room is
active its flag and the engine's agree) makes it reach the engine. `StartsClean` is the case
that `start()` relies on.

Only model-checked:

* Every liveness property: `OfflineResolved`, `CatchesUp`, `LetsGo`, `StopEndsLoops`,
  `EveryoneGetsTurn`, `SilentIsClosed`, `CloseCompletes`, and the fairness part of `SeatingKept`. They depend
  on fairness, and so on ENABLED, which the prover does not handle.

## 5. Not modelled

* Messages to clients, and what a client is told: encoding, snapshots, the tick number.
* `PluginSystem` calls every plugin behind its own `try`: a plugin that throws disturbs
  nothing but itself, and appears only through its room facades. A plugin or a room class
  that calls back into the server (`disconnect`, `send`) closes or writes to a socket;
  that is `Disconnect` and `Send` of `Transport`, at any time.
* Of the sockets: frames that `ws` itself rejects and the event "error" (both end in
  "close"), `listen()` called twice, `close()` before `listen()`, the metrics endpoint.
* A transport other than WebSocket's: it has to keep `SessionContract`.
* A clock set back, except for the engine, where it makes the accumulator negative.
  The rate limiter then refuses inputs until the clock has caught up.
* What user code stores or schedules: a `PlayerContext` kept over a reconnect, a
  `schedule()` callback that outlives its room.
* Gauges of connections and totals, telemetry, options and wrappers of the public API,
  the game logic of the sample rooms, scripts.
* How long a tick takes (see the bounds of `RealtimeEngine`), and its slow-tick report.

## 6. Plan

1. Every safety property of the passing runs is proved. Next would be a grace period
   as a small machine of its own that `GameServer` implements, as it does `Rooms`.
2. What clients are told, so that "everyone who loses a place is answered" can be
   stated (a room constructor that throws loses the group silently).
