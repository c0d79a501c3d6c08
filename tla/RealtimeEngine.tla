---------------------------- MODULE RealtimeEngine ----------------------------
(***************************************************************************)
(* The loop of one realtime room: core/engine/realtime-engine.ts, with the *)
(* start() and stop() of core/room/internal-room.ts that drive it.         *)
(*                                                                         *)
(* loop() is synchronous, but calls the tick of the room, which is user    *)
(* code: it may stop, start and destroy its room, and a start() in a tick  *)
(* calls loop() again, inside the one under way.  Hence loops, the calls   *)
(* of loop() on the stack.  A timer is a handle of setTimeout; this.timer  *)
(* names the last one, whether or not it has fired.  Time is in            *)
(* milliseconds of Date.now(), which may jump.                             *)
(***************************************************************************)
EXTENDS Integers, FiniteSets, Sequences

CONSTANTS
  Handle,       \* handles of timers
  None,         \* undefined
  FixedStepMs,  \* floor(1000 / tickRate); 0 for a tickRate above 1000
  CatchUpCap,   \* 5 in the code: ticks in one loop at most
  Elapsed,      \* how late a timer may fire, the delay of setTimeout included
  Jump,         \* jumps of Date.now(): a stalled process, a clock set back
  OwnOnDestroy, \* may a room class have an onDestroy() that does not stop()?
  MaxJumps,     \* bound: how many jumps there are
  MaxStops,     \* bound: how often a tick stops its own room
  MaxDebt       \* bound: the largest accumulator

ASSUME HandleAssumption == None \notin Handle

ASSUME TimeAssumption ==
  /\ FixedStepMs \in Nat /\ CatchUpCap \in Nat \ {0}
  /\ Elapsed \subseteq Nat /\ Jump \subseteq Int
  /\ OwnOnDestroy \in BOOLEAN
  /\ MaxJumps \in Nat /\ MaxStops \in Nat /\ MaxDebt \in Nat

VARIABLES
  roomState,    \* BaseRoom.state, "closing" passing within one step
  started,      \* InternalRoom.started
  running,      \* RealtimeEngine.running
  timer,        \* this.timer
  armed,        \* the timers Node holds
  accumulator,
  loops,        \* the calls of loop() on the stack: catches of each, innermost last
  ticking,      \* the innermost of them is in the tick of the room
  jumps,        \* jumps so far
  stopsInTick   \* how often a tick has called stop() of its active room

engineVars == <<running, timer, armed>>
loopVars == <<accumulator, loops, ticking>>
vars == <<roomState, started, engineVars, loopVars, jumps, stopsInTick>>

TypeOK ==
  /\ roomState \in {"active", "destroyed"}
  /\ started \in BOOLEAN
  /\ running \in BOOLEAN
  /\ timer \in Handle \cup {None}
  /\ armed \subseteq Handle
  /\ accumulator \in Int
  /\ loops \in Seq(Nat)
  /\ ticking \in BOOLEAN /\ (ticking => loops # << >>)
  /\ jumps \in 0..MaxJumps
  /\ stopsInTick \in 0..MaxStops

Init ==
  /\ roomState = "active"
  /\ started = FALSE
  /\ running = FALSE
  /\ timer = None
  /\ armed = {}
  /\ accumulator = 0
  /\ loops = << >>
  /\ ticking = FALSE
  /\ jumps = 0
  /\ stopsInTick = 0
-------------------------------------------------------------------------------
(* Parts of the methods.                                                   *)

\* A stop() that does not clear the timer.
ClearTimerNot == UNCHANGED <<timer, armed>>

\* clearTimeout(this.timer)
ClearTimer ==
  /\ armed' = armed \ {timer}
  /\ timer' = None

\* stop() of the engine.
EngineStops == running' = FALSE /\ ClearTimer

\* loop() past its guards, with elapsed milliseconds gone.
Enters(elapsed) ==
  /\ accumulator + elapsed <= MaxDebt
  /\ accumulator' = accumulator + elapsed
  /\ loops' = Append(loops, 0)
  /\ ticking' = FALSE

\* A destroy() that an error leaves half done.
DestroysHalf == roomState' = "closing" /\ started' = FALSE

\* destroy() of the room: onDestroy() calls stop(), unless the class of the room
\* overrides it.
Destroys ==
  /\ roomState' = "destroyed"
  /\ started' \in {FALSE, OwnOnDestroy /\ started}

\* Handlers of the server run between two loops, user code also in a tick.
Free == loops = << >> \/ ticking

\* A while loop with a cap of one tick.
CatchesOnce == accumulator >= FixedStepMs /\ loops[Len(loops)] < 1

\* The condition of the while loop.
MoreTicks == accumulator >= FixedStepMs /\ loops[Len(loops)] < CatchUpCap

\* The innermost loop is between two ticks.
Looping == loops # << >> /\ ~ticking

\* Back from step(): the tick is counted, whatever became of it.
Counted ==
  /\ accumulator' = accumulator - FixedStepMs
  /\ loops' = [loops EXCEPT ![Len(loops)] = @ + 1]
  /\ ticking' = FALSE

\* loop() without its first guard.
LiveAnyway == roomState = "active"

\* The guards of loop().
Live == running /\ roomState = "active"

\* The milliseconds since the last loop when timer h fires: fewer than it has
\* waited if there is another loop.
SinceLast(h) == IF armed = {h} THEN Elapsed ELSE UNION {0..e : e \in Elapsed}
-------------------------------------------------------------------------------
(* What handlers and user code call.                                       *)

\* A start() that does not look at the state of the room.
StartAnyway ==
  /\ loops = << >> /\ ~started
  /\ started' = TRUE /\ running' = TRUE /\ Enters(0)
  /\ UNCHANGED <<roomState, timer, armed, jumps, stopsInTick>>

\* start() of the room, which starts the engine.
Start ==
  /\ Free
  /\ roomState = "active" /\ ~started
  /\ started' = TRUE
  /\ IF running THEN UNCHANGED <<running, loopVars>> ELSE running' = TRUE /\ Enters(0)
  /\ UNCHANGED <<roomState, timer, armed, jumps, stopsInTick>>

\* stop() of the room, which stops the engine.
Stop ==
  /\ Free
  /\ started
  /\ started' = FALSE
  /\ EngineStops
  /\ stopsInTick' = IF ticking /\ roomState = "active" THEN stopsInTick + 1 ELSE stopsInTick
  /\ stopsInTick' <= MaxStops
  /\ UNCHANGED <<roomState, loopVars, jumps>>

\* destroy() of the room.  The engine is stopped by the onDestroy() of the room
\* or, before it, by destroyRoom() or shutdown() of the server; only a hook that
\* fails in a class with its own onDestroy() destroys the room and leaves its
\* engine running.
Destroy ==
  /\ Free
  /\ roomState = "active"
  /\ Destroys
  /\ EngineStops \/ (started' = started /\ UNCHANGED engineVars)
  /\ UNCHANGED <<loopVars, jumps, stopsInTick>>
-------------------------------------------------------------------------------
(* The loop.                                                               *)

\* step() in an active room calls its tick.
TickBegins ==
  /\ Looping /\ MoreTicks
  /\ roomState = "active"
  /\ ticking' = TRUE
  /\ UNCHANGED <<roomState, started, engineVars, accumulator, loops, jumps, stopsInTick>>

\* step() in a room that an earlier tick of this loop has destroyed.
TickSkipped ==
  /\ Looping /\ MoreTicks
  /\ roomState # "active"
  /\ EngineStops
  /\ Counted
  /\ UNCHANGED <<roomState, started, jumps, stopsInTick>>

TickReturns ==
  /\ ticking
  /\ Counted
  /\ UNCHANGED <<roomState, started, engineVars, jumps, stopsInTick>>

\* A tick that throws costs the room its life and stops the engine.
TickThrows ==
  /\ ticking
  /\ IF roomState = "active" THEN Destroys ELSE UNCHANGED <<roomState, started>>
  /\ EngineStops
  /\ Counted
  /\ UNCHANGED <<jumps, stopsInTick>>

\* No more ticks: the timer is armed, whatever the ticks have done, and the tick
\* that has called this loop, if any, goes on.
LoopEnds ==
  /\ Looping /\ ~MoreTicks
  /\ \E h \in Handle \ armed : timer' = h /\ armed' = armed \cup {h}
  /\ loops' = SubSeq(loops, 1, Len(loops) - 1)
  /\ ticking' = (Len(loops) > 1)
  /\ UNCHANGED <<roomState, started, running, accumulator, jumps, stopsInTick>>

\* A timer fires and finds a running room.
Fires(h, sinceLast) ==
  /\ loops = << >> /\ h \in armed
  /\ Live
  /\ armed' = armed \ {h}
  /\ \E e \in sinceLast : Enters(e)
  /\ UNCHANGED <<roomState, started, running, timer, stopsInTick>>

TimerFires(h) == Fires(h, SinceLast(h)) /\ UNCHANGED jumps

\* The same when Date.now() has jumped since the last loop.
TimerFiresAfterJump(h) ==
  /\ jumps < MaxJumps
  /\ jumps' = jumps + 1
  /\ Fires(h, Jump)

\* A timer fires in a room that has been stopped, and loop() does nothing, or
\* destroyed, and loop() stops the engine.
TimerFiresLate(h) ==
  /\ loops = << >> /\ h \in armed
  /\ ~Live
  /\ armed' = armed \ IF running THEN {h, timer} ELSE {h}
  /\ timer' = IF running THEN None ELSE timer
  /\ running' = FALSE
  /\ UNCHANGED <<roomState, started, loopVars, jumps, stopsInTick>>

LoopStep == TickBegins \/ TickSkipped \/ TickReturns \/ TickThrows \/ LoopEnds

Next ==
  \/ Start \/ Stop \/ Destroy
  \/ LoopStep
  \/ \E h \in Handle : TimerFires(h) \/ TimerFiresAfterJump(h) \/ TimerFiresLate(h)

Spec == Init /\ [][Next]_vars

\* What is on the stack goes on, and a timer that Node has armed fires when the
\* stack is empty again, unless it is cleared.
Fairness ==
  /\ WF_vars(LoopStep)
  /\ \A h \in Handle : SF_vars(TimerFires(h) \/ TimerFiresLate(h))

FairSpec == Spec /\ Fairness
-------------------------------------------------------------------------------
\* The calls of loop() that are under way or to come.
Pending == Cardinality(armed) + Len(loops)

\* A room has one loop, however it is started, stopped, started again or
\* destroyed, and although a failing tick leaves a timer behind: except that
\* every tick that stops its own room may leave one more, since loop() arms its
\* timer without asking whether it still runs.  And an engine that runs waits for
\* the timer that stop() would clear.
SingleLoop ==
  /\ Pending <= 1 + stopsInTick
  /\ running /\ loops = << >> => timer \in armed

\* The engine lets go of a destroyed room, also of one whose class forgets to
\* stop it: the last timer runs out and is not armed again.
LetsGo == roomState = "destroyed" ~> [](Pending = 0 /\ ~running)

\* A room that stays stopped has no loop in the end, however many there were and
\* wherever it was stopped: stop() clears one timer, the others give up.
StopEndsLoops == <>[]~started => <>[](Pending = 0 /\ ~running)

\* A lag spike, or a clock set back, is worked off: a room that keeps running
\* with its one loop is again and again less than one tick behind and not ahead
\* of time.
CatchesUp == []<>(~running \/ Pending > 1 \/ accumulator \in 0..(FixedStepMs - 1))
===============================================================================
