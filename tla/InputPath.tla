------------------------------ MODULE InputPath ------------------------------
(***************************************************************************)
(* The way of the INPUT packets of one player that stays in a running      *)
(* realtime room: allowWithinRate() of core/server/rate-limiter.ts on      *)
(* Player.inputCountWindow, whose window starts with the first input after *)
(* the one before it has run out; then Player.inputBuffer, which drops its *)
(* oldest entry at the limit and is emptied by the tick of the room.       *)
(*                                                                         *)
(* Date.now() is taken to be monotonic here: set back, it makes the age of *)
(* the window negative and keeps a full window closed until it has caught  *)
(* up.                                                                     *)
(***************************************************************************)
EXTENDS Integers, FiniteSets

CONSTANTS
  Limit,      \* maxInputsPerSecond
  Period,     \* periodMs: one second
  MaxInputs,  \* maxInputBufferPerPlayer
  TickGap     \* bound: the time between two ticks of the room

ASSUME LimitAssumption ==
  Limit \in Nat /\ Period \in Nat \ {0} /\ MaxInputs \in Nat /\ TickGap \in Nat

VARIABLES
  windowAge,  \* Date.now() - windowStartMs, or Period when it is more
  count,      \* of the window
  passed,     \* how many inputs passed n units of time ago, n < Period
  inputs,     \* length of inputBuffer
  sinceTick,  \* since the room last ticked
  lost        \* an input has been dropped that no tick has seen

windowVars == <<windowAge, count, passed>>
bufferVars == <<inputs, sinceTick, lost>>
inputVars == <<windowVars, bufferVars>>

InputTypeOK ==
  /\ windowAge \in 0..Period
  /\ count \in 0..Limit
  /\ passed \in [0..(Period - 1) -> Nat]
  /\ inputs \in Nat
  /\ sinceTick \in 0..TickGap
  /\ lost \in BOOLEAN

\* createPlayer()
InputInit ==
  /\ windowAge = 0
  /\ count = 0
  /\ passed = [n \in 0..(Period - 1) |-> 0]
  /\ inputs = 0
  /\ sinceTick = 0
  /\ lost = FALSE

\* The comparison the wrong way round.
ExpiredBackwards == windowAge < Period

\* nowMs - window.windowStartMs >= periodMs
Expired == windowAge >= Period

\* A new window that keeps the count of the old one.
CountKept == count

\* window.count, once an expired window is renewed.
CountNow == IF Expired THEN 0 ELSE count

Renews == windowAge' = IF Expired THEN 0 ELSE windowAge

\* A limit that is checked once it has been passed.
BelowLimitLate == CountNow <= Limit

\* ~(window.count >= limit)
BelowLimit == CountNow < Limit

\* allowWithinRate() returns true: handleInput drops the oldest entry of a full
\* buffer, and onInput appends the new one, also if the limit is 0.
Allowed ==
  /\ BelowLimit
  /\ Renews
  /\ count' = CountNow + 1
  /\ passed' = [passed EXCEPT ![0] = @ + 1]
  /\ IF inputs > 0 /\ inputs >= MaxInputs
     THEN UNCHANGED inputs /\ lost' = TRUE
     ELSE inputs' = inputs + 1 /\ UNCHANGED lost
  /\ UNCHANGED sinceTick

\* It returns false, and handleInput drops the input.
Refused ==
  /\ ~BelowLimit
  /\ Renews
  /\ count' = CountNow
  /\ UNCHANGED <<passed, bufferVars>>

\* A tick that leaves the buffers alone.
InputsKept == inputs

InputsAfterTick == 0

\* RealtimeRoom.tick() empties the buffers of the members.
RoomTick ==
  /\ inputs' = InputsAfterTick
  /\ sinceTick' = 0
  /\ UNCHANGED <<windowVars, lost>>

\* One unit of time passes, at most TickGap of them between two ticks.
InputElapse ==
  /\ sinceTick < TickGap
  /\ sinceTick' = sinceTick + 1
  /\ windowAge' = IF windowAge = Period THEN Period ELSE windowAge + 1
  /\ passed' = [n \in 0..(Period - 1) |-> IF n = 0 THEN 0 ELSE passed[n - 1]]
  /\ UNCHANGED <<count, inputs, lost>>
-------------------------------------------------------------------------------
\* The inputs that got through in the last period, each by its age and a number.
Passes == UNION {{n} \X (1..passed[n]) : n \in 0..(Period - 1)}

PassedInPeriod == Cardinality(Passes)

\* Fixed windows let bursts through at their edges, but never more than twice
\* the limit in a period, wherever the period begins.
AtMostTwice == PassedInPeriod <= 2 * Limit

\* A client that keeps to the limit in every period is never throttled: an
\* input is refused only if as many as the limit have passed within a period.
ThrottledFairly == ~BelowLimit => PassedInPeriod >= Limit

\* No input that passed is dropped before the room has ticked, if the buffer has
\* room for twice the limit and the room ticks at least once in a period.
NothingLost == MaxInputs >= 2 * Limit /\ TickGap <= Period => ~lost
===============================================================================
