-------------------------- MODULE RealtimeEngineProofs --------------------------
(***************************************************************************)
(* A room has one loop and, for every tick that has stopped its own room,  *)
(* at most one more: for any timers, step, cap and clock, and with any     *)
(* calls of start(), stop() and destroy(), also inside ticks.              *)
(*                                                                         *)
(* SingleLoop is not inductive: Start enters a loop without looking for    *)
(* another.  LoopBound says why it may: as long as a room is active and    *)
(* its engine does not run, its loops are those left by ticks.             *)
(***************************************************************************)
EXTENDS RealtimeEngine, FiniteSetTheorems, SequenceTheorems, TLAPS

\* The loops a room may have besides those left by ticks that stopped it.
Own == IF roomState = "active" /\ ~running THEN 0 ELSE 1

LoopBound == Pending <= stopsInTick + Own

\* An engine that runs waits for the timer it would clear.
TimerNamed == running /\ loops = << >> => timer \in armed

\* While the room is active its flag and the engine's agree.
ActiveAgrees == roomState = "active" => started = running

IInv == TypeOK /\ IsFiniteSet(armed) /\ LoopBound /\ TimerNamed /\ ActiveAgrees
-------------------------------------------------------------------------------
\* Clearing or firing a timer leaves finitely many, and no more than before.
LEMMA Fewer ==
  ASSUME NEW S, IsFiniteSet(S), NEW x
  PROVE  /\ IsFiniteSet(S \ {x})
         /\ Cardinality(S) \in Nat /\ Cardinality(S \ {x}) \in Nat
         /\ Cardinality(S \ {x}) <= Cardinality(S)
         /\ x \in S => Cardinality(S \ {x}) = Cardinality(S) - 1
<1>1. IsFiniteSet(S \ {x}) /\ Cardinality(S) \in Nat /\ Cardinality(S \ {x}) \in Nat
  BY FS_RemoveElement, FS_CardinalityType
<1>2. CASE x \in S
  BY <1>1, <1>2, FS_RemoveElement
<1>3. CASE x \notin S
  <2>1. S \ {x} = S
    BY <1>3
  <2>2. Cardinality(S \ {x}) = Cardinality(S)
    BY <2>1, Zenon
  <2> QED BY <1>1, <1>3, <2>2
<1> QED BY <1>1, <1>2, <1>3

\* stop() of the engine can only shorten what Node holds.
LEMMA EngineStopsClears ==
  ASSUME TypeOK, IsFiniteSet(armed), EngineStops
  PROVE  /\ running' = FALSE /\ timer' = None
         /\ armed' \subseteq Handle /\ IsFiniteSet(armed)'
         /\ Cardinality(armed) \in Nat /\ Cardinality(armed') \in Nat
         /\ Cardinality(armed') <= Cardinality(armed)
         /\ timer \in armed => Cardinality(armed') = Cardinality(armed) - 1
<1>1. running' = FALSE /\ timer' = None /\ armed' = armed \ {timer}
  BY DEF EngineStops, ClearTimer
<1>2. armed' \subseteq Handle
  BY <1>1 DEF TypeOK
<1> QED BY <1>1, <1>2, Fewer

\* A loop that is entered adds one call to the stack.
LEMMA EntersAdds ==
  ASSUME TypeOK, NEW e \in Int, Enters(e)
  PROVE  /\ accumulator' \in Int
         /\ loops' \in Seq(Nat) /\ loops' # << >> /\ Len(loops') = Len(loops) + 1
         /\ ticking' = FALSE
BY DEF Enters, TypeOK

\* A tick that is counted changes neither the number of loops nor their kind.
LEMMA CountedKeeps ==
  ASSUME TypeOK, loops # << >>, Counted
  PROVE  /\ accumulator' \in Int
         /\ loops' \in Seq(Nat) /\ loops' # << >> /\ Len(loops') = Len(loops)
         /\ ticking' = FALSE
<1>1. accumulator' \in Int /\ ticking' = FALSE
  BY TimeAssumption DEF Counted, TypeOK
<1>2. Len(loops) \in Nat /\ Len(loops) >= 1 /\ Len(loops) \in DOMAIN loops
  BY DEF TypeOK
<1>3. loops[Len(loops)] + 1 \in Nat
  BY <1>2 DEF TypeOK
<1>4. loops' = [loops EXCEPT ![Len(loops)] = loops[Len(loops)] + 1]
  BY DEF Counted
<1>5. loops' \in Seq(Nat) /\ Len(loops') = Len(loops)
  BY <1>2, <1>3, <1>4 DEF TypeOK
<1> QED BY <1>1, <1>2, <1>5

\* destroy() of the room.
LEMMA DestroysRoom ==
  ASSUME TypeOK, Destroys
  PROVE  roomState' = "destroyed" /\ started' \in BOOLEAN
BY TimeAssumption DEF Destroys, TypeOK
-------------------------------------------------------------------------------
\* In a room that is destroyed the bound asks no more than that nothing is added.
LEMMA DestroyedKeeps ==
  ASSUME IInv, TypeOK', IsFiniteSet(armed)',
         roomState' = "destroyed", running' = FALSE, stopsInTick' = stopsInTick,
         Cardinality(armed') <= Cardinality(armed), Len(loops') <= Len(loops)
  PROVE  IInv'
<1>1. Cardinality(armed) \in Nat /\ Cardinality(armed') \in Nat
  BY FS_CardinalityType DEF IInv
<1>2. Len(loops) \in Nat /\ Len(loops') \in Nat /\ stopsInTick \in Nat
  BY DEF IInv, TypeOK
<1>3. Pending <= stopsInTick + 1
  BY <1>1, <1>2 DEF IInv, LoopBound, Own, Pending
<1>4. LoopBound'
  BY <1>1, <1>2, <1>3 DEF LoopBound, Own, Pending
<1>5. TimerNamed' /\ ActiveAgrees'
  BY DEF TimerNamed, ActiveAgrees
<1> QED BY <1>4, <1>5 DEF IInv

LEMMA StartKeeps ==
  ASSUME IInv, Start
  PROVE  IInv'
<1>1. CASE running
  BY <1>1 DEF IInv, ActiveAgrees, Start
<1>2. CASE ~running
  <2>1. running' = TRUE /\ Enters(0)
    BY <1>2 DEF Start
  <2>2. /\ accumulator' \in Int /\ ticking' = FALSE
        /\ loops' \in Seq(Nat) /\ loops' # << >> /\ Len(loops') = Len(loops) + 1
    <3>1. 0 \in Int
      OBVIOUS
    <3> QED BY <2>1, <3>1, EntersAdds DEF IInv
  <2>3. TypeOK' /\ IsFiniteSet(armed)'
    BY <2>1, <2>2 DEF IInv, TypeOK, Start
  <2>4. LoopBound'
    <3>1. Pending <= stopsInTick
      BY <1>2 DEF IInv, LoopBound, Own, Start, TypeOK
    <3>2. Cardinality(armed) \in Nat /\ Len(loops) \in Nat /\ stopsInTick \in Nat
      BY FS_CardinalityType DEF IInv, TypeOK
    <3>3. Pending' = Pending + 1 /\ stopsInTick' = stopsInTick /\ Own' = 1
      BY <2>1, <2>2, <3>2 DEF Pending, Own, Start
    <3> QED BY <3>1, <3>2, <3>3 DEF LoopBound, Pending
  <2>5. TimerNamed' /\ ActiveAgrees'
    BY <2>1, <2>2 DEF TimerNamed, ActiveAgrees, Start
  <2> QED BY <2>3, <2>4, <2>5 DEF IInv
<1> QED BY <1>1, <1>2

\* stop() between two loops clears the timer of the engine; in a tick it leaves
\* the loop under way, which will arm its timer all the same.
LEMMA StopKeeps ==
  ASSUME IInv, Stop
  PROVE  IInv'
<1>1. /\ running' = FALSE /\ timer' = None
      /\ armed' \subseteq Handle /\ IsFiniteSet(armed)'
      /\ Cardinality(armed) \in Nat /\ Cardinality(armed') \in Nat
      /\ Cardinality(armed') <= Cardinality(armed)
      /\ timer \in armed => Cardinality(armed') = Cardinality(armed) - 1
  BY EngineStopsClears DEF IInv, Stop
<1>2. stopsInTick \in Nat /\ stopsInTick' \in 0..MaxStops /\ Len(loops) \in Nat
  BY TimeAssumption DEF IInv, TypeOK, Stop
<1>3. TypeOK'
  BY <1>1, <1>2 DEF IInv, TypeOK, Stop, loopVars
<1>4. LoopBound'
  <2>1. Len(loops') = Len(loops) /\ roomState' = roomState
    BY DEF Stop, loopVars
  <2>2. CASE ticking /\ roomState = "active"
    BY <1>1, <1>2, <2>1, <2>2 DEF IInv, LoopBound, Own, Pending, Stop
  <2>3. CASE ~ticking /\ roomState = "active"
    <3>1. running /\ loops = << >>
      BY <2>3 DEF IInv, ActiveAgrees, TypeOK, Stop, Free
    <3>2. Cardinality(armed') = Cardinality(armed) - 1
      BY <1>1, <3>1 DEF IInv, TimerNamed
    <3> QED BY <1>1, <1>2, <2>1, <2>3, <3>1, <3>2 DEF IInv, LoopBound, Own, Pending, Stop
  <2>4. CASE roomState # "active"
    BY <1>1, <1>2, <2>1, <2>4 DEF IInv, LoopBound, Own, Pending, Stop
  <2> QED BY <2>2, <2>3, <2>4 DEF IInv, TypeOK
<1>5. TimerNamed' /\ ActiveAgrees'
  BY <1>1 DEF TimerNamed, ActiveAgrees, Stop
<1> QED BY <1>1, <1>3, <1>4, <1>5 DEF IInv

\* destroy() may leave the timer and the engine as they are.
LEMMA DestroyKeeps ==
  ASSUME IInv, Destroy
  PROVE  IInv'
<1>1. /\ roomState' = "destroyed" /\ started' \in BOOLEAN
      /\ loops' = loops /\ ticking' = ticking /\ accumulator' = accumulator
      /\ jumps' = jumps /\ stopsInTick' = stopsInTick
  BY DestroysRoom DEF IInv, Destroy, loopVars
<1>2. Len(loops') <= Len(loops)
  BY <1>1 DEF IInv, TypeOK
<1>3. CASE EngineStops
  <2>1. /\ running' = FALSE /\ timer' = None /\ armed' \subseteq Handle
        /\ IsFiniteSet(armed)' /\ Cardinality(armed') <= Cardinality(armed)
    BY <1>3, EngineStopsClears DEF IInv
  <2>2. TypeOK'
    BY <1>1, <2>1 DEF IInv, TypeOK
  <2> QED BY <1>1, <1>2, <2>1, <2>2, DestroyedKeeps
<1>4. CASE UNCHANGED engineVars
  <2>1. running' = running /\ timer' = timer /\ armed' = armed
    BY <1>4 DEF engineVars
  <2>2. TypeOK' /\ IsFiniteSet(armed)'
    BY <1>1, <2>1 DEF IInv, TypeOK
  <2>3. LoopBound'
    <3>1. Cardinality(armed) \in Nat /\ Len(loops) \in Nat /\ stopsInTick \in Nat
      BY FS_CardinalityType DEF IInv, TypeOK
    <3> QED BY <1>1, <2>1, <3>1 DEF IInv, LoopBound, Own, Pending
  <2>4. TimerNamed' /\ ActiveAgrees'
    BY <1>1, <2>1 DEF IInv, TimerNamed, ActiveAgrees
  <2> QED BY <2>2, <2>3, <2>4 DEF IInv
<1> QED BY <1>3, <1>4 DEF Destroy

\* One tick of a loop, however it ends.
LEMMA TickKeeps ==
  ASSUME IInv, TickBegins \/ TickSkipped \/ TickReturns \/ TickThrows
  PROVE  IInv'
<1>1. CASE TickBegins
  <2>1. UNCHANGED <<roomState, started, running, timer, armed, accumulator, loops,
                    jumps, stopsInTick>> /\ ticking' = TRUE /\ loops # << >>
    BY <1>1 DEF TickBegins, Looping, engineVars
  <2>2. TypeOK'
    BY <2>1 DEF IInv, TypeOK
  <2> QED BY <2>1, <2>2 DEF IInv, LoopBound, Own, Pending, TimerNamed, ActiveAgrees
<1>2. ASSUME TickSkipped \/ TickReturns \/ TickThrows
      PROVE  /\ accumulator' \in Int /\ ticking' = FALSE /\ loops' # << >>
             /\ loops' \in Seq(Nat) /\ Len(loops') = Len(loops)
             /\ jumps' = jumps /\ stopsInTick' = stopsInTick
  <2>1. loops # << >> /\ Counted
    BY <1>2 DEF IInv, TypeOK, TickSkipped, TickReturns, TickThrows, Looping
  <2> QED BY <1>2, <2>1, CountedKeeps DEF IInv, TickSkipped, TickReturns, TickThrows
<1>3. CASE TickReturns
  <2>1. UNCHANGED <<roomState, started, running, timer, armed>>
    BY <1>3 DEF TickReturns, engineVars
  <2>2. TypeOK'
    BY <1>2, <1>3, <2>1 DEF IInv, TypeOK
  <2> QED BY <1>2, <1>3, <2>1, <2>2 DEF IInv, LoopBound, Own, Pending, TimerNamed, ActiveAgrees
<1>4. CASE TickSkipped \/ TickThrows
  <2>1. /\ running' = FALSE /\ timer' = None /\ armed' \subseteq Handle
        /\ IsFiniteSet(armed)' /\ Cardinality(armed') <= Cardinality(armed)
    BY <1>4, EngineStopsClears DEF IInv, TickSkipped, TickThrows
  <2>2. roomState' = "destroyed" /\ started' \in BOOLEAN
    BY <1>4, DestroysRoom DEF IInv, TypeOK, TickSkipped, TickThrows
  <2>3. Len(loops) \in Nat
    BY DEF IInv, TypeOK
  <2>4. TypeOK' /\ Len(loops') <= Len(loops)
    <3>1. /\ accumulator' \in Int /\ ticking' = FALSE
          /\ loops' \in Seq(Nat) /\ Len(loops') = Len(loops)
          /\ jumps' = jumps /\ stopsInTick' = stopsInTick
      BY <1>2, <1>4
    <3>2. TypeOK'
      BY <2>1, <2>2, <3>1 DEF IInv, TypeOK
    <3> QED BY <2>3, <3>1, <3>2
  <2> QED BY <1>2, <1>4, <2>1, <2>2, <2>4, DestroyedKeeps
<1> QED BY <1>1, <1>3, <1>4

\* A loop that ends turns a call on the stack into a timer.
LEMMA EndKeeps ==
  ASSUME IInv, LoopEnds
  PROVE  IInv'
<1>1. PICK h \in Handle \ armed : timer' = h /\ armed' = armed \cup {h}
  BY DEF LoopEnds
<1>2. /\ IsFiniteSet(armed)' /\ armed' \subseteq Handle /\ timer' \in armed'
      /\ Cardinality(armed) \in Nat /\ Cardinality(armed') = Cardinality(armed) + 1
  BY <1>1, FS_AddElement, FS_CardinalityType DEF IInv, TypeOK
<1>3. Len(loops) \in Nat \ {0}
  BY DEF IInv, TypeOK, LoopEnds, Looping
<1>4. /\ loops' \in Seq(Nat) /\ Len(loops') = Len(loops) - 1
      /\ ticking' \in BOOLEAN /\ (ticking' => loops' # << >>)
  <2>1. loops' = SubSeq(loops, 1, Len(loops) - 1) /\ ticking' = (Len(loops) > 1)
    BY DEF LoopEnds
  <2>2. \A i \in 1..(Len(loops) - 1) : loops[i] \in Nat
    BY <1>3 DEF IInv, TypeOK
  <2>3. loops' \in Seq(Nat) /\ Len(loops') = Len(loops) - 1
    <3>1. PICK n \in Nat : n = Len(loops) - 1
      BY <1>3
    <3>2. \A i \in 1..n : loops[i] \in Nat
      BY <2>2, <3>1
    <3>3. /\ SubSeq(loops, 1, n) \in Seq(Nat)
          /\ Len(SubSeq(loops, 1, n)) = IF 1 <= n THEN n - 1 + 1 ELSE 0
      BY <3>1, <3>2, SubSeqProperties
    <3>4. loops' = SubSeq(loops, 1, n)
      BY <2>1, <3>1, Zenon
    <3>5. Len(SubSeq(loops, 1, n)) = n
      BY <3>1, <3>3
    <3>6. loops' \in Seq(Nat) /\ Len(loops') = n
      BY <3>3, <3>4, <3>5, Zenon
    <3> QED BY <3>1, <3>6
  <2>4. ticking' \in BOOLEAN /\ (ticking' => Len(loops') > 0)
    <3>1. ticking' = (Len(loops) > 1) /\ Len(loops') = Len(loops) - 1
      BY <2>1, <2>3
    <3>2. (Len(loops) > 1) \in BOOLEAN
      OBVIOUS
    <3>3. ticking' \in BOOLEAN
      BY <3>1, <3>2, Zenon
    <3>4. ticking' => Len(loops') > 0
      <4>1. Len(loops) > 1 => Len(loops') > 0
        BY <1>3, <3>1
      <4> QED BY <3>1, <4>1, Zenon
    <3> QED BY <3>3, <3>4
  <2> QED BY <2>3, <2>4
<1>5. UNCHANGED <<roomState, started, running, accumulator, jumps, stopsInTick>>
  BY DEF LoopEnds
<1>6. TypeOK'
  BY <1>2, <1>4, <1>5 DEF IInv, TypeOK
<1>7. Pending' = Pending
  BY <1>2, <1>3, <1>4 DEF Pending
<1> QED BY <1>2, <1>5, <1>6, <1>7 DEF IInv, LoopBound, Own, TimerNamed, ActiveAgrees

\* A timer that fires turns into a call on the stack.
LEMMA FiresKeeps ==
  ASSUME IInv, NEW h \in Handle, NEW S \in SUBSET Int, Fires(h, S), jumps' \in 0..MaxJumps
  PROVE  IInv'
<1>1. PICK e \in S : Enters(e)
  BY DEF Fires
<1>2. /\ accumulator' \in Int /\ ticking' = FALSE
      /\ loops' \in Seq(Nat) /\ loops' # << >> /\ Len(loops') = Len(loops) + 1
  BY <1>1, EntersAdds DEF IInv
<1>3. /\ IsFiniteSet(armed)' /\ armed' \subseteq Handle
      /\ Cardinality(armed) \in Nat /\ Cardinality(armed') = Cardinality(armed) - 1
  BY Fewer DEF IInv, TypeOK, Fires
<1>4. UNCHANGED <<roomState, started, running, timer, stopsInTick>>
  BY DEF Fires
<1>5. TypeOK'
  BY <1>2, <1>3, <1>4 DEF IInv, TypeOK
<1>6. Pending' = Pending
  BY <1>2, <1>3 DEF Pending, IInv, TypeOK
<1> QED BY <1>2, <1>3, <1>4, <1>5, <1>6 DEF IInv, LoopBound, Own, TimerNamed, ActiveAgrees

\* The delays a timer may have are whole numbers of milliseconds.
LEMMA SinceLastIsInt ==
  ASSUME NEW h
  PROVE  SinceLast(h) \in SUBSET Int
BY TimeAssumption DEF SinceLast

\* A timer that finds the room stopped or destroyed is used up.
LEMMA LateKeeps ==
  ASSUME IInv, NEW h \in Handle, TimerFiresLate(h)
  PROVE  IInv'
<1>1. /\ IsFiniteSet(armed \ {h})
      /\ Cardinality(armed) \in Nat /\ Cardinality(armed \ {h}) = Cardinality(armed) - 1
  BY Fewer DEF IInv, TimerFiresLate
<1>2. /\ IsFiniteSet(armed)' /\ armed' \subseteq Handle
      /\ Cardinality(armed') \in Nat /\ Cardinality(armed') < Cardinality(armed)
  <2>1. CASE ~running
    BY <1>1, <2>1, FS_CardinalityType DEF IInv, TypeOK, TimerFiresLate
  <2>2. CASE running
    <3>1. armed' = (armed \ {h}) \ {timer}
      BY <2>2 DEF TimerFiresLate
    <3>2. /\ IsFiniteSet((armed \ {h}) \ {timer})
          /\ Cardinality((armed \ {h}) \ {timer}) \in Nat
          /\ Cardinality((armed \ {h}) \ {timer}) <= Cardinality(armed \ {h})
      BY <1>1, Fewer
    <3> QED BY <1>1, <3>1, <3>2 DEF IInv, TypeOK
  <2> QED BY <2>1, <2>2 DEF IInv, TypeOK
<1>3. /\ UNCHANGED <<roomState, started, accumulator, loops, ticking, jumps, stopsInTick>>
      /\ running' = FALSE /\ timer' \in Handle \cup {None}
  BY DEF IInv, TypeOK, TimerFiresLate, loopVars
<1>4. TypeOK'
  BY <1>2, <1>3 DEF IInv, TypeOK
<1>5. CASE roomState = "destroyed"
  <2>1. Len(loops') <= Len(loops) /\ Cardinality(armed') <= Cardinality(armed)
    BY <1>1, <1>2, <1>3 DEF IInv, TypeOK
  <2> QED BY <1>2, <1>3, <1>4, <1>5, <2>1, DestroyedKeeps
<1>6. CASE roomState = "active"
  <2>1. ~running
    BY <1>6 DEF TimerFiresLate, Live
  <2>2. Len(loops) \in Nat /\ stopsInTick \in Nat
    BY DEF IInv, TypeOK
  <2>3. LoopBound'
    BY <1>1, <1>2, <1>3, <1>6, <2>1, <2>2 DEF IInv, LoopBound, Own, Pending
  <2>4. TimerNamed' /\ ActiveAgrees'
    BY <1>3, <1>6, <2>1 DEF IInv, TypeOK, TimerNamed, ActiveAgrees
  <2> QED BY <1>2, <1>4, <2>3, <2>4 DEF IInv
<1> QED BY <1>5, <1>6 DEF IInv, TypeOK

\* IInv holds initially and every step of the engine and its room keeps it.
THEOREM Invariance == Spec => []IInv
<1>1. Init => IInv
  <2> SUFFICES ASSUME Init
               PROVE  IInv
    OBVIOUS
  <2>1. jumps \in 0..MaxJumps /\ stopsInTick \in 0..MaxStops /\ accumulator \in Int
    BY TimeAssumption, SMT DEF Init
  <2>2. loops \in Seq(Nat) /\ Len(loops) = 0
    BY DEF Init
  <2>3. TypeOK
    BY <2>1, <2>2, Zenon DEF Init, TypeOK
  <2>4. IsFiniteSet(armed) /\ Cardinality(armed) = 0
    BY FS_EmptySet DEF Init
  <2>5. LoopBound
    BY <2>2, <2>4 DEF Init, LoopBound, Own, Pending
  <2>6. TimerNamed /\ ActiveAgrees
    BY Zenon DEF Init, TimerNamed, ActiveAgrees
  <2> QED BY <2>3, <2>4, <2>5, <2>6 DEF IInv
<1>2. IInv /\ [Next]_vars => IInv'
  <2> SUFFICES ASSUME IInv, [Next]_vars
               PROVE  IInv'
    OBVIOUS
  <2>1. CASE Start \/ Stop \/ Destroy
    BY <2>1, StartKeeps, StopKeeps, DestroyKeeps
  <2>2. CASE LoopStep
    BY <2>2, TickKeeps, EndKeeps DEF LoopStep
  <2>3. ASSUME NEW h \in Handle, TimerFires(h)
        PROVE  IInv'
    <3>1. Fires(h, SinceLast(h)) /\ jumps' \in 0..MaxJumps
      BY <2>3 DEF IInv, TypeOK, TimerFires
    <3> QED BY <3>1, SinceLastIsInt, FiresKeeps
  <2>4. ASSUME NEW h \in Handle, TimerFiresAfterJump(h)
        PROVE  IInv'
    <3>1. Fires(h, Jump) /\ jumps' \in 0..MaxJumps
      BY <2>4, TimeAssumption DEF IInv, TypeOK, TimerFiresAfterJump
    <3>2. Jump \in SUBSET Int
      BY TimeAssumption
    <3> QED BY <3>1, <3>2, FiresKeeps
  <2>5. ASSUME NEW h \in Handle, TimerFiresLate(h)
        PROVE  IInv'
    BY <2>5, LateKeeps
  <2>6. CASE UNCHANGED vars
    BY <2>6 DEF IInv, TypeOK, LoopBound, Own, Pending, TimerNamed, ActiveAgrees,
                vars, engineVars, loopVars
  <2> QED BY <2>1, <2>2, <2>3, <2>4, <2>5, <2>6 DEF Next
<1> QED BY <1>1, <1>2, PTL DEF Spec

\* The engine keeps its types: in particular the accumulator stays a whole
\* number of milliseconds for every tick rate, one that makes the step 0 too.
THEOREM TypeCorrect == Spec => []TypeOK
<1>1. IInv => TypeOK
  BY DEF IInv
<1> QED BY <1>1, Invariance, PTL

\* A room has one loop, and one more at most for each time that a tick has
\* stopped its own room: for any number of timers, any step, any behaviour of
\* the clock, and whatever ticks call.
THEOREM OneLoop == Spec => []SingleLoop
<1>1. IInv => SingleLoop
  <2> SUFFICES ASSUME IInv
               PROVE  SingleLoop
    OBVIOUS
  <2>1. Cardinality(armed) \in Nat /\ Len(loops) \in Nat /\ stopsInTick \in Nat
    BY FS_CardinalityType DEF IInv, TypeOK
  <2>2. Pending <= 1 + stopsInTick
    BY <2>1 DEF IInv, LoopBound, Own, Pending
  <2> QED BY <2>2 DEF IInv, TimerNamed, SingleLoop
<1> QED BY <1>1, Invariance, PTL

\* A room that is active and not started has no loop but those that ticks have
\* left by stopping it; none at all, on the stack or armed, if no tick ever did,
\* which is all that start() relies on when it enters a loop unasked.
THEOREM StartsClean ==
  Spec => [](roomState = "active" /\ ~started => Pending <= stopsInTick)
<1>1. IInv => (roomState = "active" /\ ~started => Pending <= stopsInTick)
  <2> SUFFICES ASSUME IInv, roomState = "active", ~started
               PROVE  Pending <= stopsInTick
    OBVIOUS
  <2>1. ~running /\ stopsInTick \in Nat
    BY DEF IInv, ActiveAgrees, TypeOK
  <2> QED BY <2>1 DEF IInv, LoopBound, Own
<1> QED BY <1>1, Invariance, PTL
===============================================================================
