----------------------------- MODULE GatewayProofs -----------------------------
(***************************************************************************)
(* Theorems about Gateway and its two parts, for any set of connections,   *)
(* any intervals, timeouts and sizes, and any limits of the input path.    *)
(***************************************************************************)
EXTENDS Gateway, FiniteSetTheorems, FunctionTheorems, TLAPS

\* What the sockets, the sessions and the heartbeat have to do with each other.
SocketInv ==
  /\ sessions = {s \in Session : socket[s] \in {"open", "closing"}}
  /\ Open # {} => server = "listening"
  /\ server = "listening" => heartbeat
  /\ \A s \in Session \ Responsive : pings[s] = {}

\* A client that answers has been heard since the last heartbeat, or it has a
\* PING to answer that is not much younger than its silence.
AnswerInv ==
  \A s \in Responsive \cap Open :
    \/ pings[s] = {} /\ unheard[s] <= sinceBeat
    \/ \E a \in pings[s] : unheard[s] <= a + Interval + Lag

\* A silence beyond the timeout has begun after the last heartbeat.
BoundInv ==
  /\ \A s \in Open : unheard[s] <= Timeout + sinceBeat
  /\ MaxBuffered >= 0 => \A s \in Session : buffered[s] <= MaxBuffered + MaxPacket

IInv == TransportTypeOK /\ SocketInv /\ AnswerInv /\ BoundInv

USE ClientAssumption, TimeAssumption, SizeAssumption
-------------------------------------------------------------------------------
LEMMA InitHolds == TransportInit => IInv
  <1>. SUFFICES ASSUME TransportInit PROVE IInv
    OBVIOUS
  <1>1. Open = {}
    BY DEF TransportInit, Open
  <1>2. TransportTypeOK
    <2>1. sinceBeat \in 0..(Interval + Lag)
      BY DEF TransportInit
    <2>2. pings \in [Session -> SUBSET (0..Delay)]
      BY DEF TransportInit
    <2>3. /\ socket \in [Session -> {"none", "open", "closing", "closed"}]
          /\ unheard \in [Session -> Nat] /\ buffered \in [Session -> Nat]
      BY DEF TransportInit
    <2>4. called \in {<< >>} \cup (Events \X Session)
      BY Zenon DEF TransportInit
    <2>5. /\ server \in {"new", "listening", "failed", "closing", "closed"}
          /\ heartbeat \in BOOLEAN /\ sessions \subseteq Session
      BY DEF TransportInit
    <2>. QED BY <2>1, <2>2, <2>3, <2>4, <2>5 DEF TransportTypeOK
  <1>3. SocketInv
    BY <1>1 DEF TransportInit, SocketInv
  <1>4. AnswerInv /\ BoundInv
    BY <1>1 DEF TransportInit, AnswerInv, BoundInv
  <1>. QED BY <1>2, <1>3, <1>4 DEF IInv

\* What close() of some sockets leaves of the state of all.
LEMMA CloseSocketsTypes ==
  ASSUME TransportTypeOK, NEW S \in SUBSET Session, CloseSockets(S)
  PROVE  /\ socket' \in [Session -> {"none", "open", "closing", "closed"}]
         /\ unheard' \in [Session -> Nat]
         /\ pings' \in [Session -> SUBSET (0..Delay)]
         /\ buffered' \in [Session -> Nat]
         /\ Open' = Open \ S
         /\ \A s \in Session : socket'[s] \in {"open", "closing"}
                                 <=> socket[s] \in {"open", "closing"}
         /\ \A s \in Session : unheard'[s] \in {0, unheard[s]}
         /\ \A s \in Session : pings'[s] \in {{}, pings[s]}
         /\ \A s \in Session : buffered'[s] \in {0, buffered[s]}
         /\ \A s \in Open' : unheard'[s] = unheard[s] /\ pings'[s] = pings[s]
  <1>. USE DEF TransportTypeOK
  <1>1. socket' = [s \in Session |-> IF s \in S /\ socket[s] = "open" THEN "closing" ELSE socket[s]]
    BY DEF CloseSockets, Closing, Open
  <1>2. /\ unheard' = [s \in Session |-> IF s \in S THEN 0 ELSE unheard[s]]
        /\ pings' = [s \in Session |-> IF s \in S THEN {} ELSE pings[s]]
        /\ buffered' = [s \in Session |-> IF s \in S THEN 0 ELSE buffered[s]]
    BY DEF CloseSockets, Dropped
  <1>3. Open' = Open \ S
    BY <1>1 DEF Open
  <1>4. socket' \in [Session -> {"none", "open", "closing", "closed"}]
    BY <1>1
  <1>5. \A s \in Session : socket'[s] \in {"open", "closing"}
                             <=> socket[s] \in {"open", "closing"}
    BY <1>1
  <1>6. unheard' \in [Session -> Nat] /\ \A s \in Session : unheard'[s] \in {0, unheard[s]}
    BY <1>2
  <1>7. /\ pings' \in [Session -> SUBSET (0..Delay)]
        /\ \A s \in Session : pings'[s] \in {{}, pings[s]}
    BY <1>2
  <1>8. buffered' \in [Session -> Nat] /\ \A s \in Session : buffered'[s] \in {0, buffered[s]}
    BY <1>2
  <1>9. \A s \in Open' : unheard'[s] = unheard[s] /\ pings'[s] = pings[s]
    BY <1>2, <1>3 DEF Open
  <1>. QED BY <1>3, <1>4, <1>5, <1>6, <1>7, <1>8, <1>9

\* Nothing that matters to the silence of those that stay open has changed.
LEMMA Calm ==
  ASSUME AnswerInv, sinceBeat' = sinceBeat, Open' \subseteq Open,
         \A s \in Open' : unheard'[s] = unheard[s] /\ pings'[s] = pings[s]
  PROVE  AnswerInv'
  BY DEF AnswerInv

LEMMA ListenKeeps ==
  ASSUME IInv, Listen \/ ListenFails PROVE IInv'
  <1>. USE DEF IInv
  <1>1. TransportTypeOK' /\ SocketInv'
    BY DEF Listen, ListenFails, TransportTypeOK, SocketInv, Open, sessionVars
  <1>2. AnswerInv'
    BY Calm DEF Listen, ListenFails, Open, sessionVars
  <1>3. BoundInv'
    BY DEF Listen, ListenFails, BoundInv, Open, sessionVars
  <1>. QED BY <1>1, <1>2, <1>3

LEMMA AcceptKeeps ==
  ASSUME IInv, NEW s \in Session, Accept(s) PROVE IInv'
  <1>. USE DEF IInv, Accept, timeVars, TransportTypeOK
  <1>1. TransportTypeOK'
    BY DEF Events
  <1>2. Open' = Open \cup {s}
    BY DEF Open
  <1>3. SocketInv'
    BY <1>2 DEF SocketInv
  <1>4. AnswerInv'
    <2>. SUFFICES ASSUME NEW t \in Responsive \cap Open'
                  PROVE  \/ pings'[t] = {} /\ unheard'[t] <= sinceBeat'
                         \/ \E a \in pings'[t] : unheard'[t] <= a + Interval + Lag
      BY DEF AnswerInv
    <2>1. CASE t = s
      <3>1. unheard'[t] = 0 /\ pings'[t] \subseteq 0..Delay
        BY <2>1
      <3>. QED BY <3>1
    <2>2. CASE t # s
      BY <1>2, <2>2 DEF AnswerInv
    <2>. QED BY <2>1, <2>2
  <1>5. BoundInv'
    BY <1>2 DEF BoundInv
  <1>. QED BY <1>1, <1>3, <1>4, <1>5

LEMMA MessageKeeps ==
  ASSUME IInv, NEW s \in Session, Message(s) PROVE IInv'
  <1>. USE DEF IInv, Message, timeVars, sessionVars
  <1>1. TransportTypeOK' /\ SocketInv'
    BY DEF TransportTypeOK, SocketInv, Open, Events
  <1>2. AnswerInv'
    BY Calm DEF Open
  <1>3. BoundInv'
    BY DEF BoundInv, Open
  <1>. QED BY <1>1, <1>2, <1>3

\* BadMessage, Disconnect, Send to one that is too slow and Close do no more than
\* close sockets, stop the heartbeat and leave the state "listening".
LEMMA ClosingKeeps ==
  ASSUME IInv, NEW S \in SUBSET Session, CloseSockets(S),
         UNCHANGED <<sinceBeat, sessions, called>>,
         \/ UNCHANGED <<server, heartbeat>>
         \/ server' = "closing" /\ heartbeat' = FALSE /\ sessions \subseteq S
  PROVE  IInv'
  <1>. USE DEF IInv
  <1>1. TransportTypeOK'
    BY CloseSocketsTypes DEF TransportTypeOK
  <1>2. SocketInv'
    <2>1. sessions' = {s \in Session : socket'[s] \in {"open", "closing"}}
      BY CloseSocketsTypes DEF SocketInv
    <2>2. Open' # {} => server' = "listening"
      <3>1. Open \subseteq sessions
        BY DEF SocketInv, Open
      <3>. QED BY <3>1, CloseSocketsTypes DEF SocketInv
    <2>3. \A s \in Session \ Responsive : pings'[s] = {}
      BY CloseSocketsTypes DEF SocketInv
    <2>4. server' = "listening" => heartbeat'
      BY DEF SocketInv
    <2>. QED BY <2>1, <2>2, <2>3, <2>4 DEF SocketInv
  <1>3. AnswerInv'
    BY CloseSocketsTypes, Calm
  <1>4. BoundInv'
    <2>1. \A s \in Open' : unheard'[s] <= Timeout + sinceBeat'
      BY CloseSocketsTypes DEF BoundInv
    <2>2. ASSUME MaxBuffered >= 0, NEW s \in Session
          PROVE  buffered'[s] <= MaxBuffered + MaxPacket
      BY <2>2, CloseSocketsTypes DEF BoundInv
    <2>. QED BY <2>1, <2>2 DEF BoundInv
  <1>. QED BY <1>1, <1>2, <1>3, <1>4

LEMMA PongKeeps ==
  ASSUME IInv, NEW s \in Session, Pong(s) PROVE IInv'
  <1>. USE DEF IInv, Pong, timeVars, TransportTypeOK
  <1>1. TransportTypeOK'
    BY DEF Events
  <1>2. Open' = Open
    BY DEF Open
  <1>3. SocketInv'
    BY <1>2 DEF SocketInv
  <1>4. AnswerInv'
    <2>. SUFFICES ASSUME NEW t \in Responsive \cap Open'
                  PROVE  \/ pings'[t] = {} /\ unheard'[t] <= sinceBeat'
                         \/ \E a \in pings'[t] : unheard'[t] <= a + Interval + Lag
      BY DEF AnswerInv
    <2>1. CASE t = s
      <3>1. unheard'[t] = 0
        BY <2>1
      <3>2. t \in Session /\ pings'[t] \subseteq 0..Delay
        BY <1>1
      <3>3. ASSUME NEW a \in pings'[t] PROVE unheard'[t] <= a + Interval + Lag
        <4>1. a \in Nat
          BY <3>2, <3>3
        <4>. QED BY <3>1, <4>1
      <3>4. unheard'[t] <= sinceBeat'
        BY <3>1
      <3>. QED BY <3>3, <3>4
    <2>2. CASE t # s
      BY <1>2, <2>2 DEF AnswerInv
    <2>. QED BY <2>1, <2>2
  <1>5. BoundInv'
    BY <1>2 DEF BoundInv, Open
  <1>. QED BY <1>1, <1>3, <1>4, <1>5

LEMMA SocketClosesKeeps ==
  ASSUME IInv, NEW s \in Session, SocketCloses(s) PROVE IInv'
  <1>. USE DEF IInv, SocketCloses, timeVars, TransportTypeOK, Dropped
  <1>1. TransportTypeOK'
    BY DEF Events
  <1>2. Open' = Open \ {s}
    BY DEF Open
  <1>3. SocketInv'
    BY <1>2 DEF SocketInv
  <1>4. AnswerInv'
    <2>1. \A t \in Open' : unheard'[t] = unheard[t] /\ pings'[t] = pings[t]
      BY <1>2 DEF Open
    <2>. QED BY <1>2, <2>1, Calm
  <1>5. BoundInv'
    BY <1>2 DEF BoundInv, Open
  <1>. QED BY <1>1, <1>3, <1>4, <1>5

\* The heartbeat moves the silence of nobody, and asks those it leaves open.
LEMMA BeatKeeps ==
  ASSUME IInv, Beat PROVE IInv'
  <1>. USE DEF IInv, TransportTypeOK
  <1>. DEFINE closed == TimedOut \cup {s \in Open : TooSlow(s)}
              pinged == Open \ closed
  <1>1. /\ heartbeat /\ sinceBeat' = 0
        /\ socket' = Closing(closed)
        /\ unheard' = [s \in Session |-> IF s \in closed THEN 0 ELSE unheard[s]]
        /\ pings' = [s \in Session |-> IF s \in pinged \cap Responsive
                                        THEN pings[s] \cup {0}
                                        ELSE IF s \in closed THEN {} ELSE pings[s]]
        /\ buffered' = [s \in Session |-> IF s \in pinged THEN buffered[s] + PingSize ELSE 0]
        /\ UNCHANGED <<server, heartbeat, sessions, called>>
    BY DEF Beat, UnheardAfterBeat, Dropped
  <1>2. closed \subseteq Open /\ Open \subseteq Session
    BY DEF TimedOut, Open
  <1>3. socket' = [s \in Session |-> IF s \in closed THEN "closing" ELSE socket[s]]
    BY <1>1, <1>2 DEF Closing
  <1>. HIDE DEF closed
  <1>4. Open' = pinged
    BY <1>2, <1>3 DEF Open
  <1>5. TransportTypeOK'
    <2>1. pings' \in [Session -> SUBSET (0..Delay)]
      <3>1. 0 \in 0..Delay
        OBVIOUS
      <3>. QED BY <1>1, <3>1
    <2>. QED BY <1>1, <1>3, <2>1
  <1>6. SocketInv'
    <2>1. \A s \in Session : socket'[s] \in {"open", "closing"} <=> socket[s] \in {"open", "closing"}
      BY <1>2, <1>3 DEF Open
    <2>2. \A s \in Session \ Responsive : pings'[s] = {}
      BY <1>1 DEF SocketInv
    <2>. QED BY <1>1, <1>4, <2>1, <2>2 DEF SocketInv
  <1>7. AnswerInv'
    <2>. SUFFICES ASSUME NEW s \in Responsive \cap pinged
                  PROVE  \E a \in pings'[s] : unheard'[s] <= a + Interval + Lag
      BY <1>4 DEF AnswerInv
    <2>1. s \in Session /\ unheard'[s] = unheard[s] /\ pings'[s] = pings[s] \cup {0}
      BY <1>1, <1>2
    <2>2. CASE pings[s] = {} /\ unheard[s] <= sinceBeat
      <3>1. unheard[s] <= 0 + Interval + Lag
        BY <2>1, <2>2
      <3>. QED BY <2>1, <3>1
    <2>3. CASE \E a \in pings[s] : unheard[s] <= a + Interval + Lag
      BY <2>1, <2>3
    <2>. QED BY <2>2, <2>3 DEF AnswerInv
  <1>8. BoundInv'
    <2>1. ASSUME NEW s \in Open' PROVE unheard'[s] <= Timeout + sinceBeat'
      <3>1. s \in Open /\ s \notin closed /\ s \in Session
        BY <1>2, <1>4, <2>1
      <3>2. s \notin TimedOut
        BY <3>1 DEF closed
      <3>. QED BY <1>1, <3>1, <3>2 DEF TimedOut
    <2>2. ASSUME MaxBuffered >= 0, NEW s \in Session
          PROVE  buffered'[s] <= MaxBuffered + MaxPacket
      <3>1. CASE s \in pinged
        <4>1. ~TooSlow(s)
          BY <3>1 DEF closed
        <4>. QED BY <1>1, <2>2, <3>1, <4>1 DEF TooSlow
      <3>2. CASE s \notin pinged
        BY <1>1, <2>2, <3>2
      <3>. QED BY <3>1, <3>2
    <2>. QED BY <2>1, <2>2 DEF BoundInv
  <1>. QED BY <1>5, <1>6, <1>7, <1>8

LEMMA SendKeeps ==
  ASSUME IInv, NEW s \in Session, NEW n \in 1..MaxPacket, Send(s, n) PROVE IInv'
  <1>1. CASE TooSlow(s)
    <2>1. /\ CloseSockets({s})
          /\ UNCHANGED <<server, heartbeat, sinceBeat, sessions, called>>
      BY <1>1 DEF Send, timeVars
    <2>. QED BY <2>1, ClosingKeeps
  <1>2. CASE ~TooSlow(s)
    <2>. USE DEF IInv
    <2>1. /\ buffered' = [buffered EXCEPT ![s] = @ + n]
          /\ UNCHANGED <<server, heartbeat, sinceBeat, socket, sessions, unheard, pings, called>>
      BY <1>2 DEF Send, timeVars
    <2>2. TransportTypeOK' /\ SocketInv'
      BY <2>1 DEF TransportTypeOK, SocketInv, Open
    <2>3. AnswerInv'
      BY <2>1, Calm DEF Open
    <2>4. BoundInv'
      BY <1>2, <2>1 DEF BoundInv, Open, TooSlow, TransportTypeOK
    <2>. QED BY <2>2, <2>3, <2>4
  <1>. QED BY <1>1, <1>2

LEMMA DrainKeeps ==
  ASSUME IInv, NEW s \in Session, NEW n \in 1..MaxPacket, Drain(s, n) PROVE IInv'
  <1>. USE DEF IInv, Drain, timeVars
  <1>1. TransportTypeOK' /\ SocketInv'
    BY DEF TransportTypeOK, SocketInv, Open
  <1>2. AnswerInv'
    BY Calm DEF Open
  <1>3. BoundInv'
    BY DEF BoundInv, Open, TransportTypeOK
  <1>. QED BY <1>1, <1>2, <1>3

LEMMA ClosedKeeps ==
  ASSUME IInv, Closed PROVE IInv'
  <1>. USE DEF IInv, Closed, timeVars, sessionVars
  <1>1. TransportTypeOK' /\ SocketInv'
    BY DEF TransportTypeOK, SocketInv, Open
  <1>2. AnswerInv'
    BY Calm DEF Open
  <1>3. BoundInv'
    BY DEF BoundInv, Open
  <1>. QED BY <1>1, <1>2, <1>3

\* Time passes for the silence of a client, the heartbeat and a PING alike.
LEMMA ElapseKeeps ==
  ASSUME IInv, Elapse PROVE IInv'
  <1>. USE DEF IInv, TransportTypeOK
  <1>1. /\ sinceBeat' = IF heartbeat THEN sinceBeat + 1 ELSE sinceBeat
        /\ unheard' = [s \in Session |-> IF s \in Open THEN unheard[s] + 1 ELSE unheard[s]]
        /\ pings' = [s \in Session |-> {a + 1 : a \in pings[s]}]
        /\ UNCHANGED <<server, heartbeat, socket, sessions, buffered, called>>
    BY DEF Elapse
  <1>2. Open' = Open /\ Open \subseteq Session
    BY <1>1 DEF Open
  <1>3. Open # {} => sinceBeat' = sinceBeat + 1
    BY <1>1 DEF SocketInv
  <1>4. TransportTypeOK'
    <2>1. sinceBeat' \in 0..(Interval + Lag)
      <3>1. heartbeat => sinceBeat # Interval + Lag
        BY DEF Elapse, BeatDue
      <3>2. CASE heartbeat
        BY <1>1, <3>1, <3>2
      <3>3. CASE ~heartbeat
        BY <1>1, <3>3
      <3>. QED BY <3>2, <3>3
    <2>2. ASSUME NEW s \in Session PROVE {a + 1 : a \in pings[s]} \subseteq 0..Delay
      <3>1. CASE s \in Responsive
        <4>1. Delay \notin pings[s] /\ pings[s] \subseteq 0..Delay
          BY <3>1 DEF Elapse, PongDue
        <4>. QED BY <4>1
      <3>2. CASE s \notin Responsive
        BY <3>2 DEF SocketInv
      <3>. QED BY <3>1, <3>2
    <2>3. pings' \in [Session -> SUBSET (0..Delay)]
      BY <1>1, <2>2
    <2>4. unheard' \in [Session -> Nat]
      BY <1>1
    <2>. QED BY <1>1, <2>1, <2>3, <2>4
  <1>5. SocketInv'
    <2>1. \A s \in Session \ Responsive : pings'[s] = {}
      BY <1>1 DEF SocketInv
    <2>. QED BY <1>1, <1>2, <2>1 DEF SocketInv
  <1>6. AnswerInv'
    <2>. SUFFICES ASSUME NEW s \in Responsive \cap Open
                  PROVE  \/ pings'[s] = {} /\ unheard'[s] <= sinceBeat'
                         \/ \E a \in pings'[s] : unheard'[s] <= a + Interval + Lag
      BY <1>2 DEF AnswerInv
    <2>1. s \in Session /\ unheard'[s] = unheard[s] + 1 /\ unheard[s] \in Nat
      BY <1>1, <1>2
    <2>2. CASE pings[s] = {} /\ unheard[s] <= sinceBeat
      BY <1>1, <1>3, <2>1, <2>2
    <2>3. CASE \E a \in pings[s] : unheard[s] <= a + Interval + Lag
      <3>1. PICK a \in pings[s] : unheard[s] <= a + Interval + Lag
        BY <2>3
      <3>2. a + 1 \in pings'[s] /\ a \in Nat
        BY <1>1, <2>1, <3>1
      <3>3. unheard'[s] <= (a + 1) + Interval + Lag
        BY <2>1, <3>1, <3>2
      <3>. QED BY <3>2, <3>3
    <2>. QED BY <2>2, <2>3 DEF AnswerInv
  <1>7. BoundInv'
    BY <1>1, <1>2, <1>3 DEF BoundInv
  <1>. QED BY <1>4, <1>5, <1>6, <1>7

LEMMA StepKeeps ==
  ASSUME IInv, [Steps \/ Elapse]_transportVars PROVE IInv'
  <1>1. CASE Listen \/ ListenFails
    BY <1>1, ListenKeeps
  <1>2. CASE Beat
    BY <1>2, BeatKeeps
  <1>3. CASE Close
    <2>1. sessions \in SUBSET Session
      BY DEF IInv, TransportTypeOK
    <2>. QED BY <1>3, <2>1, ClosingKeeps DEF Close
  <1>4. CASE Closed
    BY <1>4, ClosedKeeps
  <1>5. ASSUME NEW s \in Session, Accept(s) \/ Message(s) \/ Pong(s) \/ SocketCloses(s)
        PROVE  IInv'
    BY <1>5, AcceptKeeps, MessageKeeps, PongKeeps, SocketClosesKeeps
  <1>6. ASSUME NEW s \in Session, BadMessage(s) \/ Disconnect(s) PROVE IInv'
    <2>1. /\ CloseSockets({s})
          /\ UNCHANGED <<server, heartbeat, sinceBeat, sessions, called>>
      BY <1>6 DEF BadMessage, Disconnect, timeVars
    <2>. QED BY <2>1, ClosingKeeps
  <1>7. ASSUME NEW s \in Session, NEW n \in 1..MaxPacket, Send(s, n) \/ Drain(s, n)
        PROVE  IInv'
    BY <1>7, SendKeeps, DrainKeeps
  <1>8. CASE Elapse
    BY <1>8, ElapseKeeps
  <1>9. CASE UNCHANGED transportVars
    BY <1>9 DEF transportVars, timeVars, sessionVars, IInv, TransportTypeOK,
                SocketInv, AnswerInv, BoundInv, Open
  <1>. QED BY <1>1, <1>2, <1>3, <1>4, <1>5, <1>6, <1>7, <1>8, <1>9 DEF Steps
-------------------------------------------------------------------------------
\* The inductive invariant of the transport.
THEOREM Invariance == TransportSpec => []IInv
  BY InitHolds, StepKeeps, PTL DEF TransportSpec

\* The types of the transport: no buffer below zero, no PING older than Delay.
THEOREM TypeCorrect == TransportSpec => []TransportTypeOK
  <1>1. IInv => TransportTypeOK
    BY DEF IInv
  <1>. QED BY <1>1, Invariance, PTL

\* With a timeout of interval, lag and round trip at least, the heartbeat never
\* closes a client that answers.
THEOREM AnsweringIsEnough == TransportSpec => []NeverTimedOut
  <1>1. IInv => NeverTimedOut
    <2>. SUFFICES ASSUME IInv, Interval + Lag + Delay <= Timeout,
                         NEW s \in Responsive \cap TimedOut
                  PROVE  FALSE
      BY DEF NeverTimedOut
    <2>1. s \in Responsive \cap Open /\ s \in Session /\ unheard[s] > Timeout
      BY DEF TimedOut, Open
    <2>2. /\ unheard[s] \in Nat /\ pings[s] \subseteq 0..Delay
          /\ sinceBeat \in 0..(Interval + Lag)
      BY <2>1 DEF IInv, TransportTypeOK
    <2>. QED BY <2>1, <2>2 DEF IInv, AnswerInv
  <1>. QED BY <1>1, Invariance, PTL

\* No socket is kept open beyond its limits.
THEOREM NothingIsKept == TransportSpec => []KeptWithinBounds
  <1>1. IInv => KeptWithinBounds
    <2>. SUFFICES ASSUME IInv, NEW s \in Open
                  PROVE  /\ unheard[s] <= Timeout + Interval + Lag
                         /\ MaxBuffered >= 0 => buffered[s] <= MaxBuffered + MaxPacket
      BY DEF KeptWithinBounds
    <2>1. /\ s \in Session /\ unheard[s] \in Nat
          /\ sinceBeat \in 0..(Interval + Lag)
      BY DEF IInv, TransportTypeOK, Open
    <2>. QED BY <2>1 DEF IInv, BoundInv
  <1>. QED BY <1>1, Invariance, PTL
-------------------------------------------------------------------------------
LEMMA ContractInit == TransportInit => Contract!Init
  BY DEF TransportInit, Contract!Init, Phase

\* Only Accept and SocketCloses move the phase of a session.
LEMMA SamePhases ==
  ASSUME IInv, sessions' = sessions,
         \A s \in Session : s \notin sessions => socket'[s] = socket[s]
  PROVE  [s \in Session |-> Phase(s)]' = [s \in Session |-> Phase(s)]
  BY DEF Phase

LEMMA ContractStep ==
  ASSUME IInv, [Steps \/ Elapse]_transportVars PROVE [Contract!Next]_(Contract!vars)
  <1>. USE DEF IInv, TransportTypeOK
  <1>. DEFINE phases == [s \in Session |-> Phase(s)]
  <1>1. ASSUME NEW s \in Session, Accept(s) PROVE Contract!Next
    <2>1. phases[s] = "new"
      BY <1>1 DEF Accept, Phase, SocketInv
    <2>2. phases' = [phases EXCEPT ![s] = "connected"]
      BY <1>1 DEF Accept, Phase
    <2>. QED BY <1>1, <2>1, <2>2 DEF Accept, Contract!Next, Contract!Connects
  <1>2. ASSUME NEW s \in Session, Message(s) \/ Pong(s) PROVE Contract!Next
    <2>1. s \in sessions
      BY <1>2 DEF Message, Pong, SocketInv, Open
    <2>2. phases[s] = "connected" /\ phases' = phases
      BY <1>2, <2>1 DEF Message, Pong, Phase, sessionVars
    <2>. QED BY <1>2, <2>2 DEF Message, Pong, Contract!Next, Contract!Speaks
  <1>3. ASSUME NEW s \in Session, SocketCloses(s) PROVE Contract!Next
    <2>1. phases[s] = "connected"
      BY <1>3 DEF SocketCloses, Phase, SocketInv
    <2>2. phases' = [phases EXCEPT ![s] = "gone"]
      BY <1>3 DEF SocketCloses, Phase
    <2>. QED BY <1>3, <2>1, <2>2 DEF SocketCloses, Contract!Next, Contract!Disconnects
  <1>4. ASSUME sessions' = sessions, called' = called,
               \A s \in Session : s \notin sessions => socket'[s] = socket[s]
        PROVE  UNCHANGED Contract!vars
    BY <1>4, SamePhases DEF Contract!vars
  <1>5. ASSUME NEW S \in SUBSET Session, CloseSockets(S), sessions' = sessions, called' = called
        PROVE  UNCHANGED Contract!vars
    <2>1. \A s \in Session : s \notin sessions => socket'[s] = socket[s]
      BY <1>5 DEF CloseSockets, Closing, Open, SocketInv
    <2>. QED BY <1>4, <1>5, <2>1
  <1>6. CASE Beat
    <2>1. \A s \in Session : s \notin sessions => socket'[s] = socket[s]
      BY <1>6 DEF Beat, Closing, Open, SocketInv
    <2>. QED BY <1>4, <1>6, <2>1 DEF Beat
  <1>7. CASE Close
    BY <1>5, <1>7 DEF Close
  <1>8. CASE Listen \/ ListenFails \/ Closed \/ Elapse \/ UNCHANGED transportVars
    BY <1>4, <1>8 DEF Listen, ListenFails, Closed, Elapse, transportVars, sessionVars
  <1>9. ASSUME NEW s \in Session, BadMessage(s) \/ Disconnect(s) PROVE UNCHANGED Contract!vars
    BY <1>5, <1>9 DEF BadMessage, Disconnect
  <1>10. ASSUME NEW s \in Session, NEW n \in 1..MaxPacket, Send(s, n) \/ Drain(s, n)
         PROVE  UNCHANGED Contract!vars
    <2>1. called' = called /\ sessions' = sessions /\ (CloseSockets({s}) \/ socket' = socket)
      BY <1>10 DEF Send, Drain
    <2>. QED BY <1>4, <1>5, <2>1
  <1>. HIDE DEF phases
  <1>. QED BY <1>1, <1>2, <1>3, <1>6, <1>7, <1>8, <1>9, <1>10 DEF Steps

\* The transport gives the server what the contract promises: each session is
\* announced once, heard while it lives, and reported closed once.
THEOREM ImplementsContract == TransportSpec => ContractKept
  BY ContractInit, ContractStep, Invariance, PTL DEF TransportSpec, ContractKept, Contract!Spec
-------------------------------------------------------------------------------
(* The input path.                                                         *)

\* What came in since the room last ticked has been counted: by the window that
\* is open, or, if that has begun since, by the one before it.
BufferInv ==
  /\ windowAge >= sinceTick => inputs <= count
  /\ windowAge < sinceTick => inputs <= count + Limit
  /\ sinceTick = 0 /\ inputs > 0 => ~Expired
  /\ ~lost

Recent == {p \in Passes : p[1] <= windowAge}
Earlier == {p \in Passes : p[1] > windowAge}

\* The window that is open has counted what got through since it was opened, and
\* what got through before fitted into a window too.
PassInv ==
  /\ IsFiniteSet(Passes)
  /\ Cardinality(Recent) <= count
  /\ ~Expired => Cardinality(Recent) = count
  /\ Cardinality(Earlier) <= Limit
  /\ Expired => passed[0] = 0

InputInv ==
  /\ InputTypeOK
  /\ MaxInputs >= 2 * Limit /\ TickGap <= Period => BufferInv
  /\ PassInv

InputStep == Allowed \/ Refused \/ RoomTick \/ InputElapse

USE LimitAssumption

LEMMA InputTypes ==
  ASSUME InputTypeOK, [InputStep]_inputVars PROVE InputTypeOK'
  <1>. USE DEF InputTypeOK, windowVars, bufferVars, inputVars
  <1>1. CASE Allowed
    <2>1. passed' \in [0..(Period - 1) -> Nat]
      BY <1>1 DEF Allowed
    <2>2. windowAge' \in 0..Period /\ count' \in 0..Limit
      BY <1>1 DEF Allowed, Renews, BelowLimit, CountNow, Expired
    <2>3. CASE inputs > 0 /\ inputs >= MaxInputs
      BY <1>1, <2>1, <2>2, <2>3 DEF Allowed
    <2>4. CASE ~(inputs > 0 /\ inputs >= MaxInputs)
      <3>1. inputs' = inputs + 1 /\ lost' = lost
        BY <1>1, <2>4 DEF Allowed
      <3>. QED BY <1>1, <2>1, <2>2, <3>1 DEF Allowed
    <2>. QED BY <2>3, <2>4
  <1>2. CASE Refused
    BY <1>2 DEF Refused, Renews, BelowLimit, CountNow, Expired
  <1>3. CASE RoomTick
    BY <1>3 DEF RoomTick, InputsAfterTick
  <1>4. CASE InputElapse
    <2>1. passed' \in [0..(Period - 1) -> Nat]
      BY <1>4 DEF InputElapse
    <2>. QED BY <1>4, <2>1 DEF InputElapse
  <1>5. CASE UNCHANGED inputVars
    BY <1>5
  <1>. QED BY <1>1, <1>2, <1>3, <1>4, <1>5 DEF InputStep

LEMMA BufferKeeps ==
  ASSUME InputTypeOK, BufferInv, MaxInputs >= 2 * Limit, TickGap <= Period,
         [InputStep]_inputVars
  PROVE  BufferInv'
  <1>. USE DEF InputTypeOK, BufferInv, windowVars, bufferVars, inputVars, Expired
  <1>1. CASE Allowed
    <2>1. ~(inputs > 0 /\ inputs >= MaxInputs)
      BY <1>1 DEF Allowed, BelowLimit, CountNow
    <2>2. inputs' = inputs + 1 /\ lost' = lost /\ sinceTick' = sinceTick
      BY <1>1, <2>1 DEF Allowed
    <2>3. CASE windowAge >= Period
      BY <1>1, <2>2, <2>3 DEF Allowed, Renews, CountNow
    <2>4. CASE windowAge < Period
      BY <1>1, <2>2, <2>4 DEF Allowed, Renews, CountNow
    <2>. QED BY <2>3, <2>4
  <1>2. CASE Refused
    BY <1>2 DEF Refused, Renews, BelowLimit, CountNow
  <1>3. CASE RoomTick
    BY <1>3 DEF RoomTick, InputsAfterTick
  <1>4. CASE InputElapse
    BY <1>4 DEF InputElapse
  <1>5. CASE UNCHANGED inputVars
    BY <1>5
  <1>. QED BY <1>1, <1>2, <1>3, <1>4, <1>5 DEF InputStep

\* A set that is mapped into another without two elements meeting is no larger.
LEMMA NoLarger ==
  ASSUME NEW S, NEW T, IsFiniteSet(T), NEW f \in [S -> T],
         \A x, y \in S : f[x] = f[y] => x = y
  PROVE  IsFiniteSet(S) /\ Cardinality(S) <= Cardinality(T)
  <1>1. f \in Injection(S, T)
    BY DEF Injection, IsInjective
  <1>. QED BY <1>1, FS_Injection

\* It is as large if every element of the other is reached.
LEMMA SameSize ==
  ASSUME NEW S, NEW T, IsFiniteSet(T), NEW f \in [S -> T],
         \A x, y \in S : f[x] = f[y] => x = y,
         \A t \in T : \E x \in S : f[x] = t
  PROVE  Cardinality(S) = Cardinality(T)
  <1>1. f \in Injection(S, T) /\ f \in Surjection(S, T)
    BY DEF Injection, IsInjective, Surjection
  <1>. QED BY <1>1, FS_Injection

\* What a pass is.
LEMMA PassesAre ==
  ASSUME InputTypeOK
  PROVE  \A p : p \in Passes <=>
           \E n \in 0..(Period - 1), i \in Nat : p = <<n, i>> /\ 1 <= i /\ i <= passed[n]
  BY DEF Passes, InputTypeOK

\* A pass of the period that was there before time passed, a unit younger.
Younger(p) == <<p[1] - 1, p[2]>>

\* When time passes every pass gets older by a unit, and those of the oldest
\* unit leave the period.
LEMMA PassesElapse ==
  ASSUME InputTypeOK, InputElapse
  PROVE  /\ \A p \in Passes' : /\ p = <<p[1], p[2]>> /\ p[1] \in 1..(Period - 1) /\ p[2] \in Nat
                               /\ Younger(p) \in Passes
         /\ \A p \in Passes : p[1] # Period - 1 =>
              /\ <<p[1] + 1, p[2]>> \in Passes'
              /\ Younger(<<p[1] + 1, p[2]>>) = p
  <1>. USE DEF InputTypeOK, Younger
  <1>1. InputTypeOK'
    BY InputTypes DEF InputStep
  <1>2. \A n \in 0..(Period - 1) : passed'[n] = IF n = 0 THEN 0 ELSE passed[n - 1]
    BY DEF InputElapse
  <1>3. ASSUME NEW p \in Passes'
        PROVE  /\ p = <<p[1], p[2]>> /\ p[1] \in 1..(Period - 1) /\ p[2] \in Nat
               /\ Younger(p) \in Passes
    <2>1. \E n \in 0..(Period - 1), i \in Nat : p = <<n, i>> /\ 1 <= i /\ i <= passed'[n]
      BY <1>1, <1>3 DEF Passes
    <2>2. PICK n \in 0..(Period - 1), i \in Nat : p = <<n, i>> /\ 1 <= i /\ i <= passed'[n]
      BY <2>1
    <2>3. n # 0 /\ n - 1 \in 0..(Period - 1) /\ i <= passed[n - 1]
      BY <1>2, <2>2
    <2>4. Younger(p) = <<n - 1, i>>
      BY <2>2
    <2>5. Younger(p) \in Passes
      BY <2>2, <2>3, <2>4, PassesAre
    <2>. QED BY <2>2, <2>3, <2>5
  <1>4. ASSUME NEW p \in Passes, p[1] # Period - 1
        PROVE  <<p[1] + 1, p[2]>> \in Passes' /\ Younger(<<p[1] + 1, p[2]>>) = p
    <2>1. PICK n \in 0..(Period - 1), i \in Nat : p = <<n, i>> /\ 1 <= i /\ i <= passed[n]
      BY PassesAre
    <2>2. n + 1 \in 0..(Period - 1) /\ i <= passed'[n + 1] /\ <<p[1] + 1, p[2]>> = <<n + 1, i>>
      BY <1>2, <1>4, <2>1
    <2>3. <<n + 1, i>> \in Passes'
      BY <2>1, <2>2 DEF Passes
    <2>. QED BY <2>1, <2>2, <2>3
  <1>. QED BY <1>3, <1>4

\* Recent and earlier passes together are all of them.
LEMMA TwoParts ==
  ASSUME InputTypeOK, IsFiniteSet(Passes)
  PROVE  /\ IsFiniteSet(Recent) /\ IsFiniteSet(Earlier)
         /\ Cardinality(Recent) \in Nat /\ Cardinality(Earlier) \in Nat
         /\ PassedInPeriod <= Cardinality(Recent) + Cardinality(Earlier)
         /\ Cardinality(Recent) <= PassedInPeriod
         /\ Expired => Earlier = {}
  <1>1. \A p \in Passes : p[1] \in 0..(Period - 1)
    BY PassesAre
  <1>2. Recent \subseteq Passes /\ Earlier \subseteq Passes /\ Passes = Recent \cup Earlier
    BY <1>1 DEF Recent, Earlier, InputTypeOK
  <1>3. /\ IsFiniteSet(Recent) /\ Cardinality(Recent) <= Cardinality(Passes)
        /\ IsFiniteSet(Earlier)
    BY <1>2, FS_Subset
  <1>4. Cardinality(Recent) \in Nat /\ Cardinality(Earlier) \in Nat
    BY <1>3, FS_CardinalityType
  <1>5. /\ IsFiniteSet(Recent \cap Earlier)
        /\ Cardinality(Passes)
             = Cardinality(Recent) + Cardinality(Earlier) - Cardinality(Recent \cap Earlier)
    BY <1>2, <1>3, FS_Union, FS_Intersection
  <1>6. Cardinality(Recent \cap Earlier) \in Nat
    BY <1>5, FS_CardinalityType
  <1>7. Expired => Earlier = {}
    BY <1>1 DEF Expired, Earlier, InputTypeOK
  <1>. QED BY <1>3, <1>4, <1>5, <1>6, <1>7 DEF PassedInPeriod

\* An input that is let through is one pass more, of the window that is open.
LEMMA AllowedKeepsPasses ==
  ASSUME InputTypeOK, PassInv, Allowed PROVE PassInv'
  <1>. DEFINE new == <<0, passed[0] + 1>>
  <1>. USE DEF InputTypeOK
  <1>1. InputTypeOK'
    BY InputTypes DEF InputStep
  <1>2. passed' = [passed EXCEPT ![0] = @ + 1] /\ 0 \in 0..(Period - 1)
    BY DEF Allowed
  <1>3. new \notin Passes /\ new[1] = 0
    BY PassesAre
  <1>4. Passes' = Passes \cup {new}
    <2>1. ASSUME NEW p \in Passes' PROVE p \in Passes \cup {new}
      <3>1. PICK n \in 0..(Period - 1), i \in Nat : p = <<n, i>> /\ 1 <= i /\ i <= passed'[n]
        BY <1>1, <2>1 DEF Passes
      <3>2. CASE n = 0 /\ i = passed[0] + 1
        BY <3>1, <3>2
      <3>3. CASE ~(n = 0 /\ i = passed[0] + 1)
        <4>1. i <= passed[n]
          BY <1>2, <3>1, <3>3
        <4>. QED BY <3>1, <4>1, PassesAre
      <3>. QED BY <3>2, <3>3
    <2>2. ASSUME NEW p \in Passes PROVE p \in Passes'
      <3>1. PICK n \in 0..(Period - 1), i \in Nat : p = <<n, i>> /\ 1 <= i /\ i <= passed[n]
        BY PassesAre
      <3>2. i <= passed'[n]
        BY <1>2, <3>1
      <3>. QED BY <1>1, <3>1, <3>2 DEF Passes
    <2>3. new \in Passes'
      <3>1. passed'[0] = passed[0] + 1 /\ passed[0] \in Nat
        BY <1>2
      <3>. QED BY <1>2, <3>1 DEF Passes
    <2>. QED BY <2>1, <2>2, <2>3
  <1>. HIDE DEF new
  <1>5. IsFiniteSet(Passes')
    BY <1>4, FS_AddElement DEF PassInv
  <1>6. ~Expired'
    BY DEF Allowed, Renews, Expired
  <1>7. CASE Expired
    <2>1. windowAge' = 0 /\ count' = 1
      BY <1>7 DEF Allowed, Renews, CountNow
    <2>2. \A p \in Passes : p[1] \in 0..(Period - 1) /\ p[1] > 0
      BY <1>7, PassesAre DEF PassInv
    <2>3. Recent' = {new} /\ Earlier' = Recent
      BY <1>3, <1>4, <1>7, <2>1, <2>2 DEF Recent, Earlier, Expired
    <2>4. Cardinality(Recent') = 1
      BY <2>3, FS_Singleton
    <2>5. Cardinality(Earlier') <= Limit
      BY <2>3, TwoParts DEF PassInv
    <2>. QED BY <1>5, <1>6, <2>1, <2>4, <2>5 DEF PassInv
  <1>8. CASE ~Expired
    <2>1. windowAge' = windowAge /\ count' = count + 1
      BY <1>8 DEF Allowed, Renews, CountNow
    <2>2. Recent' = Recent \cup {new} /\ Earlier' = Earlier /\ new \notin Recent
      BY <1>3, <1>4, <2>1 DEF Recent, Earlier
    <2>3. Cardinality(Recent') = Cardinality(Recent) + 1
      BY <2>2, TwoParts, FS_AddElement DEF PassInv
    <2>. QED BY <1>5, <1>6, <1>8, <2>1, <2>2, <2>3, TwoParts DEF PassInv
  <1>. QED BY <1>7, <1>8

\* A refused input opens a new window only if the limit is 0.
LEMMA RefusedKeepsPasses ==
  ASSUME InputTypeOK, PassInv, Refused PROVE PassInv'
  <1>. USE DEF InputTypeOK
  <1>1. passed' = passed /\ Passes' = Passes
    BY DEF Refused, Passes
  <1>2. CASE Expired
    <2>1. windowAge' = 0 /\ count' = 0 /\ ~Expired'
      BY <1>2 DEF Refused, Renews, CountNow, Expired
    <2>2. \A p \in Passes : p[1] \in 0..(Period - 1) /\ p[1] > 0
      BY <1>2, PassesAre DEF PassInv
    <2>3. Recent' = {} /\ Earlier' = Recent
      BY <1>1, <1>2, <2>1, <2>2 DEF Recent, Earlier, Expired
    <2>4. Cardinality(Recent') = 0 /\ Cardinality(Earlier') <= Limit
      BY <2>3, TwoParts, FS_EmptySet DEF PassInv
    <2>. QED BY <1>1, <2>1, <2>4 DEF PassInv
  <1>3. CASE ~Expired
    <2>1. windowAge' = windowAge /\ count' = count /\ Recent' = Recent /\ Earlier' = Earlier
      BY <1>1, <1>3 DEF Refused, Renews, CountNow, Recent, Earlier
    <2>. QED BY <1>1, <2>1 DEF PassInv, Expired
  <1>. QED BY <1>2, <1>3

LEMMA ElapseKeepsPasses ==
  ASSUME InputTypeOK, PassInv, InputElapse PROVE PassInv'
  <1>. USE DEF InputTypeOK
  <1>1. windowAge' = (IF windowAge = Period THEN Period ELSE windowAge + 1) /\ count' = count
    BY DEF InputElapse
  <1>2. InputTypeOK'
    BY InputTypes DEF InputStep
  <1>3. ASSUME NEW p \in Passes', NEW q \in Passes', Younger(p) = Younger(q) PROVE p = q
    <2>1. /\ p = <<p[1], p[2]>> /\ p[1] \in 1..(Period - 1)
          /\ q = <<q[1], q[2]>> /\ q[1] \in 1..(Period - 1)
      BY PassesElapse
    <2>2. p[1] - 1 = q[1] - 1 /\ p[2] = q[2]
      BY <1>3 DEF Younger
    <2>3. p[1] = q[1]
      BY <2>1, <2>2
    <2>. QED BY <2>1, <2>2, <2>3
  <1>4. \A p \in Passes : p[1] \in 0..(Period - 1)
    BY PassesAre
  <1>5. IsFiniteSet(Passes')
    <2>1. [p \in Passes' |-> Younger(p)] \in [Passes' -> Passes]
      BY PassesElapse
    <2>. QED BY <1>3, <2>1, NoLarger DEF PassInv
  <1>6. ASSUME NEW p \in Recent' PROVE Younger(p) \in Recent
    <2>1. p \in Passes' /\ p[1] <= windowAge'
      BY <1>6 DEF Recent
    <2>2. p[1] \in 1..(Period - 1) /\ Younger(p) \in Passes /\ Younger(p)[1] = p[1] - 1
      BY <2>1, PassesElapse DEF Younger
    <2>3. p[1] - 1 <= windowAge
      BY <1>1, <2>1, <2>2
    <2>. QED BY <2>2, <2>3 DEF Recent
  <1>7. Cardinality(Recent') <= Cardinality(Recent)
    <2>. DEFINE f == [p \in Recent' |-> Younger(p)]
    <2>1. f \in [Recent' -> Recent]
      BY <1>6
    <2>2. \A p, q \in Recent' : f[p] = f[q] => p = q
      BY <1>3 DEF Recent
    <2>. QED BY <2>1, <2>2, NoLarger, TwoParts DEF PassInv
  <1>8. ASSUME ~Expired' PROVE Cardinality(Recent') = Cardinality(Recent)
    <2>. DEFINE f == [p \in Recent' |-> Younger(p)]
    <2>1. f \in [Recent' -> Recent]
      BY <1>6
    <2>2. \A p, q \in Recent' : f[p] = f[q] => p = q
      BY <1>3 DEF Recent
    <2>3. ASSUME NEW q \in Recent PROVE \E p \in Recent' : f[p] = q
      <3>1. windowAge' = windowAge + 1 /\ windowAge + 1 < Period
        BY <1>1, <1>8 DEF Expired
      <3>2. q \in Passes /\ q[1] \in 0..(Period - 1) /\ q[1] <= windowAge
        BY <1>4 DEF Recent
      <3>3. q[1] # Period - 1
        BY <3>1, <3>2
      <3>4. <<q[1] + 1, q[2]>> \in Passes' /\ Younger(<<q[1] + 1, q[2]>>) = q
        BY <3>2, <3>3, PassesElapse
      <3>5. <<q[1] + 1, q[2]>> \in Recent'
        BY <3>1, <3>2, <3>4 DEF Recent
      <3>. QED BY <3>4, <3>5
    <2>. QED BY <2>1, <2>2, <2>3, SameSize, TwoParts DEF PassInv
  <1>9. Cardinality(Earlier') <= Cardinality(Earlier)
    <2>. DEFINE f == [p \in Earlier' |-> Younger(p)]
    <2>1. ASSUME NEW p \in Earlier' PROVE Younger(p) \in Earlier
      <3>1. p \in Passes' /\ p[1] > windowAge'
        BY <2>1 DEF Earlier
      <3>2. p[1] \in 1..(Period - 1) /\ Younger(p) \in Passes /\ Younger(p)[1] = p[1] - 1
        BY <3>1, PassesElapse DEF Younger
      <3>. QED BY <1>1, <3>1, <3>2 DEF Earlier
    <2>2. f \in [Earlier' -> Earlier]
      BY <2>1
    <2>3. \A p, q \in Earlier' : f[p] = f[q] => p = q
      BY <1>3 DEF Earlier
    <2>. QED BY <2>2, <2>3, NoLarger, TwoParts DEF PassInv
  <1>10. passed'[0] = 0
    BY DEF InputElapse
  <1>11. ~Expired' => ~Expired
    BY <1>1 DEF Expired
  <1>12. /\ Cardinality(Recent') \in Nat /\ Cardinality(Earlier') \in Nat
         /\ Cardinality(Recent) \in Nat /\ Cardinality(Earlier) \in Nat
    <2>1. Recent' \subseteq Passes' /\ Earlier' \subseteq Passes'
      BY DEF Recent, Earlier
    <2>2. IsFiniteSet(Recent') /\ IsFiniteSet(Earlier')
      BY <1>5, <2>1, FS_Subset
    <2>. QED BY <2>2, TwoParts, FS_CardinalityType DEF PassInv
  <1>13. Cardinality(Recent') <= count' /\ (~Expired' => Cardinality(Recent') = count')
    BY <1>1, <1>7, <1>8, <1>11, <1>12 DEF PassInv
  <1>14. Cardinality(Earlier') <= Limit
    BY <1>9, <1>12 DEF PassInv
  <1>. QED BY <1>5, <1>10, <1>13, <1>14 DEF PassInv

\* A step of the input path keeps its invariant.
LEMMA InputKeeps ==
  ASSUME InputInv, [InputStep]_inputVars PROVE InputInv'
  <1>1. InputTypeOK'
    BY InputTypes DEF InputInv
  <1>2. MaxInputs >= 2 * Limit /\ TickGap <= Period => BufferInv'
    BY BufferKeeps DEF InputInv
  <1>3. PassInv'
    <2>1. CASE Allowed
      BY <2>1, AllowedKeepsPasses DEF InputInv
    <2>2. CASE Refused
      BY <2>2, RefusedKeepsPasses DEF InputInv
    <2>3. CASE RoomTick \/ UNCHANGED inputVars
      BY <2>3 DEF InputInv, PassInv, Recent, Earlier, Passes, Expired, RoomTick,
                  inputVars, windowVars
    <2>4. CASE InputElapse
      BY <2>4, ElapseKeepsPasses DEF InputInv
    <2>. QED BY <2>1, <2>2, <2>3, <2>4 DEF InputStep
  <1>. QED BY <1>1, <1>2, <1>3 DEF InputInv

LEMMA InputStarts == InputInit => InputInv
  <1>. SUFFICES ASSUME InputInit PROVE InputInv
    OBVIOUS
  <1>1. InputTypeOK
    <2>1. passed \in [0..(Period - 1) -> Nat]
      BY DEF InputInit
    <2>2. windowAge \in 0..Period /\ count \in 0..Limit /\ inputs \in Nat /\ sinceTick \in 0..TickGap
      BY DEF InputInit
    <2>3. lost \in BOOLEAN
      BY DEF InputInit
    <2>. QED BY <2>1, <2>2, <2>3 DEF InputTypeOK
  <1>2. Passes = {}
    BY <1>1, PassesAre DEF InputInit
  <1>3. Recent = {} /\ Earlier = {} /\ ~Expired
    BY <1>2 DEF Recent, Earlier, Expired, InputInit
  <1>4. PassInv
    BY <1>2, <1>3, FS_EmptySet DEF PassInv, InputInit
  <1>5. BufferInv
    BY DEF BufferInv, InputInit
  <1>. QED BY <1>1, <1>4, <1>5 DEF InputInv
-------------------------------------------------------------------------------
(* The two together.                                                       *)

GatewayInv == IInv /\ InputInv

\* A step of the gateway is one of each part, or leaves the part alone.
LEMMA GatewayStep ==
  ASSUME [Next]_vars
  PROVE  [Steps \/ Elapse]_transportVars /\ [InputStep]_inputVars
  <1>1. CASE TransportStep
    BY <1>1 DEF TransportStep
  <1>2. CASE Tick
    BY <1>2 DEF Tick, InputStep
  <1>3. CASE RoomTicks
    BY <1>3 DEF RoomTicks, InputStep
  <1>4. ASSUME NEW s \in Session, Input(s)
        PROVE  Steps /\ InputStep
    BY <1>4 DEF Input, Steps, InputStep
  <1>5. CASE UNCHANGED vars
    BY <1>5 DEF vars
  <1>. QED BY <1>1, <1>2, <1>3, <1>4, <1>5 DEF Next

\* In the gateway the transport behaves as it does by itself: what is proved of
\* TransportSpec holds there, the contract with the server included.
THEOREM TransportInGateway == Spec => TransportSpec
  <1>1. Init => TransportInit
    BY DEF Init
  <1>. QED BY <1>1, GatewayStep, PTL DEF Spec, TransportSpec

LEMMA InputInvariance == Spec => []InputInv
  <1>1. Init => InputInv
    BY InputStarts DEF Init
  <1>2. InputInv /\ [Next]_vars => InputInv'
    BY GatewayStep, InputKeeps
  <1>. QED BY <1>1, <1>2, PTL DEF Spec

\* The inductive invariant of the gateway.
THEOREM GatewayInvariance == Spec => []GatewayInv
  BY TransportInGateway, Invariance, InputInvariance, PTL DEF GatewayInv

\* The types of the gateway: the window of the rate limiter never counts beyond
\* the limit, also not in the moment in which it is renewed.
THEOREM GatewayTypeCorrect == Spec => []TypeOK
  <1>1. GatewayInv => TypeOK
    BY DEF GatewayInv, IInv, InputInv, TypeOK
  <1>. QED BY <1>1, GatewayInvariance, PTL

\* No more than twice the limit gets through allowWithinRate() in any period.
THEOREM BurstsAreBounded == Spec => []AtMostTwice
  <1>1. GatewayInv => AtMostTwice
    <2>. SUFFICES ASSUME InputInv PROVE AtMostTwice
      BY DEF GatewayInv
    <2>1. Cardinality(Passes) \in Nat
      BY FS_CardinalityType DEF InputInv, PassInv
    <2>2. count \in 0..Limit
      BY DEF InputInv, InputTypeOK
    <2>. QED BY <2>1, <2>2, TwoParts DEF InputInv, PassInv, AtMostTwice, PassedInPeriod
  <1>. QED BY <1>1, GatewayInvariance, PTL

\* allowWithinRate() refuses an input only if as many as the limit have got
\* through within a period.
THEOREM RefusalsAreEarned == Spec => []ThrottledFairly
  <1>1. GatewayInv => ThrottledFairly
    <2>. SUFFICES ASSUME InputInv, ~BelowLimit PROVE PassedInPeriod >= Limit
      BY DEF GatewayInv, ThrottledFairly
    <2>1. Cardinality(Passes) \in Nat
      BY FS_CardinalityType DEF InputInv, PassInv
    <2>2. count \in 0..Limit
      BY DEF InputInv, InputTypeOK
    <2>3. CASE Expired
      BY <2>1, <2>3 DEF BelowLimit, CountNow, PassedInPeriod
    <2>4. CASE ~Expired
      <3>1. Cardinality(Recent) = Limit
        BY <2>2, <2>4 DEF InputInv, PassInv, BelowLimit, CountNow
      <3>. QED BY <2>1, <3>1, TwoParts DEF InputInv, PassInv, PassedInPeriod
    <2>. QED BY <2>3, <2>4
  <1>. QED BY <1>1, GatewayInvariance, PTL

\* With a buffer for twice the limit and a tick in every period, handleInput never
\* drops an input that no tick has seen.
THEOREM NoInputIsLost == Spec => []NothingLost
  <1>1. GatewayInv => NothingLost
    BY DEF GatewayInv, InputInv, BufferInv, NothingLost
  <1>. QED BY <1>1, GatewayInvariance, PTL

\* In the gateway too a client that answers is not closed for its silence.
COROLLARY AnsweringIsEnoughInGateway == Spec => []NeverTimedOut
  BY TransportInGateway, AnsweringIsEnough, PTL

\* Nor is a socket kept open there beyond its limits.
COROLLARY NothingIsKeptInGateway == Spec => []KeptWithinBounds
  BY TransportInGateway, NothingIsKept, PTL

\* And the events of its sessions keep the contract.
COROLLARY GatewayKeepsContract == Spec => ContractKept
  BY TransportInGateway, ImplementsContract, PTL
================================================================================
