------------------------------- MODULE Transport -------------------------------
(***************************************************************************)
(* core/transport/websocket-transport.ts: sockets, the heartbeat, sending  *)
(* under backpressure and close().                                         *)
(*                                                                         *)
(* Time passes in units of Tick and is measured by ages.  The heartbeat is *)
(* a setInterval: its callback runs at least Interval and at most          *)
(* Interval + Lag after the one before it.  Clients in Responsive have     *)
(* their PONG handled at most Delay after a PING was sent to them; clients *)
(* in Silent never send one; others may.                                   *)
(*                                                                         *)
(* What the server does with an event is the caller's: its send() and      *)
(* disconnect() may come at any time, inside a callback or not.            *)
(***************************************************************************)
EXTENDS Integers

CONSTANTS
  Session,      \* ids of sessions, one for each connection ever made
  Responsive,   \* clients that answer in time
  Silent,       \* clients that never answer
  Interval,     \* pingIntervalMs
  Lag,          \* bound: how late the heartbeat runs at most
  Delay,        \* bound: the delay of an answer of a client in Responsive
  Timeout,      \* sessionTimeoutMs
  MaxBuffered,  \* maxBufferedAmountBytes; negative: no limit
  MaxPacket,    \* bound: the size of an encoded packet
  PingSize      \* the size of a PING

ASSUME ClientAssumption ==
  Responsive \subseteq Session /\ Silent \subseteq Session \ Responsive

ASSUME TimeAssumption ==
  /\ Interval \in Nat \ {0} /\ Timeout \in Nat
  /\ Lag \in Nat /\ Delay \in Nat

ASSUME SizeAssumption ==
  MaxBuffered \in Int /\ MaxPacket \in Nat /\ PingSize \in 1..MaxPacket

VARIABLES
  server,       \* the transport as a whole
  heartbeat,    \* heartbeatTimer is set
  sinceBeat,    \* since the heartbeat last ran, or was set
  socket,       \* readyState of the socket of a session
  sessions,     \* WebSocketTransport.sessions
  unheard,      \* Date.now() - session.lastPing, while the socket is open
  pings,        \* the ages of the PINGs a client in Responsive has to answer
  buffered,     \* socket.bufferedAmount, while the socket is open
  called        \* the last event the server was called with

timeVars == <<heartbeat, sinceBeat>>
sessionVars == <<socket, sessions, unheard, pings, buffered>>
transportVars == <<server, timeVars, sessionVars, called>>

Events == {"onConnect", "onPacket", "onDisconnect"}

TransportTypeOK ==
  /\ server \in {"new", "listening", "failed", "closing", "closed"}
  /\ heartbeat \in BOOLEAN
  /\ sinceBeat \in 0..(Interval + Lag)
  /\ socket \in [Session -> {"none", "open", "closing", "closed"}]
  /\ sessions \subseteq Session
  /\ unheard \in [Session -> Nat]
  /\ pings \in [Session -> SUBSET (0..Delay)]
  /\ buffered \in [Session -> Nat]
  /\ called \in {<< >>} \cup (Events \X Session)

TransportInit ==
  /\ server = "new"
  /\ heartbeat = FALSE
  /\ sinceBeat = 0
  /\ socket = [s \in Session |-> "none"]
  /\ sessions = {}
  /\ unheard = [s \in Session |-> 0]
  /\ pings = [s \in Session |-> {}]
  /\ buffered = [s \in Session |-> 0]
  /\ called = << >>

Open == {s \in Session : socket[s] = "open"}
-------------------------------------------------------------------------------
(* Parts of the handlers.                                                  *)

\* socket.close() for the sockets in S.  A socket that is not open stays as it
\* is; of one that is closing, lastPing and bufferedAmount matter no more.
Closing(S) == [s \in Session |-> IF s \in S \cap Open THEN "closing" ELSE socket[s]]

\* What is kept of f, whose value is zero for a new socket, when those in S close.
Dropped(f, S, zero) == [s \in Session |-> IF s \in S THEN zero ELSE f[s]]

CloseSockets(S) ==
  /\ socket' = Closing(S)
  /\ unheard' = Dropped(unheard, S, 0)
  /\ pings' = Dropped(pings, S, {})
  /\ buffered' = Dropped(buffered, S, 0)

\* The limit put on what was buffered before the last packet.
TooSlowLate(s) == MaxBuffered >= 0 /\ buffered[s] > MaxBuffered + MaxPacket

\* shouldDisconnectForBackpressure()
TooSlow(s) == MaxBuffered >= 0 /\ buffered[s] > MaxBuffered

\* A heartbeat that asks for one answer in every interval.
UnheardSinceBeat == {s \in Open : unheard[s] > Interval}

\* Those the heartbeat closes for their silence.
TimedOut == {s \in Open : unheard[s] > Timeout}

\* The heartbeat is as late as it may be.
BeatDue == heartbeat /\ sinceBeat = Interval + Lag

\* So is an answer of a client in Responsive.
PongDue == \E s \in Responsive : Delay \in pings[s]
-------------------------------------------------------------------------------
\* listen() resolves: the server is up, and so is the heartbeat.
Listen ==
  /\ server = "new"
  /\ server' = "listening"
  /\ heartbeat' = TRUE
  /\ UNCHANGED <<sinceBeat, sessionVars, called>>

\* listen() rejects (the port is in use).  The heartbeat has been set before
\* and goes on.
ListenFails ==
  /\ server = "new"
  /\ server' = "failed"
  /\ heartbeat' = TRUE
  /\ UNCHANGED <<sinceBeat, sessionVars, called>>

\* wss "connection": createSession() counts as the first sign of life.
Accept(s) ==
  /\ server = "listening"
  /\ socket[s] = "none"
  /\ socket' = [socket EXCEPT ![s] = "open"]
  /\ sessions' = sessions \cup {s}
  /\ unheard' = [unheard EXCEPT ![s] = 0]
  /\ called' = <<"onConnect", s>>
  /\ UNCHANGED <<server, timeVars, pings, buffered>>

\* socket "message" that decodes.  ws delivers until its "close", also when the
\* server has asked for the socket to be closed: what was under way still
\* arrives.  The handler does not look whether it still knows the session.
Message(s) ==
  /\ socket[s] \in {"open", "closing"}
  /\ called' = <<"onPacket", s>>
  /\ UNCHANGED <<server, timeVars, sessionVars>>

\* Text, too large, or not decodable by decodePacket(): the socket is closed.
BadMessage(s) ==
  /\ s \in Open
  /\ CloseSockets({s})
  /\ UNCHANGED <<server, timeVars, sessions, called>>

\* A PONG: onPacket() of the server sets lastPing.  Answers come in order.
Pong(s) ==
  /\ s \in Open \ Silent
  /\ pings' = [pings EXCEPT ![s] = {a \in @ : \E b \in @ : a < b}]
  /\ unheard' = [unheard EXCEPT ![s] = 0]
  /\ called' = <<"onPacket", s>>
  /\ UNCHANGED <<server, timeVars, socket, sessions, buffered>>

\* A "close" handler that forgets sessions.delete().
SocketClosesKept(s) ==
  /\ socket[s] \in {"open", "closing"}
  /\ socket' = [socket EXCEPT ![s] = "closed"]
  /\ called' = <<"onDisconnect", s>>
  /\ UNCHANGED <<server, timeVars, sessions, unheard, pings, buffered>>

\* socket "close": the handshake of a close is complete, or the connection is
\* gone without one.
SocketCloses(s) ==
  /\ socket[s] \in {"open", "closing"}
  /\ socket' = [socket EXCEPT ![s] = "closed"]
  /\ sessions' = sessions \ {s}
  /\ unheard' = Dropped(unheard, {s}, 0)
  /\ pings' = Dropped(pings, {s}, {})
  /\ buffered' = Dropped(buffered, {s}, 0)
  /\ called' = <<"onDisconnect", s>>
  /\ UNCHANGED <<server, timeVars>>

\* A heartbeat that takes its own PING for a sign of life.
UnheardRefreshed(closed) == [s \in Session |-> 0]

UnheardAfterBeat(closed) == Dropped(unheard, closed, 0)

\* The callback of setInterval: close the silent, send a PING to the others
\* that are open, through send(), which closes those that are too slow.
Beat ==
  LET closed == TimedOut \cup {s \in Open : TooSlow(s)}
      pinged == Open \ closed
  IN
  /\ heartbeat
  /\ sinceBeat >= Interval
  /\ sinceBeat' = 0
  /\ socket' = Closing(closed)
  /\ unheard' = UnheardAfterBeat(closed)
  /\ pings' = [s \in Session |-> IF s \in pinged \cap Responsive
                                  THEN pings[s] \cup {0}
                                  ELSE Dropped(pings, closed, {})[s]]
  /\ buffered' = [s \in Session |-> IF s \in pinged THEN buffered[s] + PingSize ELSE 0]
  /\ UNCHANGED <<server, heartbeat, sessions, called>>

\* send() of a packet of n bytes; for a socket that is not open it returns.
Send(s, n) ==
  /\ s \in sessions \cap Open
  /\ \/ /\ TooSlow(s)
        /\ CloseSockets({s})
     \/ /\ ~TooSlow(s)
        /\ buffered' = [buffered EXCEPT ![s] = @ + n]
        /\ UNCHANGED <<socket, unheard, pings>>
  /\ UNCHANGED <<server, timeVars, sessions, called>>

\* The kernel takes n bytes of what is buffered.
Drain(s, n) ==
  /\ s \in Open
  /\ n <= buffered[s]
  /\ buffered' = [buffered EXCEPT ![s] = @ - n]
  /\ UNCHANGED <<server, timeVars, socket, sessions, unheard, pings, called>>

\* disconnect()
Disconnect(s) ==
  /\ s \in sessions \cap Open
  /\ CloseSockets({s})
  /\ UNCHANGED <<server, timeVars, sessions, called>>

\* A close() that leaves the heartbeat running.
CloseButBeat ==
  /\ server \in {"listening", "failed"}
  /\ server' = "closing"
  /\ CloseSockets(sessions)
  /\ UNCHANGED <<timeVars, sessions, called>>

\* close(): the heartbeat is cleared, every socket closed and no connection
\* accepted any more.
Close ==
  /\ server \in {"listening", "failed"}
  /\ server' = "closing"
  /\ heartbeat' = FALSE
  /\ CloseSockets(sessions)
  /\ UNCHANGED <<sinceBeat, sessions, called>>

\* The promise of close() resolves when the last socket is closed.
Closed ==
  /\ server = "closing"
  /\ \A s \in Session : socket[s] \in {"none", "closed"}
  /\ server' = "closed"
  /\ UNCHANGED <<timeVars, sessionVars, called>>

\* One unit of time passes.
Elapse ==
  /\ ~BeatDue /\ ~PongDue
  /\ sinceBeat' = IF heartbeat THEN sinceBeat + 1 ELSE sinceBeat
  /\ unheard' = [s \in Session |-> IF s \in Open THEN unheard[s] + 1 ELSE unheard[s]]
  /\ pings' = [s \in Session |-> {a + 1 : a \in pings[s]}]
  /\ UNCHANGED <<server, heartbeat, socket, sessions, buffered, called>>

Steps ==
  \/ Listen \/ ListenFails \/ Beat \/ Close \/ Closed
  \/ \E s \in Session :
       \/ Accept(s) \/ Message(s) \/ BadMessage(s) \/ Pong(s) \/ SocketCloses(s)
       \/ Disconnect(s)
       \/ \E n \in 1..MaxPacket : Send(s, n) \/ Drain(s, n)

\* The transport by itself.
TransportSpec == TransportInit /\ [][Steps \/ Elapse]_transportVars
-------------------------------------------------------------------------------
\* A client that answers every PING within Delay is not closed for its silence,
\* however late the heartbeat runs and whatever it connects or answers between:
\* provided sessionTimeoutMs leaves room for it.  lastPing is moved by PONGs
\* only, hence by the rhythm of the heartbeat itself.
NeverTimedOut ==
  Interval + Lag + Delay <= Timeout => Responsive \cap TimedOut = {}

\* A socket is not kept open for ever: not without a sign of life for longer
\* than the timeout and one more heartbeat, nor with more in its buffer than
\* the limit and the one packet that passed it (PINGs included).
KeptWithinBounds ==
  \A s \in Open :
    /\ unheard[s] <= Timeout + Interval + Lag
    /\ MaxBuffered >= 0 => buffered[s] <= MaxBuffered + MaxPacket

\* The events reach the server as core/transport/types.ts has them, although
\* packets still arrive while a socket closes and every path closes sockets.
Phase(s) ==
  IF s \in sessions THEN "connected" ELSE IF socket[s] = "none" THEN "new" ELSE "gone"

Contract == INSTANCE SessionContract WITH phase <- [s \in Session |-> Phase(s)]

ContractKept == Contract!Spec

\* A client that has stopped answering is disconnected in the end.
SilentIsClosed == \A s \in Silent : s \in sessions ~> s \notin sessions

\* close() comes to its end, and after it the server is called no more: no
\* session is left, no heartbeat runs and no event is delivered.
CloseCompletes ==
  server = "closing" ~> [](server = "closed" /\ sessions = {} /\ ~heartbeat)
===============================================================================
