---------------------------- MODULE SessionContract ----------------------------
(***************************************************************************)
(* What core/transport/types.ts promises the server of its three events,   *)
(* whichever transport is plugged in: a session is announced once, sends   *)
(* packets only then, and is reported closed once, after which nothing of  *)
(* it is heard.  Module GameServer relies on this and on nothing else.     *)
(***************************************************************************)
CONSTANT Session

VARIABLES
  phase,   \* of a session, as the server knows it
  called   \* the last event delivered: its name and its session

vars == <<phase, called>>

Init ==
  /\ phase = [s \in Session |-> "new"]
  /\ called = << >>

\* onConnect(session)
Connects(s) ==
  /\ phase[s] = "new"
  /\ phase' = [phase EXCEPT ![s] = "connected"]
  /\ called' = <<"onConnect", s>>

\* onPacket(session, opcode, payload)
Speaks(s) ==
  /\ phase[s] = "connected"
  /\ called' = <<"onPacket", s>>
  /\ UNCHANGED phase

\* onDisconnect(session)
Disconnects(s) ==
  /\ phase[s] = "connected"
  /\ phase' = [phase EXCEPT ![s] = "gone"]
  /\ called' = <<"onDisconnect", s>>

Next == \E s \in Session : Connects(s) \/ Speaks(s) \/ Disconnects(s)

Spec == Init /\ [][Next]_vars
===============================================================================
