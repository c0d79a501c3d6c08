-------------------------------- MODULE Gateway --------------------------------
(***************************************************************************)
(* What stands between the clients and the game: the transport, and the    *)
(* way of the inputs of one player into its room, on one clock.            *)
(***************************************************************************)
EXTENDS Transport, InputPath

CONSTANT Own   \* the session of the player, or those it reconnects with

ASSUME OwnAssumption == Own \subseteq Session

vars == <<transportVars, inputVars>>

TypeOK == TransportTypeOK /\ InputTypeOK

Init == TransportInit /\ InputInit

\* A step of the transport, other than an INPUT of the player.
TransportStep == Steps /\ UNCHANGED inputVars

\* An INPUT packet of the player reaches handleInput.
Input(s) == s \in Own /\ Message(s) /\ (Allowed \/ Refused)

Tick == Elapse /\ InputElapse

\* The room of the player ticks.
RoomTicks == RoomTick /\ UNCHANGED transportVars

Next == TransportStep \/ Tick \/ RoomTicks \/ \E s \in Session : Input(s)

Spec == Init /\ [][Next]_vars

\* Time passes, the room ticks, an interval that is set runs, a client in Responsive answers,
\* and ws completes the close of a socket, destroying it after a while if the
\* client does not answer.
Fairness ==
  /\ WF_vars(Tick)
  /\ WF_vars(RoomTicks)
  /\ WF_vars(Beat /\ UNCHANGED inputVars)
  /\ WF_vars(Closed /\ UNCHANGED inputVars)
  /\ \A s \in Responsive : WF_vars(pings[s] # {} /\ Pong(s) /\ UNCHANGED inputVars)
  /\ \A s \in Session :
       WF_vars(socket[s] = "closing" /\ SocketCloses(s) /\ UNCHANGED inputVars)

FairSpec == Spec /\ Fairness
===============================================================================
