------------------------------ MODULE Matchmaker ------------------------------
(***************************************************************************)
(* The matchmaker on its own (core/matchmaking/matchmaker.ts), driven by   *)
(* arbitrary calls of enqueue() and cancel().  GameServer embeds the same  *)
(* operators in the handlers that make those calls.                        *)
(***************************************************************************)
EXTENDS Integers, FiniteSets, MatchQueue

CONSTANTS Player,     \* player ids
          Key,        \* queue keys
          Required    \* [Key -> Nat]: requiredPlayers, named by the client

ASSUME RequiredAssumption == Required \in [Key -> Nat]

VARIABLES queues,     \* the Map of queues
          matched     \* what the last call returned: the group, or << >>

vars == <<queues, matched>>

Init == /\ queues = [k \in Key |-> << >>]
        /\ matched = << >>

\* enqueue() that finds too few players.
Enqueue(p, k) ==
  /\ ~Ready(Enqueued(queues, p, k)[k], Required[k])
  /\ queues' = Enqueued(queues, p, k)
  /\ matched' = << >>

\* enqueue() that completes a group and splices it off the queue.
Match(p, k) ==
  LET q == Enqueued(queues, p, k)[k] IN
  /\ Ready(q, Required[k])
  /\ queues' = [Enqueued(queues, p, k) EXCEPT ![k] = Rest(q, Required[k])]
  /\ matched' = Group(q, Required[k])

CancelRequest(p) == /\ queues' = Cancel(queues, p)
                    /\ matched' = << >>

Next == \E p \in Player : \/ CancelRequest(p)
                          \/ \E k \in Key : Enqueue(p, k) \/ Match(p, k)

Spec == Init /\ [][Next]_vars
-------------------------------------------------------------------------------
TypeOK == /\ queues \in [Key -> Seq(Player)]
          /\ matched \in Seq(Player)

\* A player waits at most once, over all the queues together: the cancel() at
\* the top of enqueue() is what makes "player deduplication on enqueue"
\* (docs/api/matchmaking.md) true across keys.
NoDoubleQueue ==
  \A k1, k2 \in Key : \A i \in DOMAIN queues[k1], j \in DOMAIN queues[k2] :
    queues[k1][i] = queues[k2][j] => k1 = k2 /\ i = j

\* Between two calls no queue holds a complete group: nobody is left waiting
\* who could be playing.  A request for 0 players is the exception, it never
\* waits for anyone and never leaves the queue by a match.
NoMatchMissed ==
  \A k \in Key : Required[k] > 0 => Len(queues[k]) < Required[k]

\* A returned group is what the caller needs: as many distinct players as were
\* asked for, none of whom still waits anywhere.
GroupIsTakenOut ==
  /\ \A i, j \in DOMAIN matched : matched[i] = matched[j] => i = j
  /\ Len(matched) > 0 => \E k \in Key : Len(matched) = Required[k]
  /\ \A k \in Key : Waiting(matched) \cap Waiting(queues[k]) = {}

\* First in, first out, as docs/api/matchmaking.md promises: when b is matched
\* by the request of somebody else, everyone who was ahead of b in the queue is
\* in the same group and ahead of b.
FirstInFirstOut ==
  [][\A k \in Key : \A i, j \in DOMAIN queues[k] :
       LET a == queues[k][i]
           b == queues[k][j]
       IN  i < j /\ b \in Waiting(matched') /\ b # matched'[Len(matched')] =>
             a \in Waiting(matched') /\ Position(matched', a) < Position(matched', b)]_vars

\* queue.filter((item) => item.player.id !== playerId), item by item.
Filtered(q, p) ==
  LET kept[i \in 0..Len(q)] ==  \* of the first i items
        IF i = 0 THEN << >>
        ELSE IF q[i] # p THEN Append(kept[i - 1], q[i]) ELSE kept[i - 1]
  IN  kept[Len(q)]

\* Without() is the filter of the source: no occurrence of the player is left
\* and the others keep their order.
CancelIsFilter ==
  \A k \in Key, p \in Player : Without(queues[k], p) = Filtered(queues[k], p)
===============================================================================
