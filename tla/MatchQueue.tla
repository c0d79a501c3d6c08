------------------------------ MODULE MatchQueue ------------------------------
(***************************************************************************)
(* The data structure of the matchmaker (core/matchmaking/matchmaker.ts):  *)
(* one first-in first-out queue of players for each queue key.  A key      *)
(* stands for the quadruple mode:roomType:requiredPlayers:maxPlayers of    *)
(* queueKey(); the Map of queues is a function from keys to sequences, an  *)
(* absent key and an empty queue being the same empty sequence.            *)
(*                                                                         *)
(* Pure operators only, none of them recursive, so that the modules that   *)
(* use them can be proved about.                                           *)
(***************************************************************************)
EXTENDS Naturals, Sequences

\* The players waiting in queue q.
Waiting(q) == {q[i] : i \in DOMAIN q}

\* Position of p in q, which holds p.
Position(q, p) == CHOOSE i \in DOMAIN q : q[i] = p

\* q without p: the filter() of cancel().  One occurrence is removed, which
\* is all of them because a player waits at most once (NoDoubleQueue).
Without(q, p) ==
  IF p \in Waiting(q)
  THEN SubSeq(q, 1, Position(q, p) - 1) \o SubSeq(q, Position(q, p) + 1, Len(q))
  ELSE q

\* A cancel() that stops at the first queue it looks at: the bug "return
\* inside the loop".  Used to mutate Cancel.
CancelOneQueue(queues, p) ==
  IF \A k \in DOMAIN queues : p \notin Waiting(queues[k])
  THEN queues
  ELSE LET k == CHOOSE k \in DOMAIN queues : TRUE
       IN  [queues EXCEPT ![k] = Without(@, p)]

\* A cancel() that deletes the element and not its place (delete queue[i]): a
\* hole stays where p was.
CancelLeavesHole(queues, p) ==
  [k \in DOMAIN queues |->
     [i \in DOMAIN queues[k] |-> IF queues[k][i] = p THEN << >> ELSE queues[k][i]]]

\* cancel(playerId): p leaves every queue.
Cancel(queues, p) == [k \in DOMAIN queues |-> Without(queues[k], p)]

\* enqueue() with the deduplicating cancel() of its first line missing.
EnqueuedTwice(queues, p, k) == [queues EXCEPT ![k] = Append(@, p)]

\* The queue with the newest request in front: unshift() for push().
EnqueuedFirst(queues, p, k) == [Cancel(queues, p) EXCEPT ![k] = <<p>> \o @]

\* The queues when enqueue() has pushed p's request, before any match.
Enqueued(queues, p, k) == [Cancel(queues, p) EXCEPT ![k] = Append(@, p)]

\* The threshold test of enqueue() off by one.
ReadyLate(q, n) == Len(q) > n

\* queue.length >= requiredPlayers
Ready(q, n) == Len(q) >= n

\* slice() for splice(): the group also stays in the queue.
RestAll(q, n) == q

\* queue.splice(0, requiredPlayers): the group, and what stays behind.
Group(q, n) == SubSeq(q, 1, n)
Rest(q, n)  == SubSeq(q, n + 1, Len(q))
===============================================================================
