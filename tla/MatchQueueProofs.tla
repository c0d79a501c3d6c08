--------------------------- MODULE MatchQueueProofs ---------------------------
(***************************************************************************)
(* What the operators of MatchQueue return, for queues of any length.      *)
(***************************************************************************)
EXTENDS MatchQueue, Integers, TLAPS

\* No player occurs twice in q.
Distinct(q) == \A i, j \in DOMAIN q : q[i] = q[j] => i = j

\* Position is the place of a player that waits.
LEMMA PositionIsPlace ==
  ASSUME NEW S, NEW q \in Seq(S), NEW p, p \in Waiting(q)
  PROVE  Position(q, p) \in 1..Len(q) /\ q[Position(q, p)] = p
<1>1. \E i \in DOMAIN q : q[i] = p
  BY DEF Waiting
<1> QED
  BY <1>1 DEF Position

\* Without is a queue, and each place of it shows a place of the old queue:
\* the same one before the player that left, the next one behind it.
LEMMA WithoutShifts ==
  ASSUME NEW S, NEW q \in Seq(S), NEW p, p \in Waiting(q)
  PROVE  /\ Without(q, p) \in Seq(S)
         /\ Len(Without(q, p)) = Len(q) - 1
         /\ \A i \in 1..(Len(q) - 1) :
              Without(q, p)[i] = IF i < Position(q, p) THEN q[i] ELSE q[i + 1]
<1> DEFINE n == Position(q, p)
           a == SubSeq(q, 1, n - 1)
           b == SubSeq(q, n + 1, Len(q))
<1>1. n \in 1..Len(q)
  BY PositionIsPlace
<1>2. Without(q, p) = a \o b
  BY DEF Without
<1> HIDE DEF n
<1>3. a \in Seq(S) /\ Len(a) = n - 1 /\ \A i \in 1..(n - 1) : a[i] = q[i]
  BY <1>1
<1>4. b \in Seq(S) /\ Len(b) = Len(q) - n /\ \A i \in 1..(Len(q) - n) : b[i] = q[n + i]
  BY <1>1
<1> HIDE DEF a, b
<1>5. /\ a \o b \in Seq(S)
      /\ Len(a \o b) = Len(q) - 1
  <2>1. a \o b \in Seq(S) /\ Len(a \o b) = Len(a) + Len(b)
    BY <1>3, <1>4
  <2>2. (n - 1) + (Len(q) - n) = Len(q) - 1
    BY <1>1
  <2> QED
    BY <1>3, <1>4, <2>1, <2>2
<1>6. ASSUME NEW i \in 1..(Len(q) - 1)
      PROVE  (a \o b)[i] = IF i < n THEN q[i] ELSE q[i + 1]
  <2>1. CASE i < n
    BY <1>1, <1>3, <1>4, <2>1
  <2>2. CASE ~(i < n)
    <3>1. (a \o b)[i] = b[i - Len(a)]
      BY <1>1, <1>3, <1>4, <2>2
    <3>2. n + (i - (n - 1)) = i + 1 /\ i - (n - 1) \in 1..(Len(q) - n)
      BY <1>1, <2>2
    <3> QED
      BY <1>3, <1>4, <2>2, <3>1, <3>2
  <2> QED
    BY <2>1, <2>2
<1> QED
  BY <1>2, <1>5, <1>6 DEF n

\* A queue without p is a queue of players of the old one, in any case.
LEMMA WithoutIsQueue ==
  ASSUME NEW S, NEW q \in Seq(S), NEW p
  PROVE  /\ Without(q, p) \in Seq(S)
         /\ Len(Without(q, p)) \in Nat /\ Len(Without(q, p)) <= Len(q)
         /\ Waiting(Without(q, p)) \subseteq Waiting(q)
<1>1. CASE p \notin Waiting(q)
  <2>1. Without(q, p) = q
    BY <1>1 DEF Without
  <2> QED
    BY <2>1
<1>2. CASE p \in Waiting(q)
  <2> DEFINE w == Without(q, p)
  <2>1. /\ w \in Seq(S)
        /\ Len(w) = Len(q) - 1
        /\ \A i \in 1..(Len(q) - 1) : w[i] = q[i] \/ w[i] = q[i + 1]
    BY <1>2, WithoutShifts
  <2> HIDE DEF w
  <2>2. ASSUME NEW i \in DOMAIN w
        PROVE  w[i] \in Waiting(q)
    <3>1. i \in 1..(Len(q) - 1) /\ i \in DOMAIN q /\ i + 1 \in DOMAIN q
      BY <2>1
    <3> QED
      BY <2>1, <3>1 DEF Waiting
  <2>3. Waiting(w) \subseteq Waiting(q)
    BY <2>2 DEF Waiting
  <2> QED
    BY <2>1, <2>3 DEF w
<1> QED
  BY <1>1, <1>2

\* If nobody waits twice in q, exactly p is gone and still nobody waits twice.
LEMMA WithoutRemoves ==
  ASSUME NEW S, NEW q \in Seq(S), NEW p, Distinct(q)
  PROVE  /\ Distinct(Without(q, p))
         /\ Waiting(Without(q, p)) = Waiting(q) \ {p}
<1>1. CASE p \notin Waiting(q)
  BY <1>1 DEF Without
<1>2. CASE p \in Waiting(q)
  <2> DEFINE w == Without(q, p)
             n == Position(q, p)
  <2>1. n \in 1..Len(q) /\ q[n] = p
    BY <1>2, PositionIsPlace
  <2>2. /\ w \in Seq(S)
        /\ Len(w) = Len(q) - 1
        /\ \A i \in 1..(Len(q) - 1) : w[i] = IF i < n THEN q[i] ELSE q[i + 1]
    BY <1>2, WithoutShifts
  <2> HIDE DEF w, n
  <2>3. DOMAIN w = 1..(Len(q) - 1) /\ DOMAIN q = 1..Len(q) /\ Len(q) \in Nat
    BY <2>2
  <2>4. Distinct(w)
    <3> SUFFICES ASSUME NEW i \in DOMAIN w, NEW j \in DOMAIN w, w[i] = w[j]
                 PROVE  i = j
      BY DEF Distinct
    <3>1. \A x, y \in 1..Len(q) : q[x] = q[y] => x = y
      BY <2>3 DEF Distinct
    <3> QED
      BY <2>1, <2>2, <2>3, <3>1
  <2>5. p \notin Waiting(w)
    <3> SUFFICES ASSUME NEW i \in DOMAIN w, w[i] = p
                 PROVE  FALSE
      BY DEF Waiting
    <3>1. \A x, y \in 1..Len(q) : q[x] = q[y] => x = y
      BY <2>3 DEF Distinct
    <3> QED
      BY <2>1, <2>2, <2>3, <3>1
  <2>6. ASSUME NEW x \in Waiting(q), x # p
        PROVE  x \in Waiting(w)
    <3>1. PICK i \in 1..Len(q) : q[i] = x
      BY <2>3 DEF Waiting
    <3>2. i # n
      BY <2>1, <2>6, <3>1
    <3>3. CASE i < n
      <4>1. i \in 1..(Len(q) - 1) /\ w[i] = x
        BY <2>1, <2>2, <2>3, <3>1, <3>3
      <4> QED
        BY <2>3, <4>1 DEF Waiting
    <3>4. CASE i > n
      <4>1. i - 1 \in 1..(Len(q) - 1) /\ ~(i - 1 < n) /\ (i - 1) + 1 = i
        BY <2>1, <2>3, <3>4
      <4>2. w[i - 1] = x
        BY <2>2, <3>1, <4>1
      <4> QED
        BY <2>3, <4>1, <4>2 DEF Waiting
    <3> QED
      BY <2>1, <3>2, <3>3, <3>4
  <2>7. Waiting(w) \subseteq Waiting(q)
    BY WithoutIsQueue DEF w
  <2> QED
    BY <2>4, <2>5, <2>6, <2>7 DEF w
<1> QED
  BY <1>1, <1>2
-------------------------------------------------------------------------------
\* Nobody waits twice, in one queue or in two.
WaitsOnce(queues) ==
  \A k1, k2 \in DOMAIN queues :
    \A i \in DOMAIN queues[k1], j \in DOMAIN queues[k2] :
      queues[k1][i] = queues[k2][j] => k1 = k2 /\ i = j

\* It is what WaitsOnce says of one queue, and that two have nobody in common.
LEMMA WaitsOnceByQueue ==
  ASSUME NEW queues
  PROVE  WaitsOnce(queues) <=>
           /\ \A k \in DOMAIN queues : Distinct(queues[k])
           /\ \A k1, k2 \in DOMAIN queues :
                k1 # k2 => Waiting(queues[k1]) \cap Waiting(queues[k2]) = {}
<1>1. ASSUME WaitsOnce(queues)
      PROVE  /\ \A k \in DOMAIN queues : Distinct(queues[k])
             /\ \A k1, k2 \in DOMAIN queues :
                  k1 # k2 => Waiting(queues[k1]) \cap Waiting(queues[k2]) = {}
  BY <1>1 DEF WaitsOnce, Distinct, Waiting
<1>2. ASSUME \A k \in DOMAIN queues : Distinct(queues[k]),
             \A k1, k2 \in DOMAIN queues :
               k1 # k2 => Waiting(queues[k1]) \cap Waiting(queues[k2]) = {}
      PROVE  WaitsOnce(queues)
  <2> SUFFICES ASSUME NEW k1 \in DOMAIN queues, NEW k2 \in DOMAIN queues,
                      NEW i \in DOMAIN queues[k1], NEW j \in DOMAIN queues[k2],
                      queues[k1][i] = queues[k2][j]
               PROVE  k1 = k2 /\ i = j
    BY DEF WaitsOnce
  <2>1. /\ queues[k1][i] \in Waiting(queues[k1])
        /\ queues[k1][i] \in Waiting(queues[k2])
    BY DEF Waiting
  <2>2. k1 = k2
    BY <1>2, <2>1
  <2> QED
    BY <1>2, <2>2 DEF Distinct
<1> QED
  BY <1>1, <1>2

\* cancel(): p, and nobody else, is gone from every queue.
LEMMA CancelWaiting ==
  ASSUME NEW K, NEW S, NEW queues \in [K -> Seq(S)], NEW p, WaitsOnce(queues),
         NEW k \in K, NEW x
  PROVE  x \in Waiting(Cancel(queues, p)[k]) <=> x \in Waiting(queues[k]) /\ x # p
<1>1. queues[k] \in Seq(S) /\ Distinct(queues[k])
  BY WaitsOnceByQueue
<1>2. Cancel(queues, p)[k] = Without(queues[k], p)
  BY DEF Cancel
<1>3. Waiting(Without(queues[k], p)) = Waiting(queues[k]) \ {p}
  BY <1>1, WithoutRemoves
<1> QED
  BY <1>2, <1>3

\* What it leaves are queues, none longer, in which nobody waits twice.
LEMMA CancelSound ==
  ASSUME NEW K, NEW S, NEW queues \in [K -> Seq(S)], NEW p, WaitsOnce(queues)
  PROVE  /\ Cancel(queues, p) \in [K -> Seq(S)]
         /\ WaitsOnce(Cancel(queues, p))
         /\ \A k \in K : Len(Cancel(queues, p)[k]) <= Len(queues[k])
<1> DEFINE c == Cancel(queues, p)
<1>1. DOMAIN c = K /\ \A k \in K : c[k] = Without(queues[k], p)
  BY DEF Cancel
<1>2. \A k \in K : \A x : x \in Waiting(c[k]) => x \in Waiting(queues[k])
  BY CancelWaiting
<1>3. c = [k \in K |-> Without(queues[k], p)]
  BY DEF Cancel
<1> HIDE DEF c
<1>4. \A k \in K : Distinct(queues[k]) /\ queues[k] \in Seq(S)
  BY WaitsOnceByQueue
<1>5. \A k \in K : /\ c[k] \in Seq(S)
                   /\ Distinct(c[k])
                   /\ Len(c[k]) <= Len(queues[k])
  BY <1>1, <1>4, WithoutIsQueue, WithoutRemoves
<1>6. c \in [K -> Seq(S)]
  BY <1>1, <1>3, <1>5
<1>7. \A k1, k2 \in K : k1 # k2 => Waiting(queues[k1]) \cap Waiting(queues[k2]) = {}
  BY WaitsOnceByQueue
<1>8. \A k1, k2 \in K : k1 # k2 => Waiting(c[k1]) \cap Waiting(c[k2]) = {}
  BY <1>2, <1>7
<1>9. WaitsOnce(c)
  BY <1>1, <1>5, <1>8, WaitsOnceByQueue
<1> QED
  BY <1>5, <1>6, <1>9 DEF c

\* enqueue() before a match is a cancel() and a push().
LEMMA EnqueuedShape ==
  ASSUME NEW K, NEW S, NEW queues \in [K -> Seq(S)], NEW p \in S, NEW k \in K,
         NEW e, e = Enqueued(queues, p, k),
         NEW c, c = Cancel(queues, p), WaitsOnce(queues)
  PROVE  /\ e \in [K -> Seq(S)]
         /\ \A k1 \in K : k1 # k => e[k1] = c[k1]
         /\ DOMAIN c[k] = 1..Len(c[k]) /\ Len(c[k]) \in Nat
         /\ DOMAIN e[k] = 1..(Len(c[k]) + 1) /\ Len(e[k]) = Len(c[k]) + 1
         /\ e[k][Len(c[k]) + 1] = p
         /\ \A i \in 1..Len(c[k]) : e[k][i] = c[k][i]
<1>1. c \in [K -> Seq(S)]
  BY CancelSound
<1>2. e = [c EXCEPT ![k] = Append(c[k], p)]
  BY DEF Enqueued
<1>3. /\ e \in [K -> Seq(S)]
      /\ e[k] = Append(c[k], p)
      /\ \A k1 \in K : k1 # k => e[k1] = c[k1]
  BY <1>1, <1>2
<1> QED
  BY <1>1, <1>3

\* p waits in queue k and nowhere else; everybody else waits on.
LEMMA EnqueuedWaiting ==
  ASSUME NEW K, NEW S, NEW queues \in [K -> Seq(S)], NEW p \in S, NEW k \in K,
         WaitsOnce(queues), NEW k1 \in K, NEW x
  PROVE  x \in Waiting(Enqueued(queues, p, k)[k1]) <=>
           \/ x = p /\ k1 = k
           \/ x # p /\ x \in Waiting(queues[k1])
<1>1. PICK e, c : e = Enqueued(queues, p, k) /\ c = Cancel(queues, p)
  OBVIOUS
<1>2. /\ \A k2 \in K : k2 # k => e[k2] = c[k2]
      /\ DOMAIN c[k] = 1..Len(c[k]) /\ Len(c[k]) \in Nat
      /\ DOMAIN e[k] = 1..(Len(c[k]) + 1)
      /\ e[k][Len(c[k]) + 1] = p
      /\ \A i \in 1..Len(c[k]) : e[k][i] = c[k][i]
  BY <1>1, EnqueuedShape
<1>3. x \in Waiting(c[k1]) <=> x \in Waiting(queues[k1]) /\ x # p
  BY <1>1, CancelWaiting
<1>4. CASE k1 # k
  BY <1>1, <1>2, <1>3, <1>4
<1>5. CASE k1 = k
  <2>1. Waiting(e[k]) \subseteq Waiting(c[k]) \cup {p}
    BY <1>2 DEF Waiting
  <2>2. Waiting(c[k]) \subseteq Waiting(e[k])
    BY <1>2 DEF Waiting
  <2>3. Len(c[k]) + 1 \in DOMAIN e[k]
    BY <1>2
  <2>4. p \in Waiting(e[k])
    BY <1>2, <2>3 DEF Waiting
  <2> QED
    BY <1>1, <1>3, <1>5, <2>1, <2>2, <2>4
<1> QED
  BY <1>4, <1>5

\* Who waits for k when p has asked for k is p or was waiting for k.
LEMMA EnqueuedIsKnown ==
  ASSUME NEW K, NEW S, NEW queues \in [K -> Seq(S)], NEW p \in S, NEW k \in K,
         WaitsOnce(queues)
  PROVE  Waiting(Enqueued(queues, p, k)[k]) \subseteq Waiting(queues[k]) \cup {p}
<1> SUFFICES ASSUME NEW x, x \in Waiting(Enqueued(queues, p, k)[k])
             PROVE  x = p \/ x \in Waiting(queues[k])
  OBVIOUS
<1>1. \/ x = p /\ k = k
      \/ x # p /\ x \in Waiting(queues[k])
  BY EnqueuedWaiting
<1> QED
  BY <1>1

\* Still nobody waits twice, and only queue k may have grown, by one.
LEMMA EnqueuedSound ==
  ASSUME NEW K, NEW S, NEW queues \in [K -> Seq(S)], NEW p \in S, NEW k \in K,
         WaitsOnce(queues)
  PROVE  /\ Enqueued(queues, p, k) \in [K -> Seq(S)]
         /\ WaitsOnce(Enqueued(queues, p, k))
         /\ Len(Enqueued(queues, p, k)[k]) <= Len(queues[k]) + 1
         /\ \A k1 \in K : k1 # k => Len(Enqueued(queues, p, k)[k1]) <= Len(queues[k1])
<1> DEFINE c == Cancel(queues, p)
           e == Enqueued(queues, p, k)
<1>1. /\ c \in [K -> Seq(S)]
      /\ WaitsOnce(c)
      /\ \A k1 \in K : Len(c[k1]) <= Len(queues[k1])
  BY CancelSound
<1>2. e = [c EXCEPT ![k] = Append(c[k], p)]
  BY DEF Enqueued
<1>3. p \notin Waiting(c[k])
  BY CancelWaiting
<1>4. ASSUME NEW k1 \in K, NEW x
      PROVE  x \in Waiting(e[k1]) <=>
               \/ x = p /\ k1 = k
               \/ x # p /\ x \in Waiting(queues[k1])
  BY EnqueuedWaiting
<1> HIDE DEF c, e
<1>5. /\ e \in [K -> Seq(S)]
      /\ e[k] = Append(c[k], p)
      /\ \A k1 \in K : k1 # k => e[k1] = c[k1]
  BY <1>1, <1>2
<1>6. /\ Len(e[k]) = Len(c[k]) + 1
      /\ \A i \in 1..Len(c[k]) : e[k][i] = c[k][i]
      /\ e[k][Len(c[k]) + 1] = p
      /\ DOMAIN c[k] = 1..Len(c[k])
      /\ DOMAIN e[k] = 1..(Len(c[k]) + 1)
      /\ Len(c[k]) \in Nat
  BY <1>1, <1>5
<1>7. Distinct(e[k])
  <2>1. Distinct(c[k])
    BY <1>1, WaitsOnceByQueue
  <2>2. \A i \in 1..Len(c[k]) : c[k][i] # p
    BY <1>3, <1>6 DEF Waiting
  <2>3. \A i, j \in 1..Len(c[k]) : c[k][i] = c[k][j] => i = j
    BY <1>6, <2>1 DEF Distinct
  <2>4. SUFFICES ASSUME NEW i \in 1..(Len(c[k]) + 1), NEW j \in 1..(Len(c[k]) + 1),
                        e[k][i] = e[k][j]
                 PROVE  i = j
    BY <1>6 DEF Distinct
  <2>5. CASE i \in 1..Len(c[k]) /\ j \in 1..Len(c[k])
    BY <1>6, <2>3, <2>4, <2>5
  <2>6. CASE i \in 1..Len(c[k]) /\ j = Len(c[k]) + 1
    BY <1>6, <2>2, <2>4, <2>6
  <2>7. CASE i = Len(c[k]) + 1 /\ j \in 1..Len(c[k])
    BY <1>6, <2>2, <2>4, <2>7
  <2> QED
    BY <1>6, <2>5, <2>6, <2>7
<1>8. \A k1 \in K : Distinct(e[k1])
  BY <1>1, <1>5, <1>7, WaitsOnceByQueue
<1>9. \A k1, k2 \in K : k1 # k2 => Waiting(queues[k1]) \cap Waiting(queues[k2]) = {}
  BY WaitsOnceByQueue
<1>10. \A k1, k2 \in K : k1 # k2 => Waiting(e[k1]) \cap Waiting(e[k2]) = {}
  BY <1>4, <1>9
<1>11. WaitsOnce(e)
  BY <1>5, <1>8, <1>10, WaitsOnceByQueue
<1>12. Len(e[k]) <= Len(queues[k]) + 1
  BY <1>1, <1>6
<1> QED
  BY <1>1, <1>5, <1>11, <1>12 DEF e

\* splice(0, n): the group and the rest share the queue between them.
LEMMA SpliceSound ==
  ASSUME NEW S, NEW q \in Seq(S), NEW n \in Nat, n <= Len(q), Distinct(q)
  PROVE  /\ Group(q, n) \in Seq(S) /\ Len(Group(q, n)) = n
         /\ Rest(q, n) \in Seq(S) /\ Len(Rest(q, n)) = Len(q) - n
         /\ Distinct(Rest(q, n)) /\ Distinct(Group(q, n))
         /\ Waiting(Group(q, n)) \subseteq Waiting(q)
         /\ Waiting(Rest(q, n)) = Waiting(q) \ Waiting(Group(q, n))
<1> DEFINE g == Group(q, n)
           r == Rest(q, n)
<1>1. /\ g \in Seq(S) /\ Len(g) = n /\ DOMAIN g = 1..n
      /\ \A i \in 1..n : g[i] = q[i]
  BY DEF Group
<1>2. /\ r \in Seq(S) /\ Len(r) = Len(q) - n /\ DOMAIN r = 1..(Len(q) - n)
      /\ \A i \in 1..(Len(q) - n) : r[i] = q[n + i]
  BY DEF Rest
<1> HIDE DEF g, r
<1>3. DOMAIN q = 1..Len(q) /\ \A x, y \in 1..Len(q) : q[x] = q[y] => x = y
  BY DEF Distinct
<1>4. /\ \A i \in 1..n : i \in 1..Len(q)
      /\ \A i \in 1..(Len(q) - n) : n + i \in 1..Len(q)
  OBVIOUS
<1>5. Distinct(g)
  <2>1. \A i, j \in 1..n : g[i] = g[j] => i = j
    BY <1>1, <1>3, <1>4
  <2> QED
    BY <1>1, <2>1 DEF Distinct
<1>6. Distinct(r)
  <2>1. \A i, j \in 1..(Len(q) - n) : r[i] = r[j] => n + i = n + j
    BY <1>2, <1>3, <1>4
  <2> QED
    BY <1>2, <2>1 DEF Distinct
<1>7. Waiting(g) \subseteq Waiting(q)
  BY <1>1, <1>3, <1>4 DEF Waiting
<1>8. Waiting(r) \subseteq Waiting(q)
  <2>1. \A i \in 1..(Len(q) - n) : r[i] \in Waiting(q)
    BY <1>2, <1>3, <1>4 DEF Waiting
  <2> QED
    BY <1>2, <2>1 DEF Waiting
<1>9. Waiting(r) \cap Waiting(g) = {}
  <2>1. ASSUME NEW i \in 1..n, NEW j \in 1..(Len(q) - n)
        PROVE  g[i] # r[j]
    BY <1>1, <1>2, <1>3, <1>4
  <2> QED
    BY <1>1, <1>2, <2>1 DEF Waiting
<1>10. Waiting(q) \subseteq Waiting(g) \cup Waiting(r)
  <2> SUFFICES ASSUME NEW i \in 1..Len(q)
               PROVE  q[i] \in Waiting(g) \cup Waiting(r)
    BY <1>3 DEF Waiting
  <2>1. CASE i <= n
    BY <1>1, <2>1 DEF Waiting
  <2>2. CASE i > n
    <3>1. i - n \in 1..(Len(q) - n) /\ n + (i - n) = i
      BY <2>2
    <3> QED
      BY <1>2, <3>1 DEF Waiting
  <2> QED
    BY <2>1, <2>2
<1> QED
  BY <1>1, <1>2, <1>5, <1>6, <1>7, <1>8, <1>9, <1>10 DEF g, r

\* The same about one player x.
LEMMA SpliceWaiting ==
  ASSUME NEW S, NEW q \in Seq(S), NEW n \in Nat, n <= Len(q), Distinct(q), NEW x
  PROVE  /\ x \in Waiting(Group(q, n)) => x \in Waiting(q)
         /\ x \in Waiting(Rest(q, n)) <=> x \in Waiting(q) /\ x \notin Waiting(Group(q, n))
<1>1. /\ Waiting(Group(q, n)) \subseteq Waiting(q)
      /\ Waiting(Rest(q, n)) = Waiting(q) \ Waiting(Group(q, n))
  BY SpliceSound
<1> QED
  BY <1>1

\* Without a place to lose, a player's request is just a push().
LEMMA EnqueuedIsAppended ==
  ASSUME NEW K, NEW S, NEW queues \in [K -> Seq(S)], NEW p \in S, NEW k \in K,
         WaitsOnce(queues)
  PROVE  /\ p \in Waiting(queues[k]) => Len(Enqueued(queues, p, k)[k]) = Len(queues[k])
         /\ p \notin Waiting(queues[k]) => Enqueued(queues, p, k)[k] = Append(queues[k], p)
<1> DEFINE c == Cancel(queues, p)
<1>1. c \in [K -> Seq(S)] /\ c[k] = Without(queues[k], p)
  <2>1. c[k] = Without(queues[k], p)
    BY DEF Cancel
  <2> QED
    BY <2>1, CancelSound
<1>2. Enqueued(queues, p, k)[k] = Append(c[k], p)
  BY <1>1 DEF Enqueued
<1>3. queues[k] \in Seq(S) /\ c[k] \in Seq(S)
  BY <1>1
<1> HIDE DEF c
<1>4. ASSUME p \in Waiting(queues[k])
      PROVE  Len(Enqueued(queues, p, k)[k]) = Len(queues[k])
  <2>1. Len(c[k]) = Len(queues[k]) - 1
    BY <1>1, <1>3, <1>4, WithoutShifts
  <2>2. Len(Append(c[k], p)) = Len(c[k]) + 1 /\ Len(c[k]) \in Nat
    BY <1>3
  <2> QED
    BY <1>2, <1>3, <2>1, <2>2
<1>5. ASSUME p \notin Waiting(queues[k])
      PROVE  Enqueued(queues, p, k)[k] = Append(queues[k], p)
  BY <1>1, <1>2, <1>5 DEF Without
<1> QED
  BY <1>4, <1>5

\* A request completes a group only if its player did not wait in that queue; the
\* group is the whole queue, in its order, and the player.
LEMMA GroupIsQueueAndPlayer ==
  ASSUME NEW K, NEW S, NEW queues \in [K -> Seq(S)], NEW p \in S, NEW k \in K,
         WaitsOnce(queues), NEW n \in Nat, n > 0, Len(queues[k]) < n,
         Ready(Enqueued(queues, p, k)[k], n),
         NEW g, g = Group(Enqueued(queues, p, k)[k], n)
  PROVE  /\ p \notin Waiting(queues[k])
         /\ Len(queues[k]) = n - 1
         /\ g \in Seq(S) /\ Len(g) = n /\ Distinct(g)
         /\ \A i \in 1..(n - 1) : g[i] = queues[k][i]
         /\ g[n] = p
<1> DEFINE q == queues[k]
           e == Enqueued(queues, p, k)[k]
<1>1. q \in Seq(S) /\ Len(q) \in Nat /\ Len(q) < n /\ Len(e) >= n
  BY DEF Ready
<1>2. p \notin Waiting(q)
  BY <1>1, EnqueuedIsAppended
<1>3. e = Append(q, p)
  BY <1>2, EnqueuedIsAppended
<1>4. /\ e \in Seq(S) /\ Len(e) = Len(q) + 1
      /\ \A i \in 1..Len(q) : e[i] = q[i]
      /\ e[Len(q) + 1] = p
  BY <1>1, <1>3
<1>5. Len(q) = n - 1
  BY <1>1, <1>4
<1>6. g = SubSeq(e, 1, n)
  BY DEF Group
<1>7. Distinct(e)
  <2>1. WaitsOnce(Enqueued(queues, p, k)) /\ Enqueued(queues, p, k) \in [K -> Seq(S)]
    BY EnqueuedSound
  <2> QED
    BY <2>1, WaitsOnceByQueue
<1> HIDE DEF q, e
<1>8. g \in Seq(S) /\ Len(g) = n /\ \A i \in 1..n : g[i] = e[i]
  BY <1>1, <1>4, <1>6
<1>9. Distinct(g)
  <2>1. g = Group(e, n) /\ n <= Len(e)
    BY <1>1, <1>6 DEF Group
  <2> QED
    BY <1>4, <1>7, <2>1, SpliceSound
<1>10. \A i \in 1..(n - 1) : g[i] = q[i]
  BY <1>4, <1>5, <1>8
<1>11. g[n] = p
  BY <1>4, <1>5, <1>8
<1> QED
  BY <1>2, <1>5, <1>8, <1>9, <1>10, <1>11 DEF q, e

\* Everyone has one position in a queue without repetitions.
LEMMA PositionOfPlace ==
  ASSUME NEW S, NEW q \in Seq(S), Distinct(q), NEW i \in DOMAIN q
  PROVE  Position(q, q[i]) = i
<1>1. q[i] \in Waiting(q)
  BY DEF Waiting
<1>2. Position(q, q[i]) \in DOMAIN q /\ q[Position(q, q[i])] = q[i]
  BY <1>1, PositionIsPlace
<1> QED
  BY <1>2 DEF Distinct
================================================================================
