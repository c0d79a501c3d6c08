--------------------------- MODULE MatchmakerProofs ---------------------------
(***************************************************************************)
(* The matchmaker keeps its promises for any players, keys and thresholds. *)
(* The inductive invariant is the conjunction of the three that are        *)
(* checked: that nobody waits twice needs the queues to be queues, and     *)
(* that the group is taken out needs that nobody waited twice.             *)
(* That cancel() filters the queues is proved from the recursion of the    *)
(* filter, by the least place where it could differ.                       *)
(***************************************************************************)
EXTENDS Matchmaker, MatchQueueProofs, FiniteSetTheorems, SequenceTheorems,
        WellFoundedInduction

IInv == TypeOK /\ NoDoubleQueue /\ NoMatchMissed /\ GroupIsTakenOut

LEMMA NoDoubleQueueIsWaitsOnce ==
  ASSUME TypeOK
  PROVE  NoDoubleQueue <=> WaitsOnce(queues)
<1>1. DOMAIN queues = Key
  BY DEF TypeOK
<1> QED
  BY <1>1 DEF NoDoubleQueue, WaitsOnce

LEMMA InitEstablishes == Init => IInv
<1> SUFFICES ASSUME Init PROVE IInv
  OBVIOUS
<1>1. \A k \in Key : queues[k] = << >> /\ DOMAIN queues[k] = {}
  BY DEF Init
<1>2. TypeOK
  BY DEF Init, TypeOK
<1>3. NoDoubleQueue
  BY <1>1 DEF NoDoubleQueue
<1>4. NoMatchMissed
  BY <1>1, RequiredAssumption DEF NoMatchMissed
<1>5. GroupIsTakenOut
  BY DEF Init, GroupIsTakenOut, Waiting
<1> QED
  BY <1>2, <1>3, <1>4, <1>5 DEF IInv

\* What a step leaves of a returned group when the call returns none.
LEMMA NothingReturned ==
  ASSUME matched' = << >>
  PROVE  GroupIsTakenOut' /\ matched' \in Seq(Player)
BY DEF GroupIsTakenOut, Waiting

LEMMA EnqueueKeeps ==
  ASSUME IInv, NEW p \in Player, NEW k \in Key, Enqueue(p, k)
  PROVE  IInv'
<1> DEFINE e == Enqueued(queues, p, k)
<1>1. queues \in [Key -> Seq(Player)] /\ WaitsOnce(queues)
  BY NoDoubleQueueIsWaitsOnce DEF IInv, TypeOK
<1>2. /\ e \in [Key -> Seq(Player)]
      /\ WaitsOnce(e)
      /\ \A k1 \in Key \ {k} : Len(e[k1]) <= Len(queues[k1])
  BY <1>1, EnqueuedSound
<1>3. queues' = e /\ matched' = << >> /\ ~(Len(e[k]) >= Required[k])
  BY DEF Enqueue, Ready
<1> HIDE DEF e
<1>4. TypeOK' /\ GroupIsTakenOut'
  BY <1>2, <1>3, NothingReturned DEF TypeOK
<1>5. NoDoubleQueue'
  BY <1>2, <1>3 DEF NoDoubleQueue, WaitsOnce
<1>6. NoMatchMissed'
  <2> SUFFICES ASSUME NEW k1 \in Key, Required[k1] > 0
               PROVE  Len(e[k1]) < Required[k1]
    BY <1>3 DEF NoMatchMissed
  <2>1. Len(e[k1]) \in Nat /\ Len(queues[k1]) \in Nat /\ Required[k1] \in Nat
    BY <1>1, <1>2, RequiredAssumption
  <2>2. CASE k1 = k
    BY <1>3, <2>1, <2>2
  <2>3. CASE k1 # k
    BY <1>2, <2>1, <2>3 DEF IInv, NoMatchMissed
  <2> QED
    BY <2>2, <2>3
<1> QED
  BY <1>4, <1>5, <1>6 DEF IInv

LEMMA MatchKeeps ==
  ASSUME IInv, NEW p \in Player, NEW k \in Key, Match(p, k)
  PROVE  IInv'
<1> DEFINE e == Enqueued(queues, p, k)
           n == Required[k]
           g == Group(e[k], n)
           r == Rest(e[k], n)
<1>1. queues \in [Key -> Seq(Player)] /\ WaitsOnce(queues)
  BY NoDoubleQueueIsWaitsOnce DEF IInv, TypeOK
<1>2. /\ e \in [Key -> Seq(Player)]
      /\ WaitsOnce(e)
      /\ Len(e[k]) <= Len(queues[k]) + 1
      /\ \A k1 \in Key \ {k} : Len(e[k1]) <= Len(queues[k1])
  BY <1>1, EnqueuedSound
<1>3. queues' = [e EXCEPT ![k] = r] /\ matched' = g /\ Len(e[k]) >= n
  BY DEF Match, Ready
<1> HIDE DEF e
<1>4. /\ e[k] \in Seq(Player) /\ n \in Nat /\ n <= Len(e[k])
      /\ \A k1 \in Key : Distinct(e[k1])
      /\ \A k1, k2 \in Key : k1 # k2 => Waiting(e[k1]) \cap Waiting(e[k2]) = {}
  BY <1>2, <1>3, RequiredAssumption, WaitsOnceByQueue
<1>5. /\ g \in Seq(Player) /\ Len(g) = n
      /\ r \in Seq(Player) /\ Len(r) = Len(e[k]) - n
      /\ Distinct(r) /\ Distinct(g)
      /\ Waiting(g) \subseteq Waiting(e[k])
      /\ Waiting(r) = Waiting(e[k]) \ Waiting(g)
  BY <1>4, SpliceSound
<1> HIDE DEF g, r
<1>6. /\ queues' \in [Key -> Seq(Player)]
      /\ queues'[k] = r
      /\ \A k1 \in Key \ {k} : queues'[k1] = e[k1]
  BY <1>2, <1>3, <1>5
<1>7. TypeOK'
  BY <1>3, <1>5, <1>6 DEF TypeOK
<1>8. NoDoubleQueue'
  <2>1. DOMAIN queues' = Key /\ \A k1 \in Key : Distinct(queues'[k1])
    BY <1>4, <1>5, <1>6
  <2>2. \A k1 \in Key : Waiting(queues'[k1]) \subseteq Waiting(e[k1])
    BY <1>5, <1>6
  <2>3. \A k1, k2 \in Key : k1 # k2 => Waiting(queues'[k1]) \cap Waiting(queues'[k2]) = {}
    BY <1>4, <2>2
  <2>4. WaitsOnce(queues')
    BY <2>1, <2>3, WaitsOnceByQueue
  <2> QED
    BY <2>1, <2>4 DEF NoDoubleQueue, WaitsOnce
<1>9. NoMatchMissed'
  <2> SUFFICES ASSUME NEW k1 \in Key, Required[k1] > 0
               PROVE  Len(queues'[k1]) < Required[k1]
    BY DEF NoMatchMissed
  <2>1. /\ Len(e[k1]) \in Nat /\ Len(queues[k1]) \in Nat /\ Required[k1] \in Nat
        /\ Len(queues[k1]) < Required[k1]
    BY <1>1, <1>2, RequiredAssumption DEF IInv, NoMatchMissed
  <2>2. CASE k1 = k
    BY <1>2, <1>5, <1>6, <2>1, <2>2
  <2>3. CASE k1 # k
    BY <1>2, <1>6, <2>1, <2>3
  <2> QED
    BY <2>2, <2>3
<1>10. GroupIsTakenOut'
  <2>1. \A i, j \in DOMAIN g : g[i] = g[j] => i = j
    BY <1>5 DEF Distinct
  <2>2. ASSUME NEW k1 \in Key
        PROVE  Waiting(g) \cap Waiting(queues'[k1]) = {}
    BY <1>4, <1>5, <1>6
  <2> QED
    BY <1>3, <1>5, <2>1, <2>2 DEF GroupIsTakenOut
<1> QED
  BY <1>7, <1>8, <1>9, <1>10 DEF IInv

LEMMA CancelKeeps ==
  ASSUME IInv, NEW p \in Player, CancelRequest(p)
  PROVE  IInv'
<1> DEFINE c == Cancel(queues, p)
<1>1. queues \in [Key -> Seq(Player)] /\ WaitsOnce(queues)
  BY NoDoubleQueueIsWaitsOnce DEF IInv, TypeOK
<1>2. /\ c \in [Key -> Seq(Player)]
      /\ WaitsOnce(c)
      /\ \A k \in Key : Len(c[k]) <= Len(queues[k])
  BY <1>1, CancelSound
<1>3. queues' = c /\ matched' = << >>
  BY DEF CancelRequest
<1> HIDE DEF c
<1>4. TypeOK' /\ GroupIsTakenOut'
  BY <1>2, <1>3, NothingReturned DEF TypeOK
<1>5. NoDoubleQueue'
  BY <1>2, <1>3 DEF NoDoubleQueue, WaitsOnce
<1>6. NoMatchMissed'
  <2>1. \A k \in Key : /\ Len(c[k]) \in Nat /\ Len(queues[k]) \in Nat
                       /\ Required[k] \in Nat
    BY <1>1, <1>2, RequiredAssumption
  <2> QED
    BY <1>2, <1>3, <2>1 DEF IInv, NoMatchMissed
<1> QED
  BY <1>4, <1>5, <1>6 DEF IInv

LEMMA StepKeeps == IInv /\ [Next]_vars => IInv'
<1> SUFFICES ASSUME IInv, [Next]_vars
             PROVE  IInv'
  OBVIOUS
<1>1. CASE UNCHANGED vars
  BY <1>1 DEF vars, IInv, TypeOK, NoDoubleQueue, NoMatchMissed, GroupIsTakenOut
<1>2. CASE Next
  BY <1>2, EnqueueKeeps, MatchKeeps, CancelKeeps DEF Next
<1> QED
  BY <1>1, <1>2

\* Every call of enqueue() or cancel() keeps all four promises.
THEOREM MatchmakerInvariant == Spec => []IInv
BY InitEstablishes, StepKeeps, PTL DEF Spec

\* Nobody ever waits twice.
THEOREM NobodyWaitsTwice == Spec => []NoDoubleQueue
<1>1. IInv => NoDoubleQueue
  BY DEF IInv
<1> QED
  BY <1>1, MatchmakerInvariant, PTL

\* No queue ever holds a complete group.
THEOREM NoMatchIsMissed == Spec => []NoMatchMissed
<1>1. IInv => NoMatchMissed
  BY DEF IInv
<1> QED
  BY <1>1, MatchmakerInvariant, PTL

\* A returned group has the size asked for, no duplicates, and waits nowhere.
THEOREM GroupsAreTakenOut == Spec => []GroupIsTakenOut
<1>1. IInv => GroupIsTakenOut
  BY DEF IInv
<1> QED
  BY <1>1, MatchmakerInvariant, PTL

\* Every variable of the matchmaker keeps its type.
THEOREM TypeCorrect == Spec => []TypeOK
<1>1. IInv => TypeOK
  BY DEF IInv
<1> QED
  BY <1>1, MatchmakerInvariant, PTL
-------------------------------------------------------------------------------
\* What FirstInFirstOut says of a step.
MatchedInOrder ==
  \A k \in Key : \A i, j \in DOMAIN queues[k] :
    LET a == queues[k][i]
        b == queues[k][j]
    IN  i < j /\ b \in Waiting(matched') /\ b # matched'[Len(matched')] =>
          a \in Waiting(matched') /\ Position(matched', a) < Position(matched', b)

\* A group is the queue of its key as it stood, and the player that asked.
LEMMA MatchIsInOrder ==
  ASSUME IInv, NEW p \in Player, NEW k0 \in Key, Match(p, k0)
  PROVE  MatchedInOrder
<1> DEFINE e == Enqueued(queues, p, k0)[k0]
           n == Required[k0]
           g == Group(e, n)
<1>1. /\ queues \in [Key -> Seq(Player)] /\ WaitsOnce(queues)
      /\ n \in Nat /\ Ready(e, n) /\ matched' = g
  BY NoDoubleQueueIsWaitsOnce, RequiredAssumption DEF IInv, TypeOK, Match
<1>2. CASE n = 0
  <2>1. g = << >>
    BY <1>2 DEF Group
  <2> QED
    BY <1>1, <2>1 DEF MatchedInOrder, Waiting
<1>3. CASE n > 0
  <2>1. /\ p \notin Waiting(queues[k0])
        /\ Len(queues[k0]) = n - 1
        /\ g \in Seq(Player) /\ Len(g) = n /\ Distinct(g)
        /\ \A i \in 1..(n - 1) : g[i] = queues[k0][i]
        /\ g[n] = p
    BY <1>1, <1>3, GroupIsQueueAndPlayer DEF IInv, NoMatchMissed
  <2> HIDE DEF e, n, g
  <2> SUFFICES ASSUME NEW k \in Key, NEW i \in DOMAIN queues[k], NEW j \in DOMAIN queues[k],
                      i < j, queues[k][j] \in Waiting(g), queues[k][j] # g[Len(g)]
               PROVE  /\ queues[k][i] \in Waiting(g)
                      /\ Position(g, queues[k][i]) < Position(g, queues[k][j])
    BY <1>1 DEF MatchedInOrder
  <2>2. PICK m \in 1..n : g[m] = queues[k][j]
    BY <1>1, <2>1 DEF Waiting
  <2>3. m \in 1..(n - 1) /\ queues[k0][m] = queues[k][j] /\ m \in DOMAIN queues[k0]
    BY <1>1, <2>1, <2>2
  <2>4. k = k0
    BY <2>3 DEF IInv, NoDoubleQueue
  <2>5. i \in 1..(n - 1) /\ j \in 1..(n - 1) /\ DOMAIN g = 1..n
    BY <1>1, <2>1, <2>4
  <2>6. g[i] = queues[k][i] /\ g[j] = queues[k][j] /\ i \in DOMAIN g /\ j \in DOMAIN g
    BY <1>1, <2>1, <2>4, <2>5
  <2>7. Position(g, g[i]) = i /\ Position(g, g[j]) = j
    BY <2>1, <2>6, PositionOfPlace
  <2> QED
    BY <2>6, <2>7 DEF Waiting
<1> QED
  BY <1>1, <1>2, <1>3

\* Groups are matched in the order in which their players have asked, for any
\* number of players and keys; no player that waits is overtaken by one behind it.
THEOREM GroupsComeInOrder == Spec => FirstInFirstOut
<1>1. IInv /\ [Next]_vars => [MatchedInOrder]_vars
  <2> SUFFICES ASSUME IInv, Next PROVE MatchedInOrder
    OBVIOUS
  <2>1. ASSUME matched' = << >> PROVE MatchedInOrder
    BY <2>1 DEF MatchedInOrder, Waiting
  <2> QED
    BY <2>1, MatchIsInOrder DEF Next, Enqueue, CancelRequest
<1> QED
  BY <1>1, MatchmakerInvariant, PTL DEF Spec, FirstInFirstOut, MatchedInOrder
-------------------------------------------------------------------------------
(* What cancel() leaves of a queue.  A recursive function is what it is    *)
(* defined to be if there is such a function, and it is shown to be        *)
(* another by looking at the least place where the two would differ.       *)

\* Among natural numbers there is a least one.
LEMMA LeastOf ==
  ASSUME NEW T \in SUBSET Nat, T # {}
  PROVE  \E x \in T : \A y \in T : x <= y
<1> DEFINE Fam == {0..x : x \in T}
<1>1. PICK R : R = StrictSubsetOrdering(Nat)
  OBVIOUS
<1>2. IsWellFoundedOn(R, FiniteSubsetsOf(Nat))
  BY <1>1, FS_StrictSubsetOrderingWellFounded
<1>3. Fam \subseteq FiniteSubsetsOf(Nat) /\ Fam # {}
  <2>1. \A x \in T : IsFiniteSet(0..x) /\ 0..x \subseteq Nat
    BY FS_Interval
  <2> QED
    BY <2>1 DEF FiniteSubsetsOf
<1>4. \E X \in Fam : \A Y \in Fam : <<Y, X>> \notin R
  <2> HIDE DEF Fam
  <2> QED
    BY <1>2, <1>3, WFMin
<1>5. PICK x \in T : \A y \in T : <<0..y, 0..x>> \notin R
  BY <1>4
<1>6. ASSUME NEW y \in T, y < x
      PROVE  <<0..y, 0..x>> \in R
  <2>1. 0..y \subseteq 0..x /\ x \in 0..x /\ x \notin 0..y /\ 0..x \subseteq Nat /\ 0..y \subseteq Nat
    BY <1>6
  <2>2. 0..y # 0..x
    BY <2>1
  <2> QED
    BY <1>1, <2>1, <2>2 DEF StrictSubsetOrdering
<1>7. \A y \in T : ~(y < x)
  BY <1>5, <1>6
<1> QED
  BY <1>7

\* One more item at the end.
LEMMA WithoutAppended ==
  ASSUME NEW S, NEW q \in Seq(S), NEW x \in S, NEW p, Distinct(Append(q, x))
  PROVE  Without(Append(q, x), p) = IF x # p THEN Append(Without(q, p), x) ELSE Without(q, p)
<1>1. PICK a, n : a = Append(q, x) /\ n = Len(q)
  OBVIOUS
<1>2. /\ n \in Nat /\ DOMAIN q = 1..n
      /\ a \in Seq(S) /\ Len(a) = n + 1 /\ DOMAIN a = 1..(n + 1)
      /\ \A i \in 1..n : a[i] = q[i]
      /\ a[n + 1] = x
      /\ Distinct(a)
  BY <1>1
<1>3. CASE x = p
  <2>1. p \notin Waiting(q)
    BY <1>2, <1>3 DEF Waiting, Distinct
  <2>2. Without(q, p) = q
    BY <2>1 DEF Without
  <2>3. p \in Waiting(a) /\ Position(a, p) = n + 1
    <3>1. n + 1 \in DOMAIN a
      BY <1>2
    <3>2. Position(a, a[n + 1]) = n + 1
      BY <1>2, <3>1, PositionOfPlace
    <3> QED
      BY <1>2, <1>3, <3>1, <3>2 DEF Waiting
  <2>4. /\ Without(a, p) \in Seq(S) /\ Len(Without(a, p)) = n
        /\ \A i \in 1..n : Without(a, p)[i] = q[i]
    <3>1. /\ Without(a, p) \in Seq(S)
          /\ Len(Without(a, p)) = Len(a) - 1
          /\ \A i \in 1..(Len(a) - 1) :
               Without(a, p)[i] = IF i < Position(a, p) THEN a[i] ELSE a[i + 1]
      BY <1>2, <2>3, WithoutShifts
    <3> QED
      BY <1>2, <2>3, <3>1
  <2>5. Without(a, p) = q
    BY <1>1, <2>4, SeqEqual
  <2> QED
    BY <1>1, <1>3, <2>2, <2>5
<1>4. CASE x # p /\ p \in Waiting(q)
  <2>1. PICK m : m = Position(q, p)
    OBVIOUS
  <2>2. m \in 1..n /\ q[m] = p
    BY <1>1, <1>4, <2>1, PositionIsPlace
  <2>3. p \in Waiting(a) /\ Position(a, p) = m
    <3>1. m \in DOMAIN a /\ a[m] = p
      BY <1>2, <2>2
    <3>2. Position(a, a[m]) = m
      BY <1>2, <3>1, PositionOfPlace
    <3> QED
      BY <3>1, <3>2 DEF Waiting
  <2>4. PICK v, w : v = Without(a, p) /\ w = Without(q, p)
    OBVIOUS
  <2>5. /\ v \in Seq(S) /\ Len(v) = n
        /\ \A i \in 1..n : v[i] = IF i < m THEN a[i] ELSE a[i + 1]
    <3>1. /\ v \in Seq(S) /\ Len(v) = Len(a) - 1
          /\ \A i \in 1..(Len(a) - 1) : v[i] = IF i < Position(a, p) THEN a[i] ELSE a[i + 1]
      BY <1>2, <2>3, <2>4, WithoutShifts
    <3> QED
      BY <1>2, <2>3, <3>1
  <2>6. /\ w \in Seq(S) /\ Len(w) = n - 1
        /\ \A i \in 1..(n - 1) : w[i] = IF i < m THEN q[i] ELSE q[i + 1]
    BY <1>1, <1>4, <2>1, <2>4, WithoutShifts
  <2>7. /\ Append(w, x) \in Seq(S) /\ Len(Append(w, x)) = n
        /\ \A i \in 1..(n - 1) : Append(w, x)[i] = w[i]
        /\ Append(w, x)[n] = x
    BY <1>2, <2>2, <2>6
  <2>8. \A i \in 1..n : v[i] = Append(w, x)[i]
    <3> SUFFICES ASSUME NEW i \in 1..n PROVE v[i] = Append(w, x)[i]
      OBVIOUS
    <3>1. CASE i = n
      BY <1>2, <2>2, <2>5, <2>7, <3>1
    <3>2. CASE i # n
      <4>1. i \in 1..(n - 1) /\ i + 1 \in 1..n
        BY <1>2, <3>2
      <4>2. Append(w, x)[i] = IF i < m THEN q[i] ELSE q[i + 1]
        BY <2>6, <2>7, <4>1
      <4> QED
        BY <1>2, <2>5, <4>1, <4>2
    <3> QED
      BY <3>1, <3>2
  <2>9. v = Append(w, x)
    BY <2>5, <2>7, <2>8, SeqEqual
  <2> QED
    BY <1>1, <1>4, <2>4, <2>9
<1>5. CASE x # p /\ p \notin Waiting(q)
  <2>1. p \notin Waiting(a)
    BY <1>2, <1>5 DEF Waiting
  <2> QED
    BY <1>1, <1>5, <2>1 DEF Without
<1> QED
  BY <1>3, <1>4, <1>5

\* The first items of a queue, and one more.
LEMMA FirstItems ==
  ASSUME NEW S, NEW q \in Seq(S), Distinct(q), NEW i \in 1..Len(q)
  PROVE  /\ SubSeq(q, 1, i - 1) \in Seq(S) /\ q[i] \in S
         /\ SubSeq(q, 1, i) = Append(SubSeq(q, 1, i - 1), q[i])
         /\ Distinct(SubSeq(q, 1, i))
<1>1. /\ SubSeq(q, 1, i - 1) \in Seq(S) /\ Len(SubSeq(q, 1, i - 1)) = i - 1
      /\ \A j \in 1..(i - 1) : SubSeq(q, 1, i - 1)[j] = q[j]
  OBVIOUS
<1>2. /\ SubSeq(q, 1, i) \in Seq(S) /\ Len(SubSeq(q, 1, i)) = i
      /\ \A j \in 1..i : SubSeq(q, 1, i)[j] = q[j]
  OBVIOUS
<1>3. q[i] \in S
  OBVIOUS
<1>4. PICK u, v : u = SubSeq(q, 1, i - 1) /\ v = SubSeq(q, 1, i)
  OBVIOUS
<1>5. /\ Append(u, q[i]) \in Seq(S) /\ Len(Append(u, q[i])) = i
      /\ \A j \in 1..i : Append(u, q[i])[j] = q[j]
  BY <1>1, <1>3, <1>4
<1>6. v = Append(u, q[i])
  BY <1>2, <1>4, <1>5, SeqEqual
<1>7. Distinct(v)
  BY <1>2, <1>4 DEF Distinct
<1> QED
  BY <1>1, <1>3, <1>4, <1>6, <1>7

\* f is what Filtered computes.
Filters(f, q, p) ==
  f = [i \in 0..Len(q) |->
         IF i = 0 THEN << >>
         ELSE IF q[i] # p THEN Append(f[i - 1], q[i]) ELSE f[i - 1]]

LEMMA FilteredByOne ==
  ASSUME NEW q, NEW p, NEW g, Filters(g, q, p)
  PROVE  \E f : Filters(f, q, p) /\ Filtered(q, p) = f[Len(q)]
<1>1. PICK f : f = CHOOSE h : Filters(h, q, p)
  OBVIOUS
<1>2. Filters(f, q, p)
  BY <1>1
<1>3. Filtered(q, p) = f[Len(q)]
  BY <1>1 DEF Filtered, Filters
<1> QED
  BY <1>2, <1>3

LEMMA FiltersAlike ==
  ASSUME NEW q, NEW p, NEW f, NEW g, Len(q) \in Nat, Filters(f, q, p), Filters(g, q, p)
  PROVE  f[Len(q)] = g[Len(q)]
<1> DEFINE T == {i \in 0..Len(q) : f[i] # g[i]}
<1>1. /\ \A i \in 0..Len(q) : f[i] = IF i = 0 THEN << >>
                                     ELSE IF q[i] # p THEN Append(f[i - 1], q[i]) ELSE f[i - 1]
      /\ \A i \in 0..Len(q) : g[i] = IF i = 0 THEN << >>
                                     ELSE IF q[i] # p THEN Append(g[i - 1], q[i]) ELSE g[i - 1]
  BY DEF Filters
<1>2. ASSUME T # {}
      PROVE  FALSE
  <2>1. T \in SUBSET Nat
    OBVIOUS
  <2>2. PICK i \in T : \A j \in T : i <= j
    <3> HIDE DEF T
    <3> QED
      BY <1>2, <2>1, LeastOf
  <2>3. i \in 0..Len(q) /\ f[i] # g[i]
    OBVIOUS
  <2>4. CASE i = 0
    BY <1>1, <2>3, <2>4
  <2>5. CASE i # 0
    <3>1. i - 1 \in 0..Len(q) /\ i - 1 \notin T
      BY <2>2, <2>3, <2>5
    <3>2. f[i - 1] = g[i - 1]
      BY <3>1
    <3> QED
      BY <1>1, <2>3, <2>5, <3>2
  <2> QED
    BY <2>4, <2>5
<1> QED
  BY <1>2

LEMMA WithoutFilters ==
  ASSUME NEW S, NEW q \in Seq(S), Distinct(q), NEW p
  PROVE  Without(q, p) = Filtered(q, p)
<1>1. PICK n : n = Len(q)
  OBVIOUS
<1>2. n \in Nat
  BY <1>1
<1>3. PICK g : g = [i \in 0..n |-> Without(SubSeq(q, 1, i), p)]
  OBVIOUS
<1>4. g[0] = << >>
  <2>1. SubSeq(q, 1, 0) = << >> /\ 0 \in 0..n
    BY <1>2
  <2>2. Without(<< >>, p) = << >>
    BY DEF Without, Waiting
  <2> QED
    BY <1>3, <2>1, <2>2
<1>5. ASSUME NEW i \in 1..n
      PROVE  g[i] = IF q[i] # p THEN Append(g[i - 1], q[i]) ELSE g[i - 1]
  <2>1. /\ SubSeq(q, 1, i - 1) \in Seq(S) /\ q[i] \in S
        /\ SubSeq(q, 1, i) = Append(SubSeq(q, 1, i - 1), q[i])
        /\ Distinct(SubSeq(q, 1, i))
    BY <1>1, FirstItems
  <2>2. PICK u, x : u = SubSeq(q, 1, i - 1) /\ x = q[i]
    OBVIOUS
  <2>3. Without(Append(u, x), p) = IF x # p THEN Append(Without(u, p), x) ELSE Without(u, p)
    <3>1. u \in Seq(S) /\ x \in S /\ Distinct(Append(u, x))
      BY <2>1, <2>2
    <3> QED
      BY <3>1, WithoutAppended
  <2>4. i \in 0..n /\ i - 1 \in 0..n
    BY <1>2
  <2>5. g[i] = Without(Append(u, x), p) /\ g[i - 1] = Without(u, p)
    BY <1>3, <2>1, <2>2, <2>4
  <2> QED
    BY <2>2, <2>3, <2>5
<1>6. Filters(g, q, p)
  <2>1. \A i \in 0..n : g[i] = IF i = 0 THEN << >>
                               ELSE IF q[i] # p THEN Append(g[i - 1], q[i]) ELSE g[i - 1]
    BY <1>2, <1>4, <1>5
  <2>2. g = [i \in 0..n |-> g[i]]
    BY <1>3
  <2>3. g = [i \in 0..n |-> IF i = 0 THEN << >>
                            ELSE IF q[i] # p THEN Append(g[i - 1], q[i]) ELSE g[i - 1]]
    BY <2>1, <2>2
  <2> QED
    BY <1>1, <2>3 DEF Filters
<1>7. PICK f : Filters(f, q, p) /\ Filtered(q, p) = f[Len(q)]
  BY <1>6, FilteredByOne
<1>8. Filtered(q, p) = g[n]
  BY <1>1, <1>2, <1>6, <1>7, FiltersAlike
<1>9. g[n] = Without(q, p)
  BY <1>1, <1>2, <1>3
<1> QED
  BY <1>8, <1>9

\* cancel() filters every queue, for queues of any length.
THEOREM CancelFilters == Spec => []CancelIsFilter
<1>1. IInv => CancelIsFilter
  <2> SUFFICES ASSUME IInv, NEW k \in Key, NEW p \in Player
               PROVE  Without(queues[k], p) = Filtered(queues[k], p)
    BY DEF CancelIsFilter
  <2>1. queues[k] \in Seq(Player)
    BY DEF IInv, TypeOK
  <2>2. Distinct(queues[k])
    BY DEF IInv, TypeOK, NoDoubleQueue, Distinct
  <2> QED
    BY <2>1, <2>2, WithoutFilters
<1> QED
  BY <1>1, MatchmakerInvariant, PTL
================================================================================
