-------------------------- MODULE RoomHandlersProofs ---------------------------
(***************************************************************************)
(* Every handler of RoomHooks is one step of Rooms, for any players, rooms,*)
(* capacities and sizes of groups, whichever hooks throw.                  *)
(*                                                                         *)
(* A handler's own calls (its script) make further calls, which only carry *)
(* out what has been decided: a room whose destroy() is still to come is   *)
(* as good as destroyed.  So the proof looks at rooms and seats as they    *)
(* will be once the calls that were made by others are over; only a        *)
(* script's own call changes that view.  The invariant compares it with    *)
(* what the handler has found: a match has, after the first calls of its   *)
(* script, taken so many of its group from their rooms and seated so many. *)
(***************************************************************************)
EXTENDS RoomHandlers, RoomHooksProofs

\* The calls that are made by other calls.
Made == {"autoDispose", "destroyRoom", "destroy", "evict", "onDestroy", "delete"}

Has(name, r) == Call(name, r, None) \in Pending

Falls == {"destroyRoom", "destroy", "evict", "onDestroy"}

\* r will be destroyed before the script goes on.
Going(r) == \E name \in Falls : Has(name, r)

\* player.roomId, then.
SeatThen == [p \in Player |-> IF Going(playerRoom[p]) THEN None ELSE playerRoom[p]]

\* Will RoomManager have forgotten r?
Lost(r) ==
  \/ r \notin managed
  \/ Has("delete", r) \/ Has("destroyRoom", r)
  \/ Has("autoDispose", r) /\ r \in AutoDispose /\ \A p \in Player : SeatThen[p] # r

\* BaseRoom.state, then.
StateThen ==
  [r \in Room |-> IF Lost(r) THEN "none"
                  ELSE IF state[r] = "active" /\ ~Going(r) THEN "active" ELSE "destroyed"]

\* The last m calls of a script are still to be made.
ToMake(script, m) ==
  /\ m \in 0..Len(script) /\ m <= Len(todo)
  /\ \A i \in 1..(Len(todo) - m) : todo[i].call \in Made
  /\ \A i \in 1..m : todo[Len(todo) - m + i] = script[Len(script) - m + i]
-------------------------------------------------------------------------------
(* Steps of Rooms, from the rooms that a handler has found.                *)

\* Nobody of room x is left when the players in L go and the rooms in C crash.
Vacated(L, C, x) ==
  /\ x \in AutoDispose
  /\ \E p \in L : was.seat[p] = x
  /\ \A p \in Player : was.seat[p] = x => p \in L \/ x \in C

MayCrash(L, C) ==
  /\ C \subseteq {was.seat[p] : p \in L} \ {None}
  /\ C # {} => HooksThrow

\* Where player p and room x are after that.
SeatLeft(L, C, p) == IF p \in L \/ was.seat[p] \in C THEN None ELSE was.seat[p]

StateLeft(L, C, x) ==
  IF Vacated(L, C, x) THEN "none" ELSE IF x \in C THEN "destroyed" ELSE was.state[x]

\* All that happened is that the players in L have left their rooms.
HaveLeft(L, C) ==
  /\ MayCrash(L, C)
  /\ \A p \in Player : SeatThen[p] = SeatLeft(L, C, p)
  /\ \A x \in Room : StateThen[x] = StateLeft(L, C, x)

\* The same but for r, where those of S sit.
HaveLeftFor(S, r, L, C) ==
  /\ MayCrash(L, C)
  /\ \A q \in Player : SeatThen[q] = IF q \in S THEN r ELSE SeatLeft(L, C, q)
  /\ \A y \in Room \ {r} : StateThen[y] = StateLeft(L, C, y)

HaveStayed ==
  /\ \A p \in Player : SeatThen[p] = was.seat[p]
  /\ \A x \in Room : StateThen[x] = was.state[x]

WasIn(r) == {p \in Player : was.seat[p] = r}

WasFree(r) == was.state[r] = "active" /\ Cardinality(WasIn(r)) < Capacity[r]

Leaving(p, r) == IF was.seat[p] \in {None, r} THEN {} ELSE {p}

HasJoined(p, r) ==
  /\ WasFree(r)
  /\ \E C \in SUBSET Room :
       /\ MayCrash(Leaving(p, r), C)
       /\ \A q \in Player : SeatThen[q] = IF q = p THEN r ELSE SeatLeft(Leaving(p, r), C, q)
       /\ \A x \in Room : StateThen[x] = StateLeft(Leaving(p, r), C, x)

HasFailedToJoin(p, r) ==
  /\ WasFree(r)
  /\ HooksThrow
  /\ \E C \in SUBSET Room :
       /\ MayCrash(Leaving(p, r), C)
       /\ \A q \in Player : SeatThen[q] = IF q = p \/ was.seat[q] = r THEN None
                                          ELSE SeatLeft(Leaving(p, r), C, q)
       /\ \A x \in Room : StateThen[x] = IF x = r THEN "destroyed"
                                         ELSE StateLeft(Leaving(p, r), C, x)

\* Those of S sit in room r, which was free, all else in L is out.
HasFormed(L, S, r) ==
  /\ was.state[r] = "none"
  /\ \E C \in SUBSET Room :
       /\ MayCrash(L, C)
       /\ \A q \in Player : SeatThen[q] = IF q \in S THEN r ELSE SeatLeft(L, C, q)
       /\ \A x \in Room : StateThen[x] = IF x = r THEN (IF S = {} THEN "none" ELSE "active")
                                         ELSE StateLeft(L, C, x)

HasBroken(r, kept) ==
  /\ HooksThrow
  /\ was.state[r] = "active"
  /\ kept \/ r \in Realtime
  /\ \A q \in Player : SeatThen[q] = IF was.seat[q] = r THEN None ELSE was.seat[q]
  /\ \A x \in Room : StateThen[x] = IF x = r THEN (IF kept THEN "destroyed" ELSE "none")
                                    ELSE was.state[x]

HasCleared ==
  /\ \A q \in Player : SeatThen[q] = None
  /\ \A x \in Room : StateThen[x] = "none"

\* S is as many of a group L as there are seats, or nobody if hooks throw.
Seating(L, S, r) ==
  /\ S \subseteq L
  /\ \/ Cardinality(S) = IF Cardinality(L) < Capacity[r] THEN Cardinality(L) ELSE Capacity[r]
     \/ HooksThrow /\ S = {}

\* What a handler comes to.
IsWhole ==
  \/ HaveStayed
  \/ \E p \in Player, C \in SUBSET Room : HaveLeft({p}, C)
  \/ \E p \in Player, r \in Room :
       \/ /\ was.state[r] # "none" /\ ~WasFree(r)
          /\ \E C \in SUBSET Room : HaveLeft(Leaving(p, r), C)
       \/ HasJoined(p, r) \/ HasFailedToJoin(p, r)
  \/ \E L, S \in SUBSET Player, r \in Room : Seating(L, S, r) /\ HasFormed(L, S, r)
  \/ \E r \in Room, kept \in BOOLEAN : HasBroken(r, kept)
  \/ HasCleared
-------------------------------------------------------------------------------
(* How far a handler has come.                                             *)

\* The script is over.
Over == ToMake(<< >>, 0) /\ IsWhole

\* A leave, or the first half of a join.
ToLeave ==
  \E p \in Player : ToMake(<<Call("detach", None, p)>>, 1) /\ HaveStayed

ToMove ==
  \E p \in Player, r \in Room :
    /\ was.seat[p] \notin {None, r}
    /\ was.state[r] # "none"
    /\ ToMake(<<Call("detach", None, p), Call("addPlayer", r, p)>>, 2)
    /\ HaveStayed

ToJoin ==
  \E p \in Player, r \in Room, C \in SUBSET Room :
    /\ was.state[r] # "none"
    /\ ToMake(<<Call("addPlayer", r, p)>>, 1)
    /\ HaveLeft(Leaving(p, r), C)

MatchScript(group, r) ==
  <<Call("createRoom", r, None)>> \o SeatCalls(group, r) \o <<Call("start", r, None)>>

ToForm ==
  \E group \in Groups, r \in Room :
    /\ IsInjective(group)
    /\ was.state[r] = "none"
    /\ ToMake(MatchScript(group, r), 2 * Len(group) + 2)
    /\ HaveStayed

\* Those who have been taken from their rooms, and those who have been offered a
\* seat, by the first d calls of a match.
Taken(group, d) == {group[i] : i \in {j \in DOMAIN group : 2 * j <= d}}

Offered(group, r, d) ==
  {group[i] : i \in {j \in DOMAIN group : 2 * j + 1 <= d /\ j <= Capacity[r]}}

\* The room stands, or a hook has thrown in it and it has nobody.
MatchIsAt(group, r, d, stands, C) ==
  LET L == Taken(group, d)
      S == IF stands THEN Offered(group, r, d) ELSE {}
  IN  /\ HaveLeftFor(S, r, L, C)
      /\ StateThen[r] = "active" <=> stands
      /\ ~stands => HooksThrow

Forming ==
  \E group \in Groups, r \in Room :
    \E d \in 1..(2 * Len(group) + 1), stands \in BOOLEAN, C \in SUBSET Room :
      /\ IsInjective(group)
      /\ was.state[r] = "none"
      /\ ToMake(MatchScript(group, r), 2 * Len(group) + 2 - d)
      /\ MatchIsAt(group, r, d, stands, C)

Underway == Over \/ ToLeave \/ ToMove \/ ToJoin \/ ToForm \/ Forming

\* What a handler finds.
WasSound ==
  /\ was.seat \in [Player -> Room \cup {None}]
  /\ was.state \in [Room -> {"none", "active", "destroyed"}]
  /\ was.key = [r \in Room |-> IF was.state[r] = "none" THEN None ELSE r]
  /\ was.members = [r \in Room |-> {p \in Player : was.seat[p] = r}]
  /\ \A p \in Player : was.seat[p] # None => was.state[was.seat[p]] = "active"

DestroyRoomFirst == \A c \in Later : c.call # "destroyRoom"

HInv ==
  /\ IInv
  /\ DestroyRoomFirst
  /\ WasSound
  /\ todo # << >> => Underway
-------------------------------------------------------------------------------
(* The list of calls.                                                      *)

\* A call is replaced by the calls that it makes.
Replaces(new) ==
  /\ new \in Seq(Calls)
  /\ todo' = new \o Rest
  /\ \A i \in DOMAIN new : new[i].call \in Made
  /\ \A i \in 2..Len(new) : new[i].call # "destroyRoom"

LEMMA ReplacedAt ==
  ASSUME todo \in Seq(Calls), todo # << >>, NEW new, Replaces(new)
  PROVE  LET n == Len(new)
             l == Len(todo)
         IN  /\ n \in Nat /\ l \in Nat /\ l >= 1 /\ DOMAIN todo = 1..l /\ DOMAIN new = 1..n
             /\ todo' \in Seq(Calls) /\ Len(todo') = n + l - 1 /\ DOMAIN todo' = 1..(n + l - 1)
             /\ \A i \in 1..n : todo'[i] = new[i]
             /\ \A i \in (n + 1)..(n + l - 1) : todo'[i] = todo[i - n + 1]
             /\ This = todo[1]
<1> DEFINE n == Len(new)
           l == Len(todo)
<1>1. /\ n \in Nat /\ l \in Nat /\ l >= 1 /\ DOMAIN todo = 1..l /\ DOMAIN new = 1..n
      /\ new \in Seq(Calls) /\ todo' = new \o Rest
      /\ \A i \in 1..l : todo[i] \in Calls
      /\ \A i \in 1..n : new[i] \in Calls
  BY DEF Replaces
<1>2. /\ Rest \in Seq(Calls) /\ Len(Rest) = l - 1
      /\ \A i \in 1..(l - 1) : Rest[i] = todo[i + 1]
  BY <1>1 DEF Rest
<1>3. /\ todo' \in Seq(Calls) /\ Len(todo') = n + l - 1
      /\ DOMAIN todo' = 1..(n + l - 1)
      /\ \A i \in 1..n : todo'[i] = new[i]
      /\ \A i \in (n + 1)..(n + l - 1) : todo'[i] = todo[i - n + 1]
  <2> HIDE DEF n, l
  <2>1. todo' \in Seq(Calls) /\ Len(todo') = n + (l - 1)
    <3>1. new \in Seq(Calls) /\ Rest \in Seq(Calls) /\ todo' = new \o Rest
      BY <1>1, <1>2
    <3>2. todo' \in Seq(Calls) /\ Len(todo') = Len(new) + Len(Rest)
      BY <3>1
    <3> QED
      BY <1>2, <3>2 DEF n
  <2>2. \A i \in 1..(n + (l - 1)) : todo'[i] = IF i <= n THEN new[i] ELSE Rest[i - n]
    BY <1>1, <1>2 DEF n
  <2>3. \A i \in 1..n : i \in 1..(n + (l - 1)) /\ i <= n
    BY <1>1
  <2>4. \A i \in (n + 1)..(n + l - 1) : /\ i \in 1..(n + (l - 1)) /\ ~(i <= n)
                                         /\ i - n \in 1..(l - 1) /\ (i - n) + 1 = i - n + 1
    BY <1>1
  <2>5. \A i \in (n + 1)..(n + l - 1) : todo'[i] = Rest[i - n]
    BY <2>2, <2>4
  <2>6. \A i \in (n + 1)..(n + l - 1) : Rest[i - n] = todo[(i - n) + 1]
    BY <1>2, <2>4
  <2>7. n + (l - 1) = n + l - 1
    BY <1>1
  <2> QED
    BY <2>1, <2>2, <2>3, <2>4, <2>5, <2>6, <2>7
<1>4. This = todo[1]
  BY <1>1 DEF This
<1> HIDE DEF n, l
<1> QED
  BY <1>1, <1>3, <1>4 DEF n, l

\* What is pending when a call has been replaced.
LEMMA PendingReplaced ==
  ASSUME todo \in Seq(Calls), todo # << >>, NEW new, Replaces(new)
  PROVE  /\ Pending' = {new[i] : i \in 1..Len(new)} \cup Later
         /\ DestroyRoomFirst => DestroyRoomFirst'
<1> DEFINE n == Len(new)
           l == Len(todo)
<1>1. /\ n \in Nat /\ l \in Nat /\ l >= 1
      /\ Len(todo') = n + l - 1 /\ DOMAIN todo' = 1..(n + l - 1)
      /\ \A i \in 1..n : todo'[i] = new[i]
      /\ \A i \in (n + 1)..(n + l - 1) : todo'[i] = todo[i - n + 1]
  BY ReplacedAt
<1>2. \A i \in 2..n : new[i].call # "destroyRoom"
  BY DEF Replaces
<1> HIDE DEF n, l
<1>3. \A i \in 1..(n + l - 1) : \/ i \in 1..n
                                \/ i \in (n + 1)..(n + l - 1) /\ i - n + 1 \in 2..l
  BY <1>1
<1>4. Later = {todo[k] : k \in 2..l}
  BY DEF Later, l
<1>5. \A k \in 2..l : /\ k + n - 1 \in (n + 1)..(n + l - 1) /\ k + n - 1 \in 1..(n + l - 1)
                       /\ (k + n - 1) - n + 1 = k
  BY <1>1
<1>6. ASSUME NEW i \in 1..(n + l - 1)
      PROVE  todo'[i] \in {new[x] : x \in 1..n} \cup Later
  BY <1>1, <1>3, <1>4
<1>7. ASSUME NEW c \in Later
      PROVE  \E i \in 1..(n + l - 1) : todo'[i] = c
  <2>1. PICK k \in 2..l : c = todo[k]
    BY <1>4
  <2>2. todo'[k + n - 1] = todo[k]
    BY <1>1, <1>5
  <2> QED
    BY <1>5, <2>1, <2>2
<1>8. \A i \in 1..n : i \in 1..(n + l - 1)
  BY <1>1
<1>9. Pending' = {todo'[i] : i \in 1..(n + l - 1)}
  BY <1>1 DEF Pending
<1>10. Pending' = {new[i] : i \in 1..n} \cup Later
  BY <1>1, <1>6, <1>7, <1>8, <1>9
<1>11. ASSUME DestroyRoomFirst, NEW i \in 2..(n + l - 1)
       PROVE  todo'[i].call # "destroyRoom"
  <2>1. i \in 1..(n + l - 1)
    BY <1>1
  <2>2. CASE i \in 1..n
    BY <1>1, <1>2, <2>2
  <2>3. CASE i \in (n + 1)..(n + l - 1) /\ i - n + 1 \in 2..l
    BY <1>1, <1>4, <1>11, <2>3 DEF DestroyRoomFirst
  <2> QED
    BY <1>3, <2>1, <2>2, <2>3
<1>12. Later' = {todo'[i] : i \in 2..(n + l - 1)}
  BY <1>1 DEF Later
<1> QED
  BY <1>10, <1>11, <1>12 DEF n, DestroyRoomFirst

\* As long as made calls are over, the script is where it was.
LEMMA ScriptWaits ==
  ASSUME todo \in Seq(Calls), todo # << >>, NEW new, Replaces(new),
         NEW script, NEW m, ToMake(script, m), This.call \in Made,
         \A i \in 1..Len(script) : script[i].call \notin Made
  PROVE  ToMake(script, m)'
<1> DEFINE n == Len(new)
           l == Len(todo)
<1>1. /\ n \in Nat /\ l \in Nat /\ l >= 1
      /\ Len(todo') = n + l - 1
      /\ \A i \in 1..n : todo'[i] = new[i]
      /\ \A i \in (n + 1)..(n + l - 1) : todo'[i] = todo[i - n + 1]
      /\ This = todo[1]
      /\ \A i \in 1..n : new[i].call \in Made
  BY ReplacedAt DEF Replaces
<1>2. /\ m \in 0..Len(script) /\ m <= l
      /\ \A i \in 1..(l - m) : todo[i].call \in Made
      /\ \A i \in 1..m : todo[l - m + i] = script[Len(script) - m + i]
  BY DEF ToMake
<1> HIDE DEF n, l
<1>3. m # l
  <2> SUFFICES ASSUME m = l PROVE FALSE
    OBVIOUS
  <2>1. todo[1] = script[Len(script) - m + 1] /\ Len(script) - m + 1 \in 1..Len(script)
    BY <1>1, <1>2
  <2> QED
    BY <1>1, <2>1
<1>4. m <= n + l - 1 /\ m \in Nat /\ m < l
  BY <1>1, <1>2, <1>3
<1>5. ASSUME NEW i \in 1..(n + l - 1 - m)
      PROVE  todo'[i].call \in Made
  <2>1. CASE i \in 1..n
    BY <1>1, <2>1
  <2>2. CASE i \notin 1..n
    <3>1. i \in (n + 1)..(n + l - 1) /\ i - n + 1 \in 1..(l - m)
      BY <1>1, <1>4, <2>2
    <3> QED
      BY <1>1, <1>2, <3>1
  <2> QED
    BY <2>1, <2>2
<1>6. ASSUME NEW i \in 1..m
      PROVE  todo'[n + l - 1 - m + i] = script[Len(script) - m + i]
  <2> DEFINE k == n + l - 1 - m + i
  <2>1. k \in (n + 1)..(n + l - 1) /\ k - n + 1 = l - m + i
    BY <1>1, <1>4
  <2>2. todo'[k] = todo[l - m + i]
    BY <1>1, <2>1
  <2> QED
    BY <1>2, <2>2
<1> QED
  BY <1>1, <1>2, <1>4, <1>5, <1>6 DEF ToMake

\* A call that is not a made one is the next of the script.
LEMMA ScriptGoesOn ==
  ASSUME todo \in Seq(Calls), todo # << >>, NEW new, Replaces(new),
         NEW script, NEW m, ToMake(script, m), This.call \notin Made
  PROVE  /\ m = Len(todo) /\ m \in 1..Len(script)
         /\ This = script[Len(script) - m + 1]
         /\ ToMake(script, m - 1)'
<1> DEFINE n == Len(new)
           l == Len(todo)
<1>1. /\ n \in Nat /\ l \in Nat /\ l >= 1
      /\ Len(todo') = n + l - 1
      /\ \A i \in 1..n : todo'[i] = new[i]
      /\ \A i \in (n + 1)..(n + l - 1) : todo'[i] = todo[i - n + 1]
      /\ This = todo[1]
      /\ \A i \in 1..n : new[i].call \in Made
  BY ReplacedAt DEF Replaces
<1>2. /\ m \in 0..Len(script) /\ m <= l
      /\ \A i \in 1..(l - m) : todo[i].call \in Made
      /\ \A i \in 1..m : todo[l - m + i] = script[Len(script) - m + i]
  BY DEF ToMake
<1> HIDE DEF n, l
<1>3. m = l
  <2> SUFFICES ASSUME m # l PROVE FALSE
    OBVIOUS
  <2>1. 1 \in 1..(l - m)
    BY <1>1, <1>2
  <2> QED
    BY <1>1, <1>2, <2>1
<1>4. m \in 1..Len(script) /\ This = script[Len(script) - m + 1]
  BY <1>1, <1>2, <1>3
<1>5. m - 1 \in 0..Len(script) /\ m - 1 <= n + l - 1 /\ n + l - 1 - (m - 1) = n
  BY <1>1, <1>2, <1>3, <1>4
<1>6. ASSUME NEW i \in 1..(m - 1)
      PROVE  todo'[n + i] = script[Len(script) - (m - 1) + i]
  <2>1. /\ n + i \in (n + 1)..(n + l - 1) /\ (n + i) - n + 1 = i + 1
        /\ i + 1 \in 1..m /\ l - m + (i + 1) = i + 1
        /\ Len(script) - m + (i + 1) = Len(script) - (m - 1) + i
    BY <1>1, <1>2, <1>3
  <2>2. todo'[n + i] = todo[i + 1]
    BY <1>1, <2>1
  <2>3. todo[i + 1] = script[Len(script) - m + (i + 1)]
    BY <1>2, <2>1
  <2> QED
    BY <2>1, <2>2, <2>3
<1> QED
  BY <1>1, <1>3, <1>4, <1>5, <1>6 DEF ToMake, l

\* The calls that a call makes, and what is pending then.
LEMMA MakesNone ==
  ASSUME todo \in Seq(Calls), todo # << >>, todo' = Rest
  PROVE  (\E new : Replaces(new)) /\ Pending' = Later
<1> DEFINE new == << >>
<1>1. new \in Seq(Calls) /\ Len(new) = 0 /\ DOMAIN new = {}
  OBVIOUS
<1>2. todo' = new \o Rest
  BY DEF Rest
<1> HIDE DEF new
<1>3. Replaces(new)
  BY <1>1, <1>2 DEF Replaces
<1>4. {new[i] : i \in 1..Len(new)} = {}
  BY <1>1
<1> QED
  BY <1>3, <1>4, PendingReplaced

LEMMA MakesOne ==
  ASSUME todo \in Seq(Calls), todo # << >>, NEW c \in Calls, c.call \in Made,
         todo' = <<c>> \o Rest
  PROVE  (\E new : Replaces(new)) /\ Pending' = {c} \cup Later
<1> DEFINE new == <<c>>
<1>1. new \in Seq(Calls) /\ Len(new) = 1 /\ DOMAIN new = {1} /\ new[1] = c
  OBVIOUS
<1>2. todo' = new \o Rest
  OBVIOUS
<1> HIDE DEF new
<1>3. Replaces(new)
  BY <1>1, <1>2 DEF Replaces
<1>4. {new[i] : i \in 1..Len(new)} = {c}
  BY <1>1
<1> QED
  BY <1>3, <1>4, PendingReplaced

LEMMA MakesTwo ==
  ASSUME todo \in Seq(Calls), todo # << >>, NEW c \in Calls, c.call \in Made,
         NEW d \in Calls, d.call \in Made \ {"destroyRoom"},
         todo' = <<c, d>> \o Rest
  PROVE  (\E new : Replaces(new)) /\ Pending' = {c, d} \cup Later
<1> DEFINE new == <<c, d>>
<1>1. new \in Seq(Calls) /\ Len(new) = 2 /\ DOMAIN new = {1, 2} /\ new[1] = c /\ new[2] = d
  OBVIOUS
<1>2. todo' = new \o Rest
  OBVIOUS
<1> HIDE DEF new
<1>3. Replaces(new)
  <2>1. \A i \in DOMAIN new : new[i].call \in Made
    BY <1>1
  <2>2. \A i \in 2..Len(new) : new[i].call # "destroyRoom"
    BY <1>1
  <2> QED
    BY <1>1, <1>2, <2>1, <2>2 DEF Replaces
<1>4. {new[i] : i \in 1..Len(new)} = {c, d}
  BY <1>1
<1> QED
  BY <1>3, <1>4, PendingReplaced
-------------------------------------------------------------------------------
(* Made calls do not change the view.                                      *)

\* No made call stands behind a call of a script, nor behind the two that decide
\* on a room.
LEMMA NothingMadeBehind ==
  ASSUME IInv, DestroyRoomFirst, todo # << >>, This.call \in Outer
  PROVE  \A n \in Made : \A q : Call(n, q, None) \notin Later
<1>1. \A n \in Watched : \A q : Call(n, q, None) \notin Later
  BY CallNow, OuterCalls
<1>2. \A q : Call("destroyRoom", q, None) \notin Later
  BY DEF DestroyRoomFirst, Call
<1>3. Made = (Watched \cap Made) \cup {"destroyRoom"}
  BY DEF Made, Watched
<1> QED
  BY <1>1, <1>2, <1>3

\* When no destroy() is under way, everyone who sits in a room is in it.
LEMMA SeatsAreMembers ==
  ASSUME IInv, todo = << >> \/ This.call \in Outer
  PROVE  \A q \in Room : /\ members[q] = {p \in Player : playerRoom[p] = q}
                         /\ state[q] # "active" => members[q] = {}
                         /\ state[q] # "closing"
<1>1. \A q \in Room : state[q] # "closing" /\ members[q] = inside[q]
  BY NothingIsClosing
<1>2. \A q \in Room : state[q] \in {"none", "active", "closing", "destroyed"}
  BY InvParts DEF StateTypes
<1> QED
  BY <1>1, <1>2, InvParts DEF Mirrored

\* A player of a room that is going has no seat then.
LEMMA SeatThenIs ==
  ASSUME NEW p \in Player
  PROVE  SeatThen[p] = IF Going(playerRoom[p]) THEN None ELSE playerRoom[p]
BY DEF SeatThen

\* What is pending, and what was, but for the call itself.
LEMMA HasNow ==
  ASSUME IInv, todo # << >>, This.call \in RoomCalls
  PROVE  \A n : \A q : Has(n, q) <=> \/ n = This.call /\ q = This.room
                                     \/ Call(n, q, None) \in Later
BY Behind DEF Has

LEMMA HasThen ==
  ASSUME NEW C, Pending' = C \cup Later
  PROVE  \A n : \A q : Has(n, q)' <=> Call(n, q, None) \in C \cup Later
BY DEF Has

LEMMA AutoDisposesView ==
  ASSUME IInv, DestroyRoomFirst, AutoDisposes
  PROVE  /\ \E new : Replaces(new)
         /\ SeatThen' = SeatThen /\ StateThen' = StateThen
<1> DEFINE r == This.room
           c == Call("destroyRoom", r, None)
           ends == members[r] = {} /\ r \in AutoDispose
<1>1. /\ todo # << >> /\ This.call = "autoDispose"
      /\ \/ ends /\ todo' = <<c>> \o Rest
         \/ ~ends /\ todo' = << >> \o Rest
      /\ UNCHANGED <<members, playerRoom, state, managed>>
  BY DEF AutoDisposes, Now, This, seatVars, roomVars
<1>2. /\ todo \in Seq(Calls) /\ Rest \in Seq(Calls) /\ r \in Room
      /\ c \in Calls /\ c.call \in Made
  BY <1>1, CallNow, CallIsCall DEF TodoInv, RoomCalls, Made, Call
<1>3. /\ \A n \in Made : \A q : Call(n, q, None) \notin Later
      /\ \A q \in Room : members[q] = {p \in Player : playerRoom[p] = q}
  BY <1>1, NothingMadeBehind, SeatsAreMembers DEF Outer
<1>4. \A n \in Made : \A q : Has(n, q) <=> n = "autoDispose" /\ q = r
  BY <1>1, <1>3, HasNow DEF RoomCalls
<1>5. /\ \E new : Replaces(new)
      /\ \A n \in Made : \A q : Has(n, q)' <=> ends /\ n = "destroyRoom" /\ q = r
  <2>1. CASE ends
    <3>1. todo' = <<c>> \o Rest
      BY <1>1, <2>1
    <3>2. (\E new : Replaces(new)) /\ Pending' = {c} \cup Later
      BY <1>1, <1>2, <3>1, MakesOne
    <3> QED
      BY <1>3, <2>1, <3>2, HasThen, CallsDiffer
  <2>2. CASE ~ends
    <3>1. todo' = Rest
      BY <1>1, <1>2, <2>2
    <3>2. (\E new : Replaces(new)) /\ Pending' = {} \cup Later
      BY <1>1, <1>2, <3>1, MakesNone
    <3> QED
      BY <1>3, <2>2, <3>2, HasThen
  <2> QED
    BY <2>1, <2>2
<1>6. /\ Falls \subseteq Made /\ "destroyRoom" \in Falls /\ "autoDispose" \notin Falls
      /\ {"delete", "destroyRoom", "autoDispose"} \subseteq Made
  BY DEF Falls, Made
<1>7. \A q : ~Going(q) /\ (Going(q)' <=> ends /\ q = r)
  BY <1>4, <1>5, <1>6 DEF Going
<1> HIDE DEF r
<1>8. \A p \in Player : /\ SeatThen[p] = playerRoom[p] /\ SeatThen'[p] = playerRoom[p]
                        /\ ends => playerRoom[p] # r
  BY <1>1, <1>2, <1>3, <1>7 DEF SeatThen
<1>9. SeatThen' = SeatThen
  BY <1>8 DEF SeatThen
<1>10. ASSUME NEW q \in Room
       PROVE  StateThen'[q] = StateThen[q]
  <2>1. ends /\ q = r => Lost(q) /\ Lost(q)'
    BY <1>2, <1>4, <1>5, <1>6, <1>8 DEF Lost
  <2>2. ~(ends /\ q = r) => (Lost(q) <=> q \notin managed) /\ (Lost(q)' <=> q \notin managed)
    BY <1>1, <1>2, <1>3, <1>4, <1>5, <1>6, <1>8 DEF Lost
  <2> QED
    BY <1>1, <1>7, <2>1, <2>2 DEF StateThen
<1>11. StateThen' = StateThen
  BY <1>10 DEF StateThen
<1> QED
  BY <1>5, <1>9, <1>11

\* The state of a room then depends on little.
LEMMA StateThenKept ==
  ASSUME SeatThen' = SeatThen,
         \A q \in Room :
           /\ q \notin managed \/ Has("delete", q) \/ Has("destroyRoom", q)
              <=> (q \notin managed \/ Has("delete", q) \/ Has("destroyRoom", q))'
           /\ Has("autoDispose", q) <=> Has("autoDispose", q)'
           /\ \/ Lost(q)
              \/ state[q] = "active" /\ ~Going(q) <=> (state[q] = "active" /\ ~Going(q))'
  PROVE  StateThen' = StateThen
<1>1. ASSUME NEW q \in Room
      PROVE  Lost(q)' <=> Lost(q)
  BY DEF Lost
<1>2. ASSUME NEW q \in Room
      PROVE  StateThen'[q] = StateThen[q]
  BY <1>1 DEF StateThen
<1> QED
  BY <1>2 DEF StateThen

LEMMA DestroyRoomView ==
  ASSUME IInv, DestroyRoomFirst, DestroyRoom
  PROVE  /\ \E new : Replaces(new)
         /\ SeatThen' = SeatThen /\ StateThen' = StateThen
<1> DEFINE r == This.room
           d == Call("destroy", r, None)
           x == Call("delete", r, None)
<1>1. /\ todo # << >> /\ This.call = "destroyRoom"
      /\ \/ r \in managed /\ todo' = <<d, x>> \o Rest
         \/ r \notin managed /\ todo' = Rest
      /\ UNCHANGED <<members, playerRoom, state, managed>>
  BY DEF DestroyRoom, Now, This, seatVars, roomVars, Knows
<1>2. /\ todo \in Seq(Calls) /\ r \in Room /\ d \in Calls /\ x \in Calls
      /\ d.call \in Made /\ x.call \in Made \ {"destroyRoom"}
  BY <1>1, CallNow, CallIsCall DEF TodoInv, RoomCalls, Made, Call
<1>3. /\ \A n \in Made : \A q : Call(n, q, None) \notin Later
      /\ \A q \in Room : /\ members[q] = {p \in Player : playerRoom[p] = q}
                         /\ state[q] # "active" => members[q] = {}
  BY <1>1, NothingMadeBehind, SeatsAreMembers DEF Outer
<1>4. \A n \in Made : \A q : Has(n, q) <=> n = "destroyRoom" /\ q = r
  BY <1>1, <1>3, HasNow DEF RoomCalls
<1>5. /\ \E new : Replaces(new)
      /\ \A n \in Made : \A q : Has(n, q)' <=> r \in managed /\ n \in {"destroy", "delete"} /\ q = r
  <2>1. CASE r \in managed
    <3>1. (\E new : Replaces(new)) /\ Pending' = {d, x} \cup Later
      BY <1>1, <1>2, <2>1, MakesTwo
    <3> QED
      BY <1>3, <2>1, <3>1, HasThen, CallsDiffer
  <2>2. CASE r \notin managed
    <3>1. (\E new : Replaces(new)) /\ Pending' = {} \cup Later
      BY <1>1, <1>2, <2>2, MakesNone
    <3> QED
      BY <1>3, <2>2, <3>1, HasThen
  <2> QED
    BY <2>1, <2>2
<1>6. /\ Falls \subseteq Made /\ {"destroyRoom", "destroy"} \subseteq Falls
      /\ "delete" \notin Falls /\ {"delete", "destroyRoom", "autoDispose"} \subseteq Made
  BY DEF Falls, Made
<1>7. \A q : (Going(q) <=> q = r) /\ (Going(q)' <=> q = r /\ r \in managed)
  BY <1>4, <1>5, <1>6 DEF Going
<1>8. r \notin managed => \A p \in Player : playerRoom[p] # r
  BY <1>2, <1>3, InvParts DEF OpenIsManaged
<1> HIDE DEF r
<1>9. \A p \in Player : SeatThen'[p] = SeatThen[p]
  BY <1>1, <1>7, <1>8 DEF SeatThen
<1>10. SeatThen' = SeatThen
  BY <1>9 DEF SeatThen
<1>11. \A q \in Room :
         /\ q \notin managed \/ Has("delete", q) \/ Has("destroyRoom", q)
            <=> (q \notin managed \/ Has("delete", q) \/ Has("destroyRoom", q))'
         /\ Has("autoDispose", q) <=> Has("autoDispose", q)'
  BY <1>1, <1>4, <1>5, <1>6
<1>12. \A q \in Room :
         \/ Lost(q)
         \/ state[q] = "active" /\ ~Going(q) <=> (state[q] = "active" /\ ~Going(q))'
  BY <1>1, <1>4, <1>6, <1>7 DEF Lost
<1> QED
  BY <1>5, <1>10, <1>11, <1>12, StateThenKept

LEMMA DestroyView ==
  ASSUME IInv, DestroyRoomFirst, Destroy
  PROVE  /\ \E new : Replaces(new)
         /\ SeatThen' = SeatThen /\ StateThen' = StateThen
<1>0. PICK r : r = This.room
  OBVIOUS
<1> DEFINE e == Call("evict", r, None)
<1>1. /\ todo # << >> /\ This.call = "destroy"
      /\ \/ /\ state[r] = "active"
            /\ state' = [state EXCEPT ![r] = "closing"]
            /\ todo' = <<e>> \o Rest
         \/ state[r] # "active" /\ state' = state /\ todo' = Rest
      /\ UNCHANGED <<members, playerRoom, managed>>
  BY <1>0 DEF Destroy, Now, This, seatVars, MayDestroy
<1>2. todo \in Seq(Calls) /\ r \in Room /\ e \in Calls /\ e.call \in Made
  BY <1>0, <1>1, CallNow, CallIsCall DEF TodoInv, RoomCalls, Made, Call
<1>3. \A n : \A q : Has(n, q) <=> (n = "destroy" /\ q = r) \/ Call(n, q, None) \in Later
  BY <1>0, <1>1, HasNow DEF RoomCalls
<1>4. /\ \E new : Replaces(new)
      /\ \A n : \A q : Has(n, q)' <=> \/ state[r] = "active" /\ n = "evict" /\ q = r
                                      \/ Call(n, q, None) \in Later
  <2>1. CASE state[r] = "active"
    <3>1. (\E new : Replaces(new)) /\ Pending' = {e} \cup Later
      BY <1>1, <1>2, <2>1, MakesOne
    <3> QED
      BY <2>1, <3>1, HasThen, CallsDiffer
  <2>2. CASE state[r] # "active"
    <3>1. (\E new : Replaces(new)) /\ Pending' = {} \cup Later
      BY <1>1, <1>2, <2>2, MakesNone
    <3> QED
      BY <2>2, <3>1, HasThen
  <2> QED
    BY <2>1, <2>2
<1>5. /\ {"destroy", "evict", "onDestroy"} \subseteq Falls
      /\ {"delete", "autoDispose"} \cap Falls = {}
  BY DEF Falls
<1>6. /\ Going(r)
      /\ state[r] = "active" => Going(r)'
      /\ \A q : q # r => (Going(q) <=> Going(q)')
  <2>1. Has("destroy", r) /\ (state[r] = "active" => Has("evict", r)')
    BY <1>3, <1>4
  <2>2. \A n : \A q : q # r => (Has(n, q) <=> Has(n, q)')
    BY <1>3, <1>4
  <2>3. Going(r)
    BY <1>5, <2>1 DEF Going
  <2>4. state[r] = "active" => Going(r)'
    BY <1>5, <2>1 DEF Going
  <2>5. \A q : q # r => (Going(q) <=> Going(q)')
    BY <2>2 DEF Going
  <2> QED
    BY <2>3, <2>4, <2>5
<1>7. ASSUME NEW p \in Player, playerRoom[p] = r
      PROVE  Going(r)'
  <2>1. CASE state[r] = "active"
    BY <1>6, <2>1
  <2>2. CASE state[r] # "active"
    <3>1. state[r] = "closing"
      BY <1>2, <1>7, <2>2, InvParts DEF Mirrored, StateTypes
    <3>2. Has("evict", r) \/ Has("onDestroy", r)
      BY <1>2, <3>1, InvParts DEF ClosingIsPending, Has
    <3>3. Has("evict", r)' \/ Has("onDestroy", r)'
      BY <1>3, <1>4, <3>2
    <3> QED
      BY <1>5, <3>3 DEF Going
  <2> QED
    BY <2>1, <2>2
<1>8. ASSUME NEW p \in Player
      PROVE  SeatThen'[p] = SeatThen[p]
  <2>1. Going(playerRoom[p]) <=> Going(playerRoom[p])'
    BY <1>1, <1>6, <1>7
  <2> QED
    BY <1>1, <2>1 DEF SeatThen
<1>9. SeatThen' = SeatThen
  BY <1>8 DEF SeatThen
<1>10. \A q \in Room :
         /\ q \notin managed \/ Has("delete", q) \/ Has("destroyRoom", q)
            <=> (q \notin managed \/ Has("delete", q) \/ Has("destroyRoom", q))'
         /\ Has("autoDispose", q) <=> Has("autoDispose", q)'
  BY <1>1, <1>3, <1>4
<1>11. \A q \in Room :
         state[q] = "active" /\ ~Going(q) <=> (state[q] = "active" /\ ~Going(q))'
  <2> TAKE q \in Room
  <2>1. CASE q = r
    <3>1. state'[r] # "active"
      BY <1>1, <1>2, InvParts DEF StateTypes
    <3> QED
      BY <1>6, <2>1, <3>1
  <2>2. CASE q # r
    <3>1. state'[q] = state[q]
      BY <1>1, <2>2, InvParts DEF StateTypes
    <3> QED
      BY <1>6, <2>2, <3>1
  <2> QED
    BY <2>1, <2>2
<1> QED
  BY <1>4, <1>9, <1>10, <1>11, StateThenKept

LEMMA EvictView ==
  ASSUME IInv, DestroyRoomFirst, Evict
  PROVE  /\ \E new : Replaces(new)
         /\ SeatThen' = SeatThen /\ StateThen' = StateThen
<1> DEFINE r == This.room
           d == Call("destroy", r, None)
<1>1. PICK p \in Staying(r) :
        /\ todo # << >> /\ This.call = "evict"
        /\ playerRoom' = [playerRoom EXCEPT ![p] = None]
        /\ todo' = << >> \o todo \/ todo' = <<d>> \o todo
        /\ UNCHANGED <<members, state, managed>>
  BY DEF Evict, Now, This, roomVars, AfterEvict
<1>2. /\ todo \in Seq(Calls) /\ r \in Room /\ This \in Calls /\ d \in Calls
      /\ This = Call("evict", r, None)
      /\ This.call \in Made \ {"destroyRoom"} /\ d.call \in Made /\ Rest \in Seq(Calls)
  BY <1>1, CallNow, CallIsCall DEF TodoInv, RoomCalls, Made, Call
<1>3. todo = <<This>> \o Rest
  BY <1>1, <1>2 DEF This, Rest
<1>4. \A n : \A q : Has(n, q) <=> (n = "evict" /\ q = r) \/ Call(n, q, None) \in Later
  BY <1>1, HasNow DEF RoomCalls
<1>5. /\ \E new : Replaces(new)
      /\ \/ Pending' = {This} \cup Later
         \/ Pending' = {d, This} \cup Later
  <2>1. CASE todo' = << >> \o todo
    <3>1. todo' = <<This>> \o Rest
      BY <1>2, <1>3, <2>1
    <3> QED
      BY <1>1, <1>2, <3>1, MakesOne
  <2>2. CASE todo' = <<d>> \o todo
    <3>1. todo' = <<d, This>> \o Rest
      BY <1>2, <1>3, <2>2
    <3> QED
      BY <1>1, <1>2, <3>1, MakesTwo
  <2> QED
    BY <1>1, <2>1, <2>2
<1>6. \A n : \A q : /\ Has(n, q) => Has(n, q)'
                    /\ Has(n, q)' => Has(n, q) \/ (n = "destroy" /\ q = r)
  BY <1>2, <1>4, <1>5, CallsDiffer DEF Has
<1>7. /\ {"destroy", "evict"} \subseteq Falls
      /\ {"delete", "autoDispose", "destroyRoom"} \cap {"destroy"} = {}
  BY DEF Falls
<1>8. \A q : (Going(q) <=> Going(q)') /\ Going(r)
  BY <1>4, <1>6, <1>7 DEF Going
<1> HIDE DEF r
<1>9. \A q \in Player : SeatThen'[q] = SeatThen[q]
  BY <1>1, <1>8, InvParts DEF SeatThen, Staying, StateTypes
<1>10. SeatThen' = SeatThen
  BY <1>9 DEF SeatThen
<1>11. \A q \in Room :
         /\ q \notin managed \/ Has("delete", q) \/ Has("destroyRoom", q)
            <=> (q \notin managed \/ Has("delete", q) \/ Has("destroyRoom", q))'
         /\ Has("autoDispose", q) <=> Has("autoDispose", q)'
         /\ state[q] = "active" /\ ~Going(q) <=> (state[q] = "active" /\ ~Going(q))'
  BY <1>1, <1>6, <1>7, <1>8
<1> QED
  BY <1>5, <1>10, <1>11, StateThenKept

LEMMA EvictEndsView ==
  ASSUME IInv, DestroyRoomFirst, EvictEnds
  PROVE  /\ \E new : Replaces(new)
         /\ SeatThen' = SeatThen /\ StateThen' = StateThen
<1> DEFINE r == This.room
           c == Call("onDestroy", r, None)
<1>1. /\ todo # << >> /\ This.call = "evict"
      /\ todo' = <<c>> \o Rest
      /\ UNCHANGED <<playerRoom, state, managed>>
  BY DEF EvictEnds, Now, This, roomVars
<1>2. todo \in Seq(Calls) /\ c \in Calls /\ c.call \in Made
  BY <1>1, CallNow, CallIsCall DEF TodoInv, RoomCalls, Made, Call
<1>3. \A n : \A q : Has(n, q) <=> (n = "evict" /\ q = r) \/ Call(n, q, None) \in Later
  BY <1>1, HasNow DEF RoomCalls
<1>4. (\E new : Replaces(new)) /\ Pending' = {c} \cup Later
  BY <1>1, <1>2, MakesOne
<1>5. \A n : \A q : Has(n, q)' <=> (n = "onDestroy" /\ q = r) \/ Call(n, q, None) \in Later
  BY <1>4, HasThen, CallsDiffer
<1>6. {"evict", "onDestroy"} \subseteq Falls
  BY DEF Falls
<1> HIDE DEF r, c
<1>7. \A q : Going(q) <=> Going(q)'
  BY <1>3, <1>5, <1>6 DEF Going
<1>8. SeatThen' = SeatThen
  BY <1>1, <1>7 DEF SeatThen
<1>9. \A q \in Room :
        /\ q \notin managed \/ Has("delete", q) \/ Has("destroyRoom", q)
           <=> (q \notin managed \/ Has("delete", q) \/ Has("destroyRoom", q))'
        /\ Has("autoDispose", q) <=> Has("autoDispose", q)'
        /\ state[q] = "active" /\ ~Going(q) <=> (state[q] = "active" /\ ~Going(q))'
  BY <1>1, <1>3, <1>5, <1>7
<1> QED
  BY <1>4, <1>8, <1>9, StateThenKept

LEMMA OnDestroyView ==
  ASSUME IInv, DestroyRoomFirst, OnDestroy
  PROVE  /\ \E new : Replaces(new)
         /\ SeatThen' = SeatThen /\ StateThen' = StateThen
<1> DEFINE r == This.room
<1>1. /\ todo # << >> /\ This.call = "onDestroy"
      /\ todo' = Rest
      /\ state' = [state EXCEPT ![r] = "destroyed"]
      /\ UNCHANGED <<playerRoom, managed>>
  BY DEF OnDestroy, Now, This, seatVars
<1>2. todo \in Seq(Calls) /\ r \in Room
  BY <1>1, CallNow DEF TodoInv, RoomCalls
<1>3. \A n : \A q : Has(n, q) <=> (n = "onDestroy" /\ q = r) \/ Call(n, q, None) \in Later
  BY <1>1, HasNow DEF RoomCalls
<1>4. (\E new : Replaces(new)) /\ Pending' = {} \cup Later
  BY <1>1, <1>2, MakesNone
<1>5. \A n : \A q : Has(n, q)' <=> Call(n, q, None) \in Later
  BY <1>4, HasThen
<1>6. "onDestroy" \in Falls
  BY DEF Falls
<1>7. Going(r) /\ \A q : q # r => (Going(q) <=> Going(q)')
  BY <1>3, <1>5, <1>6 DEF Going
<1>8. \A p \in Player : playerRoom[p] # r
  <2>1. Call("onDestroy", r, None) \in Pending
    BY <1>3 DEF Has
  <2> QED
    BY <1>2, <2>1, InvParts DEF Mirrored
<1> HIDE DEF r
<1>9. \A p \in Player : SeatThen'[p] = SeatThen[p]
  BY <1>1, <1>7, <1>8 DEF SeatThen
<1>10. SeatThen' = SeatThen
  BY <1>9 DEF SeatThen
<1>11. \A q \in Room :
         /\ q \notin managed \/ Has("delete", q) \/ Has("destroyRoom", q)
            <=> (q \notin managed \/ Has("delete", q) \/ Has("destroyRoom", q))'
         /\ Has("autoDispose", q) <=> Has("autoDispose", q)'
  BY <1>1, <1>3, <1>5
<1>12. \A q \in Room :
         state[q] = "active" /\ ~Going(q) <=> (state[q] = "active" /\ ~Going(q))'
  BY <1>1, <1>2, <1>7, InvParts DEF StateTypes
<1> QED
  BY <1>4, <1>10, <1>11, <1>12, StateThenKept

LEMMA DeleteView ==
  ASSUME IInv, DestroyRoomFirst, Delete
  PROVE  /\ \E new : Replaces(new)
         /\ SeatThen' = SeatThen /\ StateThen' = StateThen
<1> DEFINE r == This.room
<1>1. /\ todo # << >> /\ This.call = "delete"
      /\ todo' = Rest
      /\ managed' = managed \ {r}
      /\ UNCHANGED <<playerRoom, state>>
  BY DEF Delete, Now, This, seatVars
<1>2. todo \in Seq(Calls)
  BY CallNow, <1>1 DEF TodoInv
<1>3. \A n : \A q : Has(n, q) <=> (n = "delete" /\ q = r) \/ Call(n, q, None) \in Later
  BY <1>1, HasNow DEF RoomCalls
<1>4. (\E new : Replaces(new)) /\ Pending' = {} \cup Later
  BY <1>1, <1>2, MakesNone
<1>5. \A n : \A q : Has(n, q)' <=> Call(n, q, None) \in Later
  BY <1>4, HasThen
<1>6. "delete" \notin Falls
  BY DEF Falls
<1> HIDE DEF r
<1>7. \A q : Going(q) <=> Going(q)'
  BY <1>3, <1>5, <1>6 DEF Going
<1>8. SeatThen' = SeatThen
  BY <1>1, <1>7 DEF SeatThen
<1>9. \A q \in Room :
        /\ q \notin managed \/ Has("delete", q) \/ Has("destroyRoom", q)
           <=> (q \notin managed \/ Has("delete", q) \/ Has("destroyRoom", q))'
        /\ Has("autoDispose", q) <=> Has("autoDispose", q)'
        /\ state[q] = "active" /\ ~Going(q) <=> (state[q] = "active" /\ ~Going(q))'
  BY <1>1, <1>3, <1>5, <1>7
<1> QED
  BY <1>4, <1>8, <1>9, StateThenKept

\* A made call carries out what has been decided.
LEMMA MadeView ==
  ASSUME IInv, DestroyRoomFirst, Step, This.call \in Made
  PROVE  /\ \E new : Replaces(new)
         /\ SeatThen' = SeatThen /\ StateThen' = StateThen
<1>1. AutoDisposes \/ DestroyRoom \/ Destroy \/ Evict \/ EvictEnds \/ OnDestroy \/ Delete
  BY DEF Step, Made, CreateRoom, DetachNobody, Detach, AddPlayerRefused, AddPlayer, StartRoom, Now,
         This
<1> QED
  BY <1>1, AutoDisposesView, DestroyRoomView, DestroyView, EvictView, EvictEndsView,
     OnDestroyView, DeleteView
-------------------------------------------------------------------------------
(* What the calls of a script do.                                          *)

Scripted == {"createRoom", "start", "detach", "addPlayer"}

\* With no made call pending, the view shows what is.
LEMMA ViewIsNow ==
  ASSUME \A n \in Made : \A q : ~Has(n, q)
  PROVE  /\ \A p \in Player : SeatThen[p] = playerRoom[p]
         /\ \A q \in Room : StateThen[q] = IF q \notin managed THEN "none"
                                           ELSE IF state[q] = "active" THEN "active" ELSE "destroyed"
<1>1. \A q : ~Going(q)
  BY DEF Going, Falls, Made
<1>2. \A q : Lost(q) <=> q \notin managed
  BY DEF Lost, Made
<1> QED
  BY <1>1, <1>2 DEF SeatThen, StateThen

LEMMA ScriptedNow ==
  ASSUME IInv, DestroyRoomFirst, todo # << >>, This.call \in Scripted
  PROVE  /\ todo \in Seq(Calls) /\ Rest \in Seq(Calls)
         /\ \A n \in Made : \A q : ~Has(n, q) /\ Call(n, q, None) \notin Later
         /\ \A q \in Room : /\ members[q] = {p \in Player : playerRoom[p] = q}
                            /\ state[q] # "active" => members[q] = {}
                            /\ state[q] = "active" => q \in managed
         /\ \A p \in Player : SeatThen[p] = playerRoom[p]
         /\ \A q \in Room : StateThen[q] = IF q \notin managed THEN "none"
                                           ELSE IF state[q] = "active" THEN "active" ELSE "destroyed"
<1>1. This.call \in Outer /\ This.call \notin Made
  BY DEF Scripted, Outer, Made
<1>2. todo \in Seq(Calls) /\ Rest \in Seq(Calls) /\ Pending = {This} \cup Later
  BY CallNow DEF TodoInv
<1>3. \A n \in Made : \A q : Call(n, q, None) \notin Later
  BY <1>1, NothingMadeBehind
<1>4. \A n \in Made : \A q : ~Has(n, q)
  BY <1>1, <1>2, <1>3 DEF Has, Call
<1>5. \A q \in Room : /\ members[q] = {p \in Player : playerRoom[p] = q}
                      /\ state[q] # "active" => members[q] = {}
                      /\ state[q] = "active" => q \in managed
  BY <1>1, SeatsAreMembers, InvParts DEF OpenIsManaged
<1> QED
  BY <1>2, <1>3, <1>4, <1>5, ViewIsNow

\* createRoom() makes a room that was not there, or makes it for nothing.
LEMMA CreateRoomView ==
  ASSUME IInv, DestroyRoomFirst, CreateRoom
  PROVE  /\ \E new : Replaces(new)
         /\ \E r \in Room :
              /\ This = Call("createRoom", r, None)
              /\ StateThen[r] = "none" /\ \A p \in Player : SeatThen[p] # r
              /\ \A p \in Player : SeatThen'[p] = SeatThen[p]
              /\ \A q \in Room \ {r} : StateThen'[q] = StateThen[q]
              /\ \/ StateThen'[r] = "active"
                 \/ StateThen'[r] = "none" /\ HooksThrow
<1>0. PICK r : r = This.room
  OBVIOUS
<1> DEFINE c == Call("destroyRoom", r, None)
<1>1. /\ todo # << >> /\ This.call = "createRoom"
      /\ state' = [state EXCEPT ![r] = "active"]
      /\ managed' = managed \cup {r}
      /\ \/ todo' = Rest
         \/ todo' = << >> \o Rest
         \/ HooksThrow /\ todo' = <<c>> \o Rest
      /\ UNCHANGED playerRoom
  BY <1>0 DEF CreateRoom, Now, This, seatVars, Throws, MayFail
<1>2. /\ r \in Room /\ This = Call("createRoom", r, None) /\ This \in Pending
      /\ c \in Calls /\ c.call \in Made
  BY <1>0, <1>1, CallNow, CallIsCall DEF RoomCalls, Made, Call
<1>3. /\ todo \in Seq(Calls) /\ Rest \in Seq(Calls)
      /\ \A n \in Made : \A q : Call(n, q, None) \notin Later
      /\ \A q \in Room : /\ members[q] = {p \in Player : playerRoom[p] = q}
                         /\ state[q] # "active" => members[q] = {}
                         /\ state[q] = "active" => q \in managed
      /\ \A p \in Player : SeatThen[p] = playerRoom[p]
      /\ \A q \in Room : StateThen[q] = IF q \notin managed THEN "none"
                                        ELSE IF state[q] = "active" THEN "active" ELSE "destroyed"
  BY <1>1, ScriptedNow DEF Scripted
<1>4. r \notin managed
  BY <1>2, InvParts DEF RoomsCounted
<1>5. StateThen[r] = "none" /\ \A p \in Player : SeatThen[p] # r
  BY <1>2, <1>3, <1>4
<1>6. \A q \in Room : state'[q] = IF q = r THEN "active" ELSE state[q]
  BY <1>1, InvParts DEF StateTypes
<1>7. CASE todo' = Rest
  <2>1. (\E new : Replaces(new)) /\ Pending' = {} \cup Later
    BY <1>1, <1>3, <1>7, MakesNone
  <2>2. \A n \in Made : \A q : ~Has(n, q)'
    BY <1>3, <2>1, HasThen
  <2>3. /\ \A p \in Player : SeatThen'[p] = playerRoom[p]
        /\ \A q \in Room : StateThen'[q] = IF q \notin managed \cup {r} THEN "none"
                                           ELSE IF state'[q] = "active" THEN "active" ELSE "destroyed"
    <3>1. /\ \A p \in Player : SeatThen'[p] = playerRoom'[p]
          /\ \A q \in Room : StateThen'[q] = IF q \notin managed' THEN "none"
                                             ELSE IF state'[q] = "active" THEN "active" ELSE "destroyed"
      <4>1. \A q : ~Going(q)'
        BY <2>2 DEF Going, Falls, Made
      <4>2. \A q : Lost(q)' <=> q \notin managed'
        BY <2>2 DEF Lost, Made
      <4> QED
        BY <4>1, <4>2 DEF SeatThen, StateThen
    <3> QED
      BY <1>1, <3>1
  <2> QED
    BY <1>2, <1>3, <1>5, <1>6, <2>1, <2>3
<1>8. CASE HooksThrow /\ todo' = <<c>> \o Rest
  <2>1. (\E new : Replaces(new)) /\ Pending' = {c} \cup Later
    BY <1>1, <1>2, <1>3, <1>8, MakesOne
  <2>2. \A n \in Made : \A q : Has(n, q)' <=> n = "destroyRoom" /\ q = r
    BY <1>3, <2>1, HasThen, CallsDiffer
  <2>3. "destroyRoom" \in Falls /\ Falls \subseteq Made
    BY DEF Falls, Made
  <2>4. \A q : Going(q)' <=> q = r
    BY <2>2, <2>3 DEF Going
  <2>5. \A p \in Player : SeatThen'[p] = SeatThen[p]
    BY <1>1, <1>3, <1>5, <2>4 DEF SeatThen
  <2>6. \A q \in Room : Lost(q)' <=> q = r \/ q \notin managed
    BY <1>1, <2>2 DEF Lost, Made
  <2>7. \A q \in Room : StateThen'[q] = IF q = r THEN "none" ELSE StateThen[q]
    BY <1>3, <1>6, <2>4, <2>6 DEF StateThen
  <2> QED
    BY <1>2, <1>5, <1>8, <2>1, <2>5, <2>7
<1>9. << >> \o Rest = Rest
  BY <1>3
<1> QED
  BY <1>1, <1>7, <1>8, <1>9

\* The same of the next state.
LEMMA ViewIsNowNext ==
  ASSUME \A n \in Made : \A q : ~Has(n, q)'
  PROVE  /\ \A p \in Player : SeatThen'[p] = playerRoom'[p]
         /\ \A q \in Room : StateThen'[q] = IF q \notin managed' THEN "none"
                                            ELSE IF state'[q] = "active" THEN "active" ELSE "destroyed"
<1>1. \A q : ~Going(q)'
  BY DEF Going, Falls, Made
<1>2. \A q : Lost(q)' <=> q \notin managed'
  BY DEF Lost, Made
<1> QED
  BY <1>1, <1>2 DEF SeatThen, StateThen

\* A call that does nothing.
LEMMA NothingDone ==
  ASSUME IInv, DestroyRoomFirst, todo # << >>, This.call \in Scripted,
         todo' = Rest, UNCHANGED <<playerRoom, state, managed>>
  PROVE  /\ \E new : Replaces(new)
         /\ \A p \in Player : SeatThen'[p] = SeatThen[p]
         /\ \A q \in Room : StateThen'[q] = StateThen[q]
<1>1. /\ todo \in Seq(Calls)
      /\ \A n \in Made : \A q : Call(n, q, None) \notin Later
      /\ \A p \in Player : SeatThen[p] = playerRoom[p]
      /\ \A q \in Room : StateThen[q] = IF q \notin managed THEN "none"
                                        ELSE IF state[q] = "active" THEN "active" ELSE "destroyed"
  BY ScriptedNow
<1>2. (\E new : Replaces(new)) /\ Pending' = {} \cup Later
  BY <1>1, MakesNone
<1>3. \A n \in Made : \A q : ~Has(n, q)'
  BY <1>1, <1>2, HasThen
<1>4. /\ \A p \in Player : SeatThen'[p] = playerRoom'[p]
      /\ \A q \in Room : StateThen'[q] = IF q \notin managed' THEN "none"
                                         ELSE IF state'[q] = "active" THEN "active" ELSE "destroyed"
  BY <1>3, ViewIsNowNext
<1> QED
  BY <1>1, <1>2, <1>4

\* What a detach() does to the view: p leaves its room, which may crash.
ViewLeaves(p) ==
  \/ /\ SeatThen[p] = None
     /\ \A q \in Player : SeatThen'[q] = SeatThen[q]
     /\ \A y \in Room : StateThen'[y] = StateThen[y]
  \/ \E x \in Room, crash \in BOOLEAN :
       /\ SeatThen[p] = x /\ StateThen[x] = "active"
       /\ crash => HooksThrow
       /\ \A q \in Player :
            SeatThen'[q] = IF q = p \/ (crash /\ SeatThen[q] = x) THEN None
                           ELSE SeatThen[q]
       /\ \A y \in Room :
            StateThen'[y] = IF /\ y = x /\ x \in AutoDispose
                               /\ \A q \in Player : SeatThen[q] = x => q = p \/ crash
                            THEN "none"
                            ELSE IF y = x /\ crash THEN "destroyed" ELSE StateThen[y]

\* A player leaves its room, which may crash, and may be left empty.
LEMMA DetachView ==
  ASSUME IInv, DestroyRoomFirst, DetachNobody \/ Detach
  PROVE  /\ \E new : Replaces(new)
         /\ \E p \in Player : This = Call("detach", None, p) /\ ViewLeaves(p)
<1>0. PICK p : p = This.player
  OBVIOUS
<1>1. todo # << >> /\ This.call = "detach"
  BY DEF DetachNobody, Detach, Now, This
<1>2. p \in Player /\ This = Call("detach", None, p)
  BY <1>0, <1>1, CallNow
<1>3. /\ todo \in Seq(Calls) /\ Rest \in Seq(Calls)
      /\ \A n \in Made : \A q : Call(n, q, None) \notin Later
      /\ \A q \in Room : /\ members[q] = {y \in Player : playerRoom[y] = q}
                         /\ state[q] # "active" => members[q] = {}
                         /\ state[q] = "active" => q \in managed
      /\ \A q \in Player : SeatThen[q] = playerRoom[q]
      /\ \A q \in Room : StateThen[q] = IF q \notin managed THEN "none"
                                        ELSE IF state[q] = "active" THEN "active" ELSE "destroyed"
  BY <1>1, ScriptedNow DEF Scripted
<1>4. CASE DetachNobody
  <2>1. playerRoom[p] = None /\ todo' = Rest /\ UNCHANGED <<playerRoom, state, managed>>
    BY <1>0, <1>4 DEF DetachNobody, NothingElse, seatVars, roomVars, This
  <2>2. /\ \E new : Replaces(new)
        /\ \A q \in Player : SeatThen'[q] = SeatThen[q]
        /\ \A q \in Room : StateThen'[q] = StateThen[q]
    BY <1>1, <2>1, NothingDone DEF Scripted
  <2> QED
    BY <1>2, <1>3, <2>1, <2>2 DEF ViewLeaves
<1>5. CASE Detach
  <2>0. PICK x : x = playerRoom[p]
    OBVIOUS
  <2> DEFINE d == Call("destroy", x, None)
             a == Call("autoDispose", x, None)
  <2>1. /\ x # None
        /\ playerRoom' = [playerRoom EXCEPT ![p] = None]
        /\ \/ todo' = << >> \o <<a>> \o Rest
           \/ HooksThrow /\ todo' = <<d>> \o <<a>> \o Rest
        /\ UNCHANGED <<state, managed>>
    BY <1>0, <1>5, <2>0 DEF Detach, This, roomVars, Throws, MayFail
  <2>2. x \in Room /\ state[x] = "active" /\ x \in managed /\ StateThen[x] = "active"
    <3>1. x \in Room
      BY <1>2, <2>0, <2>1, InvParts DEF StateTypes
    <3> QED
      BY <1>2, <1>3, <2>0, <3>1
  <2>3. a \in Calls /\ d \in Calls /\ a.call \in Made \ {"destroyRoom"} /\ d.call \in Made
    BY <2>2, CallIsCall DEF RoomCalls, Made, Call
  <2>4. PICK crash \in BOOLEAN :
          /\ crash => HooksThrow
          /\ \E new : Replaces(new)
          /\ \A n \in Made : \A q :
               Has(n, q)' <=> q = x /\ (n = "autoDispose" \/ (crash /\ n = "destroy"))
    <3>1. CASE todo' = << >> \o <<a>> \o Rest
      <4>1. todo' = <<a>> \o Rest
        BY <1>3, <2>3, <3>1
      <4>2. (\E new : Replaces(new)) /\ Pending' = {a} \cup Later
        BY <1>1, <1>3, <2>3, <4>1, MakesOne
      <4>3. \A n \in Made : \A q : Has(n, q)' <=> q = x /\ n = "autoDispose"
        BY <1>3, <4>2, HasThen, CallsDiffer
      <4> QED
        BY <4>2, <4>3
    <3>2. CASE HooksThrow /\ todo' = <<d>> \o <<a>> \o Rest
      <4>1. todo' = <<d, a>> \o Rest
        BY <1>3, <2>3, <3>2
      <4>2. (\E new : Replaces(new)) /\ Pending' = {d, a} \cup Later
        BY <1>1, <1>3, <2>3, <4>1, MakesTwo
      <4>3. \A n \in Made : \A q : Has(n, q)' <=> q = x /\ (n = "autoDispose" \/ n = "destroy")
        BY <1>3, <4>2, HasThen, CallsDiffer
      <4> QED
        BY <3>2, <4>2, <4>3
    <3> QED
      BY <2>1, <3>1, <3>2
  <2>5. /\ Falls \subseteq Made /\ "destroy" \in Falls /\ "autoDispose" \notin Falls
        /\ {"delete", "destroyRoom", "autoDispose"} \subseteq Made
    BY DEF Falls, Made
  <2>6. \A q : Going(q)' <=> q = x /\ crash
    BY <2>4, <2>5 DEF Going
  <2>7. \A q \in Player : playerRoom'[q] = IF q = p THEN None ELSE playerRoom[q]
    BY <2>1, InvParts DEF StateTypes
  <2>8. \A q \in Player : SeatThen'[q] = IF q = p \/ (crash /\ SeatThen[q] = x) THEN None
                                         ELSE SeatThen[q]
    BY <1>3, <2>2, <2>6, <2>7, NoneIsNoId DEF SeatThen
  <2>9. \A y \in Room : Lost(y)' <=> \/ y \notin managed
                                     \/ /\ y = x /\ x \in AutoDispose
                                        /\ \A q \in Player : SeatThen'[q] # x
    BY <2>1, <2>4, <2>5 DEF Lost
  <2>10. (\A q \in Player : SeatThen'[q] # x)
           <=> \A q \in Player : SeatThen[q] = x => q = p \/ crash
    BY <2>2, <2>8, NoneIsNoId
  <2>11. \A y \in Room :
           StateThen'[y] = IF /\ y = x /\ x \in AutoDispose
                              /\ \A q \in Player : SeatThen[q] = x => q = p \/ crash
                           THEN "none"
                           ELSE IF y = x /\ crash THEN "destroyed" ELSE StateThen[y]
    BY <1>3, <2>1, <2>2, <2>6, <2>9, <2>10 DEF StateThen
  <2> QED
    BY <1>2, <1>3, <2>0, <2>2, <2>4, <2>8, <2>11 DEF ViewLeaves
<1> QED
  BY <1>4, <1>5

Free(r) ==
  StateThen[r] = "active" /\ Cardinality({q \in Player : SeatThen[q] = r}) < Capacity[r]

ViewStays ==
  /\ \A q \in Player : SeatThen'[q] = SeatThen[q]
  /\ \A y \in Room : StateThen'[y] = StateThen[y]

ViewSeats(p, r) ==
  /\ \A q \in Player : SeatThen'[q] = IF q = p THEN r ELSE SeatThen[q]
  /\ \A y \in Room : StateThen'[y] = StateThen[y]

ViewFails(p, r) ==
  /\ \A q \in Player : SeatThen'[q] = IF q = p \/ SeatThen[q] = r THEN None ELSE SeatThen[q]
  /\ \A y \in Room : StateThen'[y] = IF y = r THEN "destroyed" ELSE StateThen[y]

\* A player sits down, is refused, or brings the room down on everyone.
LEMMA AddPlayerView ==
  ASSUME IInv, DestroyRoomFirst, AddPlayerRefused \/ AddPlayer
  PROVE  /\ \E new : Replaces(new)
         /\ \E p \in Player, r \in Room :
              /\ This = Call("addPlayer", r, p)
              /\ SeatThen[p] \in {None, r}
              /\ \/ ~Free(r) /\ ViewStays
                 \/ Free(r) /\ ViewSeats(p, r)
                 \/ Free(r) /\ HooksThrow /\ ViewFails(p, r)
<1>0. PICK p, r : p = This.player /\ r = This.room
  OBVIOUS
<1> DEFINE d == Call("destroy", r, None)
<1>1. todo # << >> /\ This.call = "addPlayer"
  BY DEF AddPlayerRefused, AddPlayer, Now, This
<1>2. /\ p \in Player /\ r \in Room /\ This = Call("addPlayer", r, p)
      /\ d \in Calls /\ d.call \in Made
  BY <1>0, <1>1, CallNow, CallIsCall DEF RoomCalls, Made, Call
<1>3. /\ todo \in Seq(Calls) /\ Rest \in Seq(Calls)
      /\ \A n \in Made : \A q : Call(n, q, None) \notin Later
      /\ \A q \in Room : /\ members[q] = {y \in Player : playerRoom[y] = q}
                         /\ state[q] # "active" => members[q] = {}
                         /\ state[q] = "active" => q \in managed
      /\ \A q \in Player : SeatThen[q] = playerRoom[q]
      /\ \A q \in Room : StateThen[q] = IF q \notin managed THEN "none"
                                        ELSE IF state[q] = "active" THEN "active" ELSE "destroyed"
  BY <1>1, ScriptedNow DEF Scripted
<1>4. Free(r) <=> Accepts(r)
  <2>1. {q \in Player : SeatThen[q] = r} = members[r]
    BY <1>2, <1>3
  <2>2. StateThen[r] = "active" <=> state[r] = "active"
    BY <1>2, <1>3
  <2> QED
    BY <2>1, <2>2 DEF Accepts, Free
<1>5. SeatThen[p] \in {None, r}
  <2>1. /\ 1 \in DOMAIN todo /\ todo[1] = This /\ todo[1].call = "addPlayer"
        /\ ~(1 > 1)
    BY <1>1, <1>3 DEF This
  <2>2. playerRoom[todo[1].player] \in {None, todo[1].room}
    BY <2>1, InvParts DEF TodoInv, JoinsAreFree
  <2> QED
    BY <1>0, <1>2, <1>3, <2>1, <2>2
<1>6. CASE AddPlayerRefused
  <2>1. ~Accepts(r) /\ todo' = Rest /\ UNCHANGED <<playerRoom, state, managed>>
    BY <1>0, <1>6 DEF AddPlayerRefused, NothingElse, seatVars, roomVars, This
  <2>2. /\ \E new : Replaces(new)
        /\ \A q \in Player : SeatThen'[q] = SeatThen[q]
        /\ \A q \in Room : StateThen'[q] = StateThen[q]
    BY <1>1, <2>1, NothingDone DEF Scripted
  <2> QED
    BY <1>2, <1>4, <1>5, <2>1, <2>2 DEF ViewStays
<1>7. CASE AddPlayer
  <2>1. /\ Accepts(r)
        /\ playerRoom' = [playerRoom EXCEPT ![p] = r]
        /\ \/ todo' = << >> \o Rest
           \/ HooksThrow /\ todo' = <<d>> \o Rest
        /\ UNCHANGED <<state, managed>>
    BY <1>0, <1>7 DEF AddPlayer, This, roomVars, Throws, MayFail
  <2>2. \A q \in Player : playerRoom'[q] = IF q = p THEN r ELSE playerRoom[q]
    BY <2>1, InvParts DEF StateTypes
  <2>3. r \in managed /\ state[r] = "active"
    BY <1>2, <1>3, <2>1 DEF Accepts
  <2>4. CASE todo' = << >> \o Rest
    <3>1. todo' = Rest
      BY <1>3, <2>4
    <3>2. (\E new : Replaces(new)) /\ Pending' = {} \cup Later
      BY <1>1, <1>3, <3>1, MakesNone
    <3>3. \A n \in Made : \A q : ~Has(n, q)'
      BY <1>3, <3>2, HasThen
    <3>4. /\ \A q \in Player : SeatThen'[q] = IF q = p THEN r ELSE SeatThen[q]
          /\ \A y \in Room : StateThen'[y] = StateThen[y]
      BY <1>3, <2>1, <2>2, <3>3, ViewIsNowNext
    <3> QED
      BY <1>2, <1>4, <1>5, <2>1, <3>2, <3>4 DEF ViewSeats
  <2>5. CASE HooksThrow /\ todo' = <<d>> \o Rest
    <3>1. (\E new : Replaces(new)) /\ Pending' = {d} \cup Later
      BY <1>1, <1>2, <1>3, <2>5, MakesOne
    <3>2. \A n \in Made : \A q : Has(n, q)' <=> n = "destroy" /\ q = r
      BY <1>3, <3>1, HasThen, CallsDiffer
    <3>3. /\ Falls \subseteq Made /\ "destroy" \in Falls
          /\ {"delete", "destroyRoom", "autoDispose"} \subseteq Made
      BY DEF Falls, Made
    <3>4. \A q : Going(q)' <=> q = r
      BY <3>2, <3>3 DEF Going
    <3>5. \A q \in Player : SeatThen'[q] = IF q = p \/ SeatThen[q] = r THEN None ELSE SeatThen[q]
      BY <1>3, <2>2, <3>4 DEF SeatThen
    <3>6. \A y \in Room : Lost(y)' <=> y \notin managed
      BY <2>1, <3>2, <3>3 DEF Lost
    <3>7. \A y \in Room : StateThen'[y] = IF y = r THEN "destroyed" ELSE StateThen[y]
      BY <1>3, <2>1, <2>3, <3>4, <3>6 DEF StateThen
    <3> QED
      BY <1>2, <1>4, <1>5, <2>1, <2>5, <3>1, <3>5, <3>7 DEF ViewFails
  <2> QED
    BY <2>1, <2>4, <2>5
<1> QED
  BY <1>6, <1>7

\* A room that is started empty is removed.
LEMMA StartRoomView ==
  ASSUME IInv, DestroyRoomFirst, StartRoom
  PROVE  /\ \E new : Replaces(new)
         /\ \E r \in Room :
              /\ This = Call("start", r, None)
              /\ \A p \in Player : SeatThen'[p] = SeatThen[p]
              /\ \A q \in Room : StateThen'[q] = IF q = r /\ (\A p \in Player : SeatThen[p] # r)
                                                 THEN "none" ELSE StateThen[q]
<1>0. PICK r : r = This.room
  OBVIOUS
<1> DEFINE c == Call("destroyRoom", r, None)
<1>1. /\ todo # << >> /\ This.call = "start"
      /\ \/ members[r] # {} /\ todo' = << >> \o Rest
         \/ members[r] = {} /\ todo' = <<c>> \o Rest
      /\ UNCHANGED <<playerRoom, state, managed>>
  BY <1>0 DEF StartRoom, Now, This, seatVars, roomVars, NothingElse
<1>2. /\ r \in Room /\ This = Call("start", r, None)
      /\ c \in Calls /\ c.call \in Made
  BY <1>0, <1>1, CallNow, CallIsCall DEF RoomCalls, Made, Call
<1>3. /\ todo \in Seq(Calls) /\ Rest \in Seq(Calls)
      /\ \A n \in Made : \A q : Call(n, q, None) \notin Later
      /\ \A q \in Room : members[q] = {p \in Player : playerRoom[p] = q}
      /\ \A p \in Player : SeatThen[p] = playerRoom[p]
      /\ \A q \in Room : StateThen[q] = IF q \notin managed THEN "none"
                                        ELSE IF state[q] = "active" THEN "active" ELSE "destroyed"
  BY <1>1, ScriptedNow DEF Scripted
<1>4. members[r] = {} <=> \A p \in Player : SeatThen[p] # r
  BY <1>2, <1>3
<1>5. CASE members[r] # {} /\ todo' = << >> \o Rest
  <2>1. todo' = Rest
    BY <1>3, <1>5
  <2> QED
    BY <1>1, <1>2, <1>4, <1>5, <2>1, NothingDone DEF Scripted
<1>6. CASE members[r] = {} /\ todo' = <<c>> \o Rest
  <2>1. (\E new : Replaces(new)) /\ Pending' = {c} \cup Later
    BY <1>1, <1>2, <1>3, <1>6, MakesOne
  <2>2. \A n \in Made : \A q : Has(n, q)' <=> n = "destroyRoom" /\ q = r
    BY <1>3, <2>1, HasThen, CallsDiffer
  <2>3. "destroyRoom" \in Falls /\ Falls \subseteq Made
    BY DEF Falls, Made
  <2>4. \A q : Going(q)' <=> q = r
    BY <2>2, <2>3 DEF Going
  <2>5. \A p \in Player : SeatThen'[p] = SeatThen[p]
    BY <1>1, <1>3, <1>4, <1>6, <2>4 DEF SeatThen
  <2>6. \A q \in Room : Lost(q)' <=> q = r \/ q \notin managed
    BY <1>1, <2>2 DEF Lost, Made
  <2>7. \A q \in Room : StateThen'[q] = IF q = r THEN "none" ELSE StateThen[q]
    BY <1>1, <1>3, <2>4, <2>6 DEF StateThen
  <2> QED
    BY <1>2, <1>4, <1>6, <2>1, <2>5, <2>7
<1> QED
  BY <1>1, <1>5, <1>6
-------------------------------------------------------------------------------
(* How a handler goes on.                                                  *)

\* The script of a match, call by call.
LEMMA MatchScriptIs ==
  ASSUME NEW group \in Groups, NEW r \in Room
  PROVE  LET n == Len(group)
             script == MatchScript(group, r)
         IN  /\ n \in Nat /\ n >= 1 /\ DOMAIN group = 1..n
             /\ \A j \in 1..n : group[j] \in Player
             /\ Len(script) = 2 * n + 2
             /\ script[1] = Call("createRoom", r, None)
             /\ script[2 * n + 2] = Call("start", r, None)
             /\ \A j \in 1..n : /\ script[2 * j] = Call("detach", None, group[j])
                                /\ script[2 * j + 1] = Call("addPlayer", r, group[j])
             /\ script \in Seq(Calls)
             /\ \A i \in 1..(2 * n + 2) : script[i].call \in Scripted
<1> DEFINE b == Call("createRoom", r, None)
           e == Call("start", r, None)
           seats == SeatCalls(group, r)
           script == MatchScript(group, r)
<1>1. PICK n \in Nat : group \in [1..n -> Player] /\ n >= 1
  BY KindAssumption DEF Groups
<1>2. Len(group) = n /\ DOMAIN group = 1..n /\ \A j \in 1..n : group[j] \in Player
  BY <1>1
<1>3. /\ b \in Calls /\ e \in Calls /\ b.call \in Scripted /\ e.call \in Scripted
  BY CallIsCall DEF RoomCalls, Call, Scripted
<1>4. \A j \in 1..n : /\ 2 * j - 1 \in 1..(2 * n) /\ 2 * j \in 1..(2 * n)
                      /\ (2 * j - 1) % 2 = 1 /\ ((2 * j - 1) + 1) \div 2 = j
                      /\ (2 * j) % 2 = 0 /\ ((2 * j) + 1) \div 2 = j
  BY <1>1
<1>5. seats = [i \in 1..(2 * n) |->
                 LET p == group[(i + 1) \div 2] IN
                 IF i % 2 = 1 THEN Call("detach", None, p) ELSE Call("addPlayer", r, p)]
  BY <1>2 DEF SeatCalls
<1>6. \A j \in 1..n : /\ seats[2 * j - 1] = Call("detach", None, group[j])
                      /\ seats[2 * j] = Call("addPlayer", r, group[j])
  BY <1>4, <1>5
<1>7. ASSUME NEW i \in 1..(2 * n)
      PROVE  seats[i] \in Calls /\ seats[i].call \in Scripted
  <2>1. (i + 1) \div 2 \in 1..n
    BY <1>1
  <2>2. PICK p \in Player : p = group[(i + 1) \div 2]
    BY <1>2, <2>1
  <2>3. seats[i] \in {Call("detach", None, p), Call("addPlayer", r, p)}
    BY <1>5, <2>2
  <2> QED
    BY <2>3, CallIsCall DEF Call, Scripted
<1>8. seats \in Seq(Calls) /\ Len(seats) = 2 * n
  <2>1. 2 * n \in Nat
    BY <1>1
  <2>2. seats \in [1..(2 * n) -> Calls]
    <3> HIDE DEF seats
    <3>1. seats = [i \in 1..(2 * n) |-> seats[i]]
      BY <1>5
    <3> QED
      BY <1>7, <3>1
  <2> HIDE DEF seats
  <2> QED
    BY <2>1, <2>2
<1> HIDE DEF b, e, seats
<1>9. /\ script \in Seq(Calls) /\ Len(script) = 2 * n + 2
      /\ script[1] = b /\ script[2 * n + 2] = e
      /\ \A i \in 2..(2 * n + 1) : script[i] = seats[i - 1]
  <2>1. script = <<b>> \o seats \o <<e>>
    BY DEF MatchScript, b, e, seats
  <2> HIDE DEF script
  <2>2. LET f == <<b>> \o seats \o <<e>> IN
        /\ f \in Seq(Calls) /\ Len(f) = 2 * n + 2 /\ f[1] = b /\ f[2 * n + 2] = e
        /\ \A i \in 2..(2 * n + 1) : f[i] = seats[i - 1]
    BY <1>3, <1>8, Between
  <2> QED
    BY <2>1, <2>2
<1> HIDE DEF script
<1>10. \A j \in 1..n : /\ 2 * j \in 2..(2 * n + 1) /\ 2 * j + 1 \in 2..(2 * n + 1)
                       /\ (2 * j + 1) - 1 = 2 * j
  BY <1>1
<1>11. \A j \in 1..n : script[2 * j] = seats[2 * j - 1] /\ script[2 * j + 1] = seats[2 * j]
  BY <1>9, <1>10
<1>12. \A i \in 1..(2 * n + 2) : script[i].call \in Scripted
  <2> TAKE i \in 1..(2 * n + 2)
  <2>1. i = 1 \/ i = 2 * n + 2 \/ (i \in 2..(2 * n + 1) /\ i - 1 \in 1..(2 * n))
    BY <1>1
  <2> QED
    BY <1>3, <1>7, <1>9, <2>1
<1> QED
  BY <1>1, <1>2, <1>6, <1>9, <1>11, <1>12 DEF b, e, script

\* Nobody of the view has moved.
LEMMA WholeStays ==
  ASSUME SeatThen' = SeatThen, StateThen' = StateThen, was' = was, IsWhole
  PROVE  IsWhole'
<1>1. HaveStayed => HaveStayed'
  BY DEF HaveStayed
<1>2. \A L, C : HaveLeft(L, C) => HaveLeft(L, C)'
  BY DEF HaveLeft, MayCrash, SeatLeft, StateLeft, Vacated
<1>3. \A r : WasFree(r)' <=> WasFree(r)
  BY DEF WasFree, WasIn
<1>4. \A p, r : Leaving(p, r)' = Leaving(p, r)
  BY DEF Leaving
<1>5. \A L, C : /\ MayCrash(L, C)' <=> MayCrash(L, C)
                /\ \A q : SeatLeft(L, C, q)' = SeatLeft(L, C, q)
                /\ \A x : StateLeft(L, C, x)' = StateLeft(L, C, x)
  BY DEF MayCrash, SeatLeft, StateLeft, Vacated
<1>6. \A p, r : HasJoined(p, r) => HasJoined(p, r)'
  BY <1>3, <1>4, <1>5 DEF HasJoined
<1>7. \A p, r : HasFailedToJoin(p, r) => HasFailedToJoin(p, r)'
  BY <1>3, <1>4, <1>5 DEF HasFailedToJoin
<1>8. \A L, S, r : HasFormed(L, S, r) => HasFormed(L, S, r)'
  BY <1>5 DEF HasFormed
<1>9. \A r, kept : HasBroken(r, kept) => HasBroken(r, kept)'
  BY DEF HasBroken
<1>10. HasCleared => HasCleared'
  BY DEF HasCleared
<1>11. CASE HaveStayed
  BY <1>1, <1>11 DEF IsWhole
<1>12. CASE \E p \in Player, C \in SUBSET Room : HaveLeft({p}, C)
  BY <1>2, <1>12 DEF IsWhole
<1>13. CASE \E p \in Player, r \in Room :
              \/ /\ was.state[r] # "none" /\ ~WasFree(r)
                 /\ \E C \in SUBSET Room : HaveLeft(Leaving(p, r), C)
              \/ HasJoined(p, r) \/ HasFailedToJoin(p, r)
  <2>1. PICK p \in Player, r \in Room :
          \/ /\ was.state[r] # "none" /\ ~WasFree(r)
             /\ \E C \in SUBSET Room : HaveLeft(Leaving(p, r), C)
          \/ HasJoined(p, r) \/ HasFailedToJoin(p, r)
    BY <1>13
  <2>2. CASE HasJoined(p, r) \/ HasFailedToJoin(p, r)
    BY <1>6, <1>7, <2>2 DEF IsWhole
  <2>3. CASE /\ was.state[r] # "none" /\ ~WasFree(r)
             /\ \E C \in SUBSET Room : HaveLeft(Leaving(p, r), C)
    <3>1. PICK C \in SUBSET Room : HaveLeft(Leaving(p, r), C)
      BY <2>3
    <3>2. PICK L : L = Leaving(p, r)
      OBVIOUS
    <3>3. HaveLeft(L, C)' /\ Leaving(p, r)' = L
      BY <1>2, <1>4, <3>1, <3>2
    <3>4. was'.state[r] # "none" /\ ~WasFree(r)' /\ HaveLeft(Leaving(p, r), C)'
      BY <1>3, <2>3, <3>3 DEF HaveLeft, MayCrash, SeatLeft, StateLeft, Vacated
    <3> QED
      BY <3>4 DEF IsWhole
  <2> QED
    BY <2>1, <2>2, <2>3
<1>14. CASE \E L, S \in SUBSET Player, r \in Room : Seating(L, S, r) /\ HasFormed(L, S, r)
  <2>1. PICK L \in SUBSET Player, S \in SUBSET Player, r \in Room :
          Seating(L, S, r) /\ HasFormed(L, S, r)
    BY <1>14
  <2>2. Seating(L, S, r)' /\ HasFormed(L, S, r)'
    BY <1>8, <2>1 DEF Seating
  <2> QED
    BY <2>2 DEF IsWhole
<1>15. CASE \E r \in Room, kept \in BOOLEAN : HasBroken(r, kept)
  BY <1>9, <1>15 DEF IsWhole
<1>16. CASE HasCleared
  BY <1>10, <1>16 DEF IsWhole
<1> QED
  BY <1>11, <1>12, <1>13, <1>14, <1>15, <1>16 DEF IsWhole

\* No script goes on.
ScriptsWait ==
  \A script, m : /\ ToMake(script, m)
                 /\ \A i \in 1..Len(script) : script[i].call \notin Made
                 => ToMake(script, m)'

\* A made call leaves the handler where it was.
LEMMA UnderwayStays ==
  ASSUME SeatThen' = SeatThen, StateThen' = StateThen, was' = was, Underway, ScriptsWait
  PROVE  Underway'
<1>1. ASSUME NEW script, NEW m, ToMake(script, m),
             \A i \in 1..Len(script) : script[i].call \notin Made
      PROVE  ToMake(script, m)'
  BY <1>1 DEF ScriptsWait
<1>2. HaveStayed => HaveStayed'
  BY DEF HaveStayed
<1>3. CASE Over
  <2>1. ToMake(<< >>, 0)'
    <3>1. ToMake(<< >>, 0) /\ \A i \in 1..Len(<< >>) : << >>[i].call \notin Made
      BY <1>3 DEF Over
    <3> QED
      BY <1>1, <3>1
  <2> QED
    BY <1>3, <2>1, WholeStays DEF Over, Underway
<1>4. CASE ToLeave
  <2>1. PICK p \in Player : ToMake(<<Call("detach", None, p)>>, 1) /\ HaveStayed
    BY <1>4 DEF ToLeave
  <2>2. \A i \in 1..Len(<<Call("detach", None, p)>>) : <<Call("detach", None, p)>>[i].call \notin Made
    BY DEF Made, Call
  <2>3. ToMake(<<Call("detach", None, p)>>, 1)'
    BY <1>1, <2>1, <2>2
  <2> QED
    BY <1>2, <2>1, <2>3 DEF ToLeave, Underway
<1>5. CASE ToMove
  <2>1. PICK p \in Player, r \in Room :
          /\ was.seat[p] \notin {None, r}
          /\ was.state[r] # "none"
          /\ ToMake(<<Call("detach", None, p), Call("addPlayer", r, p)>>, 2)
          /\ HaveStayed
    BY <1>5 DEF ToMove
  <2> DEFINE script == <<Call("detach", None, p), Call("addPlayer", r, p)>>
  <2>2. \A i \in 1..Len(script) : script[i].call \notin Made
    BY DEF Made, Call
  <2>3. ToMake(script, 2)'
    BY <1>1, <2>1, <2>2
  <2> QED
    BY <1>2, <2>1, <2>3 DEF ToMove, Underway
<1>6. CASE ToJoin
  <2>1. PICK p \in Player, r \in Room, C \in SUBSET Room :
          /\ was.state[r] # "none"
          /\ ToMake(<<Call("addPlayer", r, p)>>, 1)
          /\ HaveLeft(Leaving(p, r), C)
    BY <1>6 DEF ToJoin
  <2> DEFINE script == <<Call("addPlayer", r, p)>>
  <2>2. \A i \in 1..Len(script) : script[i].call \notin Made
    BY DEF Made, Call
  <2>3. ToMake(script, 1)'
    BY <1>1, <2>1, <2>2
  <2>4. HaveLeft(Leaving(p, r), C)'
    BY <2>1 DEF HaveLeft, MayCrash, SeatLeft, StateLeft, Vacated, Leaving
  <2> QED
    BY <2>1, <2>3, <2>4 DEF ToJoin, Underway
<1>7. CASE ToForm
  <2>1. PICK group \in Groups, r \in Room :
          /\ IsInjective(group)
          /\ was.state[r] = "none"
          /\ ToMake(MatchScript(group, r), 2 * Len(group) + 2)
          /\ HaveStayed
    BY <1>7 DEF ToForm
  <2>2. PICK script : script = MatchScript(group, r)
    OBVIOUS
  <2>3. \A i \in 1..Len(script) : script[i].call \notin Made
    BY <2>2, MatchScriptIs DEF Made, Scripted
  <2>4. ToMake(script, 2 * Len(group) + 2)'
    BY <1>1, <2>1, <2>2, <2>3
  <2> QED
    BY <1>2, <2>1, <2>2, <2>4 DEF ToForm, Underway, ToMake
<1>8. CASE Forming
  <2>1. PICK group \in Groups, r \in Room :
          \E d \in 1..(2 * Len(group) + 1), stands \in BOOLEAN, C \in SUBSET Room :
            /\ IsInjective(group)
            /\ was.state[r] = "none"
            /\ ToMake(MatchScript(group, r), 2 * Len(group) + 2 - d)
            /\ MatchIsAt(group, r, d, stands, C)
    BY <1>8 DEF Forming
  <2>2. PICK d \in 1..(2 * Len(group) + 1), stands \in BOOLEAN, C \in SUBSET Room :
            /\ IsInjective(group)
            /\ was.state[r] = "none"
            /\ ToMake(MatchScript(group, r), 2 * Len(group) + 2 - d)
            /\ MatchIsAt(group, r, d, stands, C)
    BY <2>1
  <2>3. PICK script : script = MatchScript(group, r)
    OBVIOUS
  <2>4. \A i \in 1..Len(script) : script[i].call \notin Made
    BY <2>3, MatchScriptIs DEF Made, Scripted
  <2>5. ToMake(script, 2 * Len(group) + 2 - d)'
    BY <1>1, <2>2, <2>3, <2>4
  <2>6. MatchIsAt(group, r, d, stands, C)'
    BY <2>2 DEF MatchIsAt, HaveLeftFor, MayCrash, SeatLeft, StateLeft, Vacated, Taken, Offered
  <2> QED
    BY <2>2, <2>3, <2>5, <2>6 DEF Forming, Underway, ToMake
<1> QED
  BY <1>3, <1>4, <1>5, <1>6, <1>7, <1>8 DEF Underway

LEMMA MadeGoesOn ==
  ASSUME todo \in Seq(Calls), todo # << >>, NEW new, Replaces(new), This.call \in Made,
         SeatThen' = SeatThen, StateThen' = StateThen, was' = was, Underway
  PROVE  Underway'
<1>1. ScriptsWait
  BY ScriptWaits DEF ScriptsWait
<1> QED
  BY <1>1, UnderwayStays

\* One more player leaves, who is in no room any more: L have left before, and the
\* rooms in C have crashed.
LEMMA OneMoreStays ==
  ASSUME WasSound, NEW L \in SUBSET Player, NEW C \in SUBSET Room, MayCrash(L, C),
         NEW p \in Player, SeatLeft(L, C, p) = None
  PROVE  /\ MayCrash(L \cup {p}, C)
         /\ \A q \in Player : SeatLeft(L \cup {p}, C, q) = SeatLeft(L, C, q)
         /\ \A y \in Room : StateLeft(L \cup {p}, C, y) = StateLeft(L, C, y)
<1>0. /\ \A q \in Player : was.seat[q] \in Room \cup {None}
      /\ None \notin Room
  BY NoneIsNoId DEF WasSound
<1>1. p \in L \/ was.seat[p] \in C \/ was.seat[p] = None
  BY <1>0 DEF SeatLeft
<1>2. MayCrash(L \cup {p}, C)
  BY DEF MayCrash
<1>3. \A q \in Player : SeatLeft(L \cup {p}, C, q) = SeatLeft(L, C, q)
  BY <1>1 DEF SeatLeft
<1>4. \A y \in Room : Vacated(L \cup {p}, C, y) <=> Vacated(L, C, y)
  <2> TAKE y \in Room
  <2>1. CASE p \in L
    <3>1. L \cup {p} = L
      BY <2>1
    <3> QED
      BY <3>1
  <2>2. CASE was.seat[p] \in C
    <3>1. PICK q \in L : was.seat[q] = was.seat[p]
      BY <2>2 DEF MayCrash
    <3> QED
      BY <2>2, <3>1 DEF Vacated
  <2>3. CASE was.seat[p] = None
    BY <1>0, <2>3 DEF Vacated
  <2> QED
    BY <1>1, <2>1, <2>2, <2>3
<1> QED
  BY <1>2, <1>3, <1>4 DEF StateLeft

\* One more player leaves a room, which may crash.
LEMMA OneMoreLeaves ==
  ASSUME WasSound, NEW L \in SUBSET Player, NEW C \in SUBSET Room, MayCrash(L, C),
         NEW p \in Player, NEW x \in Room, SeatLeft(L, C, p) = x,
         NEW D \in SUBSET Room, \A y \in Room : y # x => (y \in D <=> y \in C),
         x \in D => HooksThrow
  PROVE  /\ MayCrash(L \cup {p}, D)
         /\ \A q \in Player :
              SeatLeft(L \cup {p}, D, q) =
                IF q = p \/ (x \in D /\ SeatLeft(L, C, q) = x) THEN None ELSE SeatLeft(L, C, q)
         /\ \A y \in Room :
              StateLeft(L \cup {p}, D, y) =
                IF /\ y = x /\ x \in AutoDispose
                   /\ \A q \in Player : SeatLeft(L, C, q) = x => q = p \/ x \in D
                THEN "none"
                ELSE IF y = x /\ x \in D THEN "destroyed" ELSE StateLeft(L, C, y)
<1>0. /\ \A q \in Player : was.seat[q] \in Room \cup {None}
      /\ None \notin Room
  BY NoneIsNoId DEF WasSound
<1>1. p \notin L /\ was.seat[p] = x /\ x \notin C /\ x # None
  BY <1>0 DEF SeatLeft
<1>2. MayCrash(L \cup {p}, D)
  BY <1>1 DEF MayCrash
<1>3. \A q \in Player : SeatLeft(L, C, q) = x <=> was.seat[q] = x /\ q \notin L
  BY <1>0, <1>1 DEF SeatLeft
<1>4. ASSUME NEW q \in Player
      PROVE  SeatLeft(L \cup {p}, D, q) =
               IF q = p \/ (x \in D /\ SeatLeft(L, C, q) = x) THEN None ELSE SeatLeft(L, C, q)
  <2>1. SeatLeft(L \cup {p}, D, q) = IF q \in L \/ q = p \/ was.seat[q] \in C
                                        \/ (x \in D /\ was.seat[q] = x)
                                     THEN None ELSE was.seat[q]
    BY DEF SeatLeft
  <2> QED
    BY <1>3, <2>1 DEF SeatLeft
<1>5. ASSUME NEW y \in Room, y # x
      PROVE  StateLeft(L \cup {p}, D, y) = StateLeft(L, C, y)
  <2>1. Vacated(L \cup {p}, D, y) <=> Vacated(L, C, y)
    BY <1>1, <1>5 DEF Vacated
  <2>2. y \in D <=> y \in C
    BY <1>5
  <2> QED
    BY <2>1, <2>2 DEF StateLeft
<1>6. Vacated(L \cup {p}, D, x) <=>
        /\ x \in AutoDispose
        /\ \A q \in Player : SeatLeft(L, C, q) = x => q = p \/ x \in D
  BY <1>1, <1>3 DEF Vacated
<1>7. ~Vacated(L \cup {p}, D, x) => ~Vacated(L, C, x)
  BY <1>1 DEF Vacated
<1>8. StateLeft(L \cup {p}, D, x) =
        IF Vacated(L \cup {p}, D, x) THEN "none"
        ELSE IF x \in D THEN "destroyed" ELSE StateLeft(L, C, x)
  BY <1>1, <1>7 DEF StateLeft
<1> QED
  BY <1>2, <1>4, <1>5, <1>6, <1>8

\* What a detach() does to the view, when all those in L, and nobody of S, have
\* left, and S sits in r.
LEMMA LeavesAfterOthers ==
  ASSUME WasSound, was' = was, NEW L \in SUBSET Player, NEW C \in SUBSET Room,
         NEW S \in SUBSET L, NEW r, NEW p \in Player, p \notin S,
         SeatLeft(L, C, p) = r => r = None, HaveLeftFor(S, r, L, C), ViewLeaves(p)
  PROVE  /\ \E D \in SUBSET Room : HaveLeftFor(S, r, L \cup {p}, D)'
         /\ r \in Room => StateThen'[r] = StateThen[r]
<1>1. /\ MayCrash(L, C)
      /\ \A q \in Player : SeatThen[q] = IF q \in S THEN r ELSE SeatLeft(L, C, q)
      /\ \A y \in Room \ {r} : StateThen[y] = StateLeft(L, C, y)
  BY DEF HaveLeftFor
<1>2. ASSUME NEW D \in SUBSET Room, MayCrash(L \cup {p}, D),
              \A q \in Player : SeatThen'[q] = IF q \in S THEN r ELSE SeatLeft(L \cup {p}, D, q),
              \A y \in Room \ {r} : StateThen'[y] = StateLeft(L \cup {p}, D, y)
       PROVE  HaveLeftFor(S, r, L \cup {p}, D)'
  BY <1>2 DEF HaveLeftFor, MayCrash, SeatLeft, StateLeft, Vacated
<1>3. SeatThen[p] = SeatLeft(L, C, p) /\ None \notin Room
  BY <1>1, NoneIsNoId
<1>4. CASE /\ SeatThen[p] = None
           /\ \A q \in Player : SeatThen'[q] = SeatThen[q]
           /\ \A y \in Room : StateThen'[y] = StateThen[y]
  <2>1. /\ MayCrash(L \cup {p}, C)
        /\ \A q \in Player : SeatLeft(L \cup {p}, C, q) = SeatLeft(L, C, q)
        /\ \A y \in Room : StateLeft(L \cup {p}, C, y) = StateLeft(L, C, y)
    BY <1>1, <1>3, <1>4, OneMoreStays
  <2> QED
    BY <1>1, <1>2, <1>4, <2>1
<1>5. CASE \E x \in Room, crash \in BOOLEAN :
              /\ SeatThen[p] = x /\ StateThen[x] = "active"
              /\ crash => HooksThrow
              /\ \A q \in Player :
                   SeatThen'[q] = IF q = p \/ (crash /\ SeatThen[q] = x) THEN None
                                  ELSE SeatThen[q]
              /\ \A y \in Room :
                   StateThen'[y] = IF /\ y = x /\ x \in AutoDispose
                                      /\ \A q \in Player : SeatThen[q] = x => q = p \/ crash
                                   THEN "none"
                                   ELSE IF y = x /\ crash THEN "destroyed" ELSE StateThen[y]
  <2>1. PICK x \in Room, crash \in BOOLEAN :
              /\ SeatThen[p] = x /\ StateThen[x] = "active"
              /\ crash => HooksThrow
              /\ \A q \in Player :
                   SeatThen'[q] = IF q = p \/ (crash /\ SeatThen[q] = x) THEN None
                                  ELSE SeatThen[q]
              /\ \A y \in Room :
                   StateThen'[y] = IF /\ y = x /\ x \in AutoDispose
                                      /\ \A q \in Player : SeatThen[q] = x => q = p \/ crash
                                   THEN "none"
                                   ELSE IF y = x /\ crash THEN "destroyed" ELSE StateThen[y]
    BY <1>5
  <2>2. PICK D \in SUBSET Room : /\ x \in D <=> crash
                                 /\ \A y \in Room : y # x => (y \in D <=> y \in C)
    <3>1. x \notin C
      BY <1>3, <2>1 DEF SeatLeft
    <3>2. CASE crash
      <4>1. C \cup {x} \in SUBSET Room
        OBVIOUS
      <4> QED
        BY <3>2, <4>1
    <3>3. CASE ~crash
      BY <3>1, <3>3
    <3> QED
      BY <3>2, <3>3
  <2>3. /\ MayCrash(L \cup {p}, D)
        /\ \A q \in Player :
             SeatLeft(L \cup {p}, D, q) =
               IF q = p \/ (x \in D /\ SeatLeft(L, C, q) = x) THEN None ELSE SeatLeft(L, C, q)
        /\ \A y \in Room :
             StateLeft(L \cup {p}, D, y) =
               IF /\ y = x /\ x \in AutoDispose
                  /\ \A q \in Player : SeatLeft(L, C, q) = x => q = p \/ x \in D
               THEN "none"
               ELSE IF y = x /\ x \in D THEN "destroyed" ELSE StateLeft(L, C, y)
    <3>1. SeatLeft(L, C, p) = x /\ (x \in D => HooksThrow)
      BY <1>3, <2>1, <2>2
    <3> QED
      BY <1>1, <2>2, <3>1, OneMoreLeaves
  <2>4. x # r
    BY <1>3, <2>1, NoneIsNoId
  <2>5. \A q \in Player : SeatThen[q] = x <=> SeatLeft(L, C, q) = x
    BY <1>1, <1>3, <2>4 DEF SeatLeft
  <2>6. \A q \in Player : SeatThen'[q] = IF q \in S THEN r ELSE SeatLeft(L \cup {p}, D, q)
    BY <1>1, <2>1, <2>2, <2>3, <2>5
  <2>7. (\A q \in Player : SeatThen[q] = x => q = p \/ crash)
          <=> \A q \in Player : SeatLeft(L, C, q) = x => q = p \/ crash
    BY <2>5
  <2> QED
    BY <1>1, <1>2, <2>1, <2>2, <2>3, <2>4, <2>6, <2>7
<1> QED
  BY <1>4, <1>5 DEF ViewLeaves

\* Before anybody has left.
LEMMA NobodyLeft ==
  /\ MayCrash({}, {})
  /\ \A q : SeatLeft({}, {}, q) = was.seat[q]
  /\ \A y : StateLeft({}, {}, y) = was.state[y]
BY DEF MayCrash, SeatLeft, StateLeft, Vacated

\* What step a call of a script is.
LEMMA ScriptedCalls ==
  ASSUME Step
  PROVE  /\ todo # << >>
         /\ This.call = "createRoom" => CreateRoom
         /\ This.call = "detach" => DetachNobody \/ Detach
         /\ This.call = "addPlayer" => AddPlayerRefused \/ AddPlayer
         /\ This.call = "start" => StartRoom
BY DEF Step, CreateRoom, DetachNobody, Detach, AutoDisposes, AddPlayerRefused, AddPlayer, StartRoom,
       DestroyRoom, Destroy, Evict, EvictEnds, OnDestroy, Delete, Now, This

\* Every call is replaced.
LEMMA StepReplaces ==
  ASSUME IInv, DestroyRoomFirst, Step
  PROVE  /\ todo \in Seq(Calls) /\ todo # << >>
         /\ \E new : Replaces(new)
<1>1. todo \in Seq(Calls) /\ todo # << >>
  BY ScriptedCalls DEF IInv, TypeOK
<1>2. CASE This.call \in Made
  BY <1>1, <1>2, MadeView
<1>3. CASE This.call \notin Made
  <2>1. CreateRoom \/ DetachNobody \/ Detach \/ AddPlayerRefused \/ AddPlayer \/ StartRoom
    BY <1>3 DEF Step, Made, AutoDisposes, DestroyRoom, Destroy, Evict, EvictEnds, OnDestroy, Delete,
                Now, This
  <2> QED
    BY <1>1, <2>1, CreateRoomView, DetachView, AddPlayerView, StartRoomView
<1> QED
  BY <1>1, <1>2, <1>3

\* The next call of a script.
LEMMA NextOfScript ==
  ASSUME IInv, DestroyRoomFirst, Step, NEW script, NEW m, ToMake(script, m), This.call \notin Made
  PROVE  /\ m \in 1..Len(script)
         /\ This = script[Len(script) - m + 1]
         /\ ToMake(script, m - 1)'
<1>1. PICK new : Replaces(new)
  BY StepReplaces
<1> QED
  BY <1>1, StepReplaces, ScriptGoesOn

LEMMA ScriptIsOver ==
  ASSUME NEW script, ToMake(script, 0)', IsWhole'
  PROVE  Underway'
<1>1. ToMake(<< >>, 0)'
  BY DEF ToMake
<1> QED
  BY <1>1 DEF Over, Underway

\* A player who leaves, the first of the handler.
LEMMA FirstToLeave ==
  ASSUME IInv, DestroyRoomFirst, WasSound, Step, was' = was, HaveStayed,
         NEW p \in Player, This = Call("detach", None, p)
  PROVE  \E C \in SUBSET Room : HaveLeft({p}, C)'
<1>1. DetachNobody \/ Detach
  BY ScriptedCalls DEF Call
<1>2. PICK q \in Player : This = Call("detach", None, q) /\ ViewLeaves(q)
  BY <1>1, DetachView
<1>3. q = p
  BY <1>2, CallsDiffer
<1>4. PICK N : N = {}
  OBVIOUS
<1>5. /\ N \in SUBSET Player /\ N \in SUBSET Room /\ N \in SUBSET N /\ q \notin N
      /\ HaveLeftFor(N, None, N, N)
  BY <1>4, NobodyLeft, NoneIsNoId DEF HaveStayed, HaveLeftFor
<1>6. PICK D \in SUBSET Room : HaveLeftFor(N, None, N \cup {q}, D)'
  BY <1>2, <1>5, LeavesAfterOthers
<1>7. N \cup {q} = {p} /\ Room \ {None} = Room
  BY <1>3, <1>4, NoneIsNoId
<1>8. HaveLeft({p}, D)'
  BY <1>4, <1>6, <1>7 DEF HaveLeftFor, HaveLeft
<1> QED
  BY <1>8

LEMMA LeaveGoesOn ==
  ASSUME IInv, DestroyRoomFirst, WasSound, Step, was' = was, This.call \notin Made, ToLeave
  PROVE  Underway'
<1>1. PICK p \in Player : ToMake(<<Call("detach", None, p)>>, 1) /\ HaveStayed
  BY DEF ToLeave
<1>2. PICK script : script = <<Call("detach", None, p)>>
  OBVIOUS
<1>3. Len(script) = 1 /\ script[1] = Call("detach", None, p) /\ ToMake(script, 1)
  BY <1>1, <1>2
<1>4. This = Call("detach", None, p) /\ ToMake(script, 0)'
  <2>1. This = script[Len(script) - 1 + 1] /\ ToMake(script, 1 - 1)'
    BY <1>3, NextOfScript
  <2> QED
    BY <1>3, <2>1
<1>5. PICK C \in SUBSET Room : HaveLeft({p}, C)'
  BY <1>1, <1>4, FirstToLeave
<1> QED
  BY <1>4, <1>5, ScriptIsOver DEF IsWhole

LEMMA MoveGoesOn ==
  ASSUME IInv, DestroyRoomFirst, WasSound, Step, was' = was, This.call \notin Made, ToMove
  PROVE  Underway'
<1>1. PICK p \in Player, r \in Room :
        /\ was.seat[p] \notin {None, r}
        /\ was.state[r] # "none"
        /\ ToMake(<<Call("detach", None, p), Call("addPlayer", r, p)>>, 2)
        /\ HaveStayed
  BY DEF ToMove
<1>2. PICK script : script = <<Call("detach", None, p), Call("addPlayer", r, p)>>
  OBVIOUS
<1>3. /\ Len(script) = 2 /\ script[1] = Call("detach", None, p)
      /\ script[2] = Call("addPlayer", r, p) /\ ToMake(script, 2)
  BY <1>1, <1>2
<1>4. This = Call("detach", None, p) /\ ToMake(script, 1)'
  <2>1. This = script[Len(script) - 2 + 1] /\ ToMake(script, 2 - 1)'
    BY <1>3, NextOfScript
  <2> QED
    BY <1>3, <2>1
<1>5. PICK C \in SUBSET Room : HaveLeft({p}, C)'
  BY <1>1, <1>4, FirstToLeave
<1>6. ToMake(<<Call("addPlayer", r, p)>>, 1)'
  <2>1. PICK last : last = <<Call("addPlayer", r, p)>>
    OBVIOUS
  <2>2. Len(last) = 1 /\ last[1] = Call("addPlayer", r, p)
    BY <2>1
  <2>3. ToMake(last, 1)'
    BY <1>3, <1>4, <2>2 DEF ToMake
  <2> QED
    BY <2>1, <2>3 DEF ToMake
<1>7. HaveLeft(Leaving(p, r), C)'
  <2>1. Leaving(p, r)' = {p}
    BY <1>1 DEF Leaving
  <2> QED
    BY <1>5, <2>1 DEF HaveLeft, MayCrash, SeatLeft, StateLeft, Vacated
<1> QED
  BY <1>1, <1>6, <1>7 DEF ToJoin, Underway

\* Who leaves to join r leaves r as it was.
LEMMA JoinedIsUntouched ==
  ASSUME WasSound, NEW p \in Player, NEW r \in Room, NEW C \in SUBSET Room,
         HaveLeft(Leaving(p, r), C)
  PROVE  /\ Free(r) <=> WasFree(r)
         /\ \A q \in Player : SeatThen[q] = r <=> was.seat[q] = r
<1> DEFINE L == Leaving(p, r)
<1>1. /\ \A q \in L : was.seat[q] \notin {None, r}
      /\ MayCrash(L, C) /\ None \notin Room
      /\ \A q \in Player : SeatThen[q] = SeatLeft(L, C, q)
      /\ StateThen[r] = StateLeft(L, C, r)
  BY NoneIsNoId DEF Leaving, HaveLeft
<1> HIDE DEF L
<1>2. r \notin C /\ ~Vacated(L, C, r)
  BY <1>1 DEF MayCrash, Vacated
<1>3. StateThen[r] = was.state[r]
  BY <1>1, <1>2 DEF StateLeft
<1>4. \A q \in Player : SeatThen[q] = r <=> was.seat[q] = r
  BY <1>1, <1>2 DEF SeatLeft
<1>5. {q \in Player : SeatThen[q] = r} = WasIn(r)
  BY <1>4 DEF WasIn
<1> QED
  BY <1>3, <1>4, <1>5 DEF Free, WasFree

LEMMA JoinGoesOn ==
  ASSUME IInv, DestroyRoomFirst, WasSound, Step, was' = was, This.call \notin Made, ToJoin
  PROVE  Underway'
<1>1. PICK p \in Player, r \in Room, C \in SUBSET Room :
        /\ was.state[r] # "none"
        /\ ToMake(<<Call("addPlayer", r, p)>>, 1)
        /\ HaveLeft(Leaving(p, r), C)
  BY DEF ToJoin
<1>2. PICK script : script = <<Call("addPlayer", r, p)>>
  OBVIOUS
<1>3. Len(script) = 1 /\ script[1] = Call("addPlayer", r, p) /\ ToMake(script, 1)
  BY <1>1, <1>2
<1>4. This = Call("addPlayer", r, p) /\ ToMake(script, 0)'
  <2>1. This = script[Len(script) - 1 + 1] /\ ToMake(script, 1 - 1)'
    BY <1>3, NextOfScript
  <2> QED
    BY <1>3, <2>1
<1>5. \/ ~Free(r) /\ ViewStays
      \/ Free(r) /\ ViewSeats(p, r)
      \/ Free(r) /\ HooksThrow /\ ViewFails(p, r)
  <2>1. PICK q \in Player, x \in Room :
          /\ This = Call("addPlayer", x, q)
          /\ \/ ~Free(x) /\ ViewStays
             \/ Free(x) /\ ViewSeats(q, x)
             \/ Free(x) /\ HooksThrow /\ ViewFails(q, x)
    <3>1. AddPlayerRefused \/ AddPlayer
      BY <1>4, ScriptedCalls DEF Call
    <3> QED
      BY <3>1, AddPlayerView
  <2>2. q = p /\ x = r
    BY <1>4, <2>1, CallsDiffer
  <2> QED
    BY <2>1, <2>2
<1>6. PICK L : L = Leaving(p, r)
  OBVIOUS
<1>7. /\ Leaving(p, r)' = L
      /\ MayCrash(L, C)
      /\ MayCrash(L, C)' <=> MayCrash(L, C)
      /\ \A q : SeatLeft(L, C, q)' = SeatLeft(L, C, q)
      /\ \A y : StateLeft(L, C, y)' = StateLeft(L, C, y)
      /\ \A q \in Player : SeatThen[q] = SeatLeft(L, C, q)
      /\ \A y \in Room : StateThen[y] = StateLeft(L, C, y)
      /\ WasFree(r)' <=> WasFree(r)
  BY <1>1, <1>6 DEF Leaving, MayCrash, SeatLeft, StateLeft, Vacated, HaveLeft, WasFree, WasIn
<1>8. /\ Free(r) <=> WasFree(r)
      /\ \A q \in Player : SeatThen[q] = r <=> was.seat[q] = r
  BY <1>1, JoinedIsUntouched
<1>9. CASE ~Free(r) /\ ViewStays
  <2>1. HaveLeft(L, C)'
    BY <1>7, <1>9 DEF HaveLeft, ViewStays
  <2>2. was'.state[r] # "none" /\ ~WasFree(r)' /\ HaveLeft(Leaving(p, r), C)'
    BY <1>1, <1>7, <1>8, <1>9, <2>1 DEF HaveLeft
  <2>3. IsWhole'
    BY <2>2 DEF IsWhole
  <2> QED
    BY <1>4, <2>3, ScriptIsOver
<1>10. CASE Free(r) /\ ViewSeats(p, r)
  <2>1. \A q \in Player : SeatThen'[q] = IF q = p THEN r ELSE SeatLeft(L, C, q)
    BY <1>7, <1>10 DEF ViewSeats
  <2>2. \A y \in Room : StateThen'[y] = StateLeft(L, C, y)
    BY <1>7, <1>10 DEF ViewSeats
  <2>3. HasJoined(p, r)'
    BY <1>7, <1>8, <1>10, <2>1, <2>2 DEF HasJoined
  <2>4. IsWhole'
    BY <2>3 DEF IsWhole
  <2> QED
    BY <1>4, <2>4, ScriptIsOver
<1>11. CASE Free(r) /\ HooksThrow /\ ViewFails(p, r)
  <2>1. \A q \in Player : SeatThen'[q] = IF q = p \/ was.seat[q] = r THEN None
                                         ELSE SeatLeft(L, C, q)
    BY <1>7, <1>8, <1>11 DEF ViewFails
  <2>2. \A y \in Room : StateThen'[y] = IF y = r THEN "destroyed" ELSE StateLeft(L, C, y)
    BY <1>7, <1>11 DEF ViewFails
  <2>3. HasFailedToJoin(p, r)'
    BY <1>7, <1>8, <1>11, <2>1, <2>2 DEF HasFailedToJoin
  <2>4. IsWhole'
    BY <2>3 DEF IsWhole
  <2> QED
    BY <1>4, <2>4, ScriptIsOver
<1> QED
  BY <1>5, <1>9, <1>10, <1>11

\* As many players as indices, in a group.
LEMMA FirstAreMany ==
  ASSUME NEW group \in Groups, IsInjective(group), NEW k \in 0..Len(group),
         NEW S, S = {group[i] : i \in 1..k}
  PROVE  IsFiniteSet(S) /\ Cardinality(S) = k
<1>1. PICK n \in Nat : group \in [1..n -> Player]
  BY DEF Groups
<1>2. Len(group) = n /\ DOMAIN group = 1..n /\ k \in Nat /\ \A i \in 1..k : i \in 1..n
  BY <1>1
<1> DEFINE f == [i \in 1..k |-> group[i]]
<1>3. f \in [1..k -> S] /\ \A i \in 1..k : f[i] = group[i]
  OBVIOUS
<1>4. DOMAIN f = 1..k
  OBVIOUS
<1> HIDE DEF f
<1>5. IsInjective(f)
  BY <1>2, <1>3, <1>4 DEF IsInjective
<1>6. \A t \in S : \E i \in 1..k : f[i] = t
  BY <1>3
<1>7. f \in Bijection(1..k, S)
  BY <1>3, <1>5, <1>6 DEF Bijection, Injection, Surjection
<1>8. ExistsBijection(1..k, S)
  BY <1>7 DEF ExistsBijection
<1>9. IsFiniteSet(1..k) /\ Cardinality(1..k) = k
  BY <1>2, FS_Interval
<1> QED
  BY <1>8, <1>9, FS_Bijection

\* How those who have been taken, and offered a seat, grow in number.
LEMMA GroupGrows ==
  ASSUME NEW group \in Groups, IsInjective(group), NEW r \in Room, NEW j \in 1..Len(group)
  PROVE  LET p == group[j]
             before == 2 * j - 1
             between == 2 * j
             after == 2 * j + 1
         IN  /\ p \in Player /\ p \notin Offered(group, r, between) /\ p \in Taken(group, between)
             /\ p \notin Offered(group, r, before)
             /\ Taken(group, between) = Taken(group, before) \cup {p}
             /\ Taken(group, after) = Taken(group, between)
             /\ Offered(group, r, between) = Offered(group, r, before)
             /\ Offered(group, r, after) =
                  Offered(group, r, between) \cup (IF j <= Capacity[r] THEN {p} ELSE {})
             /\ Cardinality(Offered(group, r, between)) < Capacity[r] <=> j <= Capacity[r]
<1>1. PICK n \in Nat : group \in [1..n -> Player]
  BY DEF Groups
<1>2. /\ Len(group) = n /\ DOMAIN group = 1..n /\ j \in 1..n
      /\ \A i \in 1..n : group[i] \in Player
      /\ \A i, k \in 1..n : group[i] = group[k] => i = k
      /\ Capacity[r] \in Nat
  BY <1>1, KindAssumption DEF IsInjective
<1>3. \A i \in 1..n : /\ 2 * i <= 2 * j - 1 <=> i <= j - 1
                      /\ 2 * i <= 2 * j <=> i <= j
                      /\ 2 * i <= 2 * j + 1 <=> i <= j
                      /\ 2 * i + 1 <= 2 * j - 1 <=> i <= j - 1
                      /\ 2 * i + 1 <= 2 * j <=> i <= j - 1
                      /\ 2 * i + 1 <= 2 * j + 1 <=> i <= j
                      /\ i <= j <=> i <= j - 1 \/ i = j
  BY <1>2
<1>4. /\ Taken(group, 2 * j - 1) = {group[i] : i \in {k \in 1..n : k <= j - 1}}
      /\ Taken(group, 2 * j) = {group[i] : i \in {k \in 1..n : k <= j}}
      /\ Taken(group, 2 * j + 1) = {group[i] : i \in {k \in 1..n : k <= j}}
  BY <1>2, <1>3 DEF Taken
<1>5. /\ Offered(group, r, 2 * j - 1) = {group[i] : i \in {k \in 1..n : k <= j - 1 /\ k <= Capacity[r]}}
      /\ Offered(group, r, 2 * j) = {group[i] : i \in {k \in 1..n : k <= j - 1 /\ k <= Capacity[r]}}
      /\ Offered(group, r, 2 * j + 1) = {group[i] : i \in {k \in 1..n : k <= j /\ k <= Capacity[r]}}
  BY <1>2, <1>3 DEF Offered
<1>6. Taken(group, 2 * j) = Taken(group, 2 * j - 1) \cup {group[j]}
  BY <1>2, <1>3, <1>4
<1>7. Offered(group, r, 2 * j + 1) =
        Offered(group, r, 2 * j) \cup (IF j <= Capacity[r] THEN {group[j]} ELSE {})
  BY <1>2, <1>3, <1>5
<1>8. group[j] \notin Offered(group, r, 2 * j) /\ group[j] \in Taken(group, 2 * j)
  <2>1. ~(j <= j - 1)
    BY <1>2
  <2> QED
    BY <1>2, <1>4, <1>5, <2>1
<1>9. Cardinality(Offered(group, r, 2 * j)) < Capacity[r] <=> j <= Capacity[r]
  <2>1. PICK k \in 0..n : k = IF j - 1 < Capacity[r] THEN j - 1 ELSE Capacity[r]
    BY <1>2
  <2>2. \A i \in 1..n : i <= j - 1 /\ i <= Capacity[r] <=> i \in 1..k
    BY <1>2, <2>1
  <2>3. \A i \in 1..k : i \in 1..n
    BY <2>1
  <2>4. Offered(group, r, 2 * j) = {group[i] : i \in 1..k}
    BY <1>5, <2>2, <2>3
  <2>5. Cardinality(Offered(group, r, 2 * j)) = k
    BY <1>2, <2>4, FirstAreMany
  <2>6. k < Capacity[r] <=> j <= Capacity[r]
    BY <1>2, <2>1
  <2> QED
    BY <2>5, <2>6
<1> QED
  BY <1>2, <1>4, <1>5, <1>6, <1>7, <1>8, <1>9

\* The whole group, and those of it for whom there is a seat.
LEMMA GroupIsSeated ==
  ASSUME NEW group \in Groups, IsInjective(group), NEW r \in Room
  PROVE  LET L == Taken(group, 2 * Len(group) + 1)
             S == Offered(group, r, 2 * Len(group) + 1)
         IN  /\ L \in SUBSET Player /\ Seating(L, S, r)
             /\ HooksThrow => Seating(L, {}, r)
             /\ S = {} => Seating(L, {}, r)
<1>1. PICK n \in Nat : group \in [1..n -> Player]
  BY DEF Groups
<1>2. /\ Len(group) = n /\ DOMAIN group = 1..n
      /\ \A i \in 1..n : group[i] \in Player
      /\ Capacity[r] \in Nat
  BY <1>1, KindAssumption
<1> DEFINE L == Taken(group, 2 * n + 1)
           S == Offered(group, r, 2 * n + 1)
<1>3. L = {group[i] : i \in 1..n}
  <2>1. \A i \in 1..n : 2 * i <= 2 * n + 1
    BY <1>1
  <2> QED
    BY <1>2, <2>1 DEF Taken
<1>4. PICK k \in 0..n : k = IF n < Capacity[r] THEN n ELSE Capacity[r]
  BY <1>2
<1>5. S = {group[i] : i \in 1..k}
  <2>1. \A i \in 1..n : 2 * i + 1 <= 2 * n + 1 /\ i <= Capacity[r] <=> i \in 1..k
    BY <1>2, <1>4
  <2>2. \A i \in 1..k : i \in 1..n
    BY <1>4
  <2> QED
    BY <1>2, <2>1, <2>2 DEF Offered
<1>6. Cardinality(L) = n /\ Cardinality(S) = k
  <2>1. n \in 0..Len(group) /\ k \in 0..Len(group)
    BY <1>2
  <2> QED
    BY <1>3, <1>5, <2>1, FirstAreMany
<1>7. L \in SUBSET Player /\ S \subseteq L
  BY <1>2, <1>3, <1>4, <1>5
<1>8. Seating(L, S, r)
  BY <1>4, <1>6, <1>7 DEF Seating
<1>9. HooksThrow => Seating(L, {}, r)
  BY DEF Seating
<1> QED
  BY <1>2, <1>7, <1>8, <1>9

\* The room of a match is made.
LEMMA FormGoesOn ==
  ASSUME IInv, DestroyRoomFirst, WasSound, Step, was' = was, This.call \notin Made, ToForm
  PROVE  Underway'
<1>1. PICK group \in Groups, r \in Room :
        /\ IsInjective(group)
        /\ was.state[r] = "none"
        /\ ToMake(MatchScript(group, r), 2 * Len(group) + 2)
        /\ HaveStayed
  BY DEF ToForm
<1>2. PICK n, script : n = Len(group) /\ script = MatchScript(group, r)
  OBVIOUS
<1>3. /\ n \in Nat /\ n >= 1 /\ DOMAIN group = 1..n
      /\ Len(script) = 2 * n + 2
      /\ script[1] = Call("createRoom", r, None)
      /\ ToMake(script, 2 * n + 2)
  BY <1>1, <1>2, MatchScriptIs
<1>4. This = Call("createRoom", r, None) /\ ToMake(script, 2 * n + 1)'
  <2>1. This = script[Len(script) - (2 * n + 2) + 1] /\ ToMake(script, (2 * n + 2) - 1)'
    BY <1>3, NextOfScript
  <2>2. Len(script) - (2 * n + 2) + 1 = 1 /\ (2 * n + 2) - 1 = 2 * n + 1
    BY <1>3
  <2> QED
    BY <1>3, <2>1, <2>2
<1>5. /\ \A p \in Player : SeatThen'[p] = SeatThen[p]
      /\ \A q \in Room \ {r} : StateThen'[q] = StateThen[q]
      /\ \/ StateThen'[r] = "active"
         \/ StateThen'[r] = "none" /\ HooksThrow
  <2>1. CreateRoom
    BY <1>4, ScriptedCalls DEF Call
  <2>2. PICK x \in Room :
          /\ This = Call("createRoom", x, None)
          /\ \A p \in Player : SeatThen'[p] = SeatThen[p]
          /\ \A q \in Room \ {x} : StateThen'[q] = StateThen[q]
          /\ \/ StateThen'[x] = "active"
             \/ StateThen'[x] = "none" /\ HooksThrow
    BY <2>1, CreateRoomView
  <2>3. x = r
    BY <1>4, <2>2, CallsDiffer
  <2> QED
    BY <2>2, <2>3
<1>6. Taken(group, 1) = {} /\ Offered(group, r, 1) = {}
  <2>1. \A i \in DOMAIN group : ~(2 * i <= 1) /\ ~(2 * i + 1 <= 1)
    BY <1>3
  <2> QED
    BY <2>1 DEF Taken, Offered
<1>7. PICK stands \in BOOLEAN : stands <=> StateThen'[r] = "active"
  OBVIOUS
<1>8. HaveLeftFor({}, r, {}, {})'
  <2>1. /\ \A p \in Player : SeatThen'[p] = SeatLeft({}, {}, p)
        /\ \A y \in Room \ {r} : StateThen'[y] = StateLeft({}, {}, y)
        /\ MayCrash({}, {})
    BY <1>1, <1>5, NobodyLeft DEF HaveStayed
  <2> QED
    BY <2>1 DEF HaveLeftFor, MayCrash, SeatLeft, StateLeft, Vacated
<1>9. MatchIsAt(group, r, 1, stands, {})'
  BY <1>5, <1>6, <1>7, <1>8 DEF MatchIsAt, Taken, Offered
<1>10. 2 * Len(group) + 2 - 1 = 2 * n + 1 /\ 1 \in 1..(2 * Len(group) + 1)
  BY <1>2, <1>3
<1>11. ToMake(MatchScript(group, r), 2 * Len(group) + 2 - 1)'
  BY <1>2, <1>4, <1>10 DEF ToMake
<1> QED
  BY <1>1, <1>9, <1>10, <1>11 DEF Forming, Underway

\* The next of the group leaves its room.
LEMMA GroupLeaves ==
  ASSUME IInv, DestroyRoomFirst, WasSound, Step, was' = was,
         NEW group \in Groups, IsInjective(group), NEW r \in Room, was.state[r] = "none",
         NEW j \in 1..Len(group), NEW stands \in BOOLEAN, NEW C \in SUBSET Room,
         MatchIsAt(group, r, 2 * j - 1, stands, C), This = Call("detach", None, group[j])
  PROVE  \E D \in SUBSET Room : MatchIsAt(group, r, 2 * j, stands, D)'
<1>1. PICK p, L, S : /\ p = group[j] /\ L = Taken(group, 2 * j - 1)
                     /\ S = IF stands THEN Offered(group, r, 2 * j - 1) ELSE {}
  OBVIOUS
<1>2. /\ p \in Player /\ p \notin S /\ Taken(group, 2 * j) = L \cup {p}
      /\ S = IF stands THEN Offered(group, r, 2 * j) ELSE {}
  BY <1>1, GroupGrows
<1>3. L \in SUBSET Player /\ S \in SUBSET L
  <2>1. /\ \A i \in DOMAIN group : i \in Nat /\ group[i] \in Player
        /\ \A i \in DOMAIN group : 2 * i + 1 <= 2 * j - 1 => 2 * i <= 2 * j - 1
    BY MatchScriptIs
  <2> QED
    BY <1>1, <2>1 DEF Taken, Offered
<1>4. /\ HaveLeftFor(S, r, L, C)
      /\ StateThen[r] = "active" <=> stands
      /\ ~stands => HooksThrow
  BY <1>1 DEF MatchIsAt
<1>5. ViewLeaves(p)
  <2>1. DetachNobody \/ Detach
    BY ScriptedCalls DEF Call
  <2>2. PICK q \in Player : This = Call("detach", None, q) /\ ViewLeaves(q)
    BY <2>1, DetachView
  <2>3. q = p
    BY <1>1, <2>2, CallsDiffer
  <2> QED
    BY <2>2, <2>3
<1>6. SeatLeft(L, C, p) # r
  BY <1>2, NoneIsNoId DEF SeatLeft, WasSound
<1>7. /\ \E D \in SUBSET Room : HaveLeftFor(S, r, L \cup {p}, D)'
      /\ StateThen'[r] = StateThen[r]
  BY <1>2, <1>3, <1>4, <1>5, <1>6, LeavesAfterOthers
<1>8. PICK D \in SUBSET Room : HaveLeftFor(S, r, L \cup {p}, D)'
  BY <1>7
<1>9. MatchIsAt(group, r, 2 * j, stands, D)'
  BY <1>2, <1>4, <1>7, <1>8 DEF MatchIsAt, Taken, Offered, HaveLeftFor
<1> QED
  BY <1>9

\* The next of the group takes its seat, if there is one.
LEMMA GroupSits ==
  ASSUME IInv, DestroyRoomFirst, WasSound, Step, was' = was,
         NEW group \in Groups, IsInjective(group), NEW r \in Room, was.state[r] = "none",
         NEW j \in 1..Len(group), NEW stands \in BOOLEAN, NEW C \in SUBSET Room,
         MatchIsAt(group, r, 2 * j, stands, C), This = Call("addPlayer", r, group[j])
  PROVE  \E still \in BOOLEAN : MatchIsAt(group, r, 2 * j + 1, still, C)'
<1>1. PICK p, L, S : /\ p = group[j] /\ L = Taken(group, 2 * j)
                     /\ S = IF stands THEN Offered(group, r, 2 * j) ELSE {}
  OBVIOUS
<1>2. /\ p \in Player /\ p \notin S /\ p \in L /\ Taken(group, 2 * j + 1) = L
      /\ Offered(group, r, 2 * j + 1) =
           Offered(group, r, 2 * j) \cup (IF j <= Capacity[r] THEN {p} ELSE {})
      /\ Cardinality(Offered(group, r, 2 * j)) < Capacity[r] <=> j <= Capacity[r]
  BY <1>1, GroupGrows
<1>3. L \in SUBSET Player /\ S \in SUBSET L
  <2>1. /\ \A i \in DOMAIN group : i \in Nat /\ group[i] \in Player
        /\ \A i \in DOMAIN group : 2 * i + 1 <= 2 * j => 2 * i <= 2 * j
    BY MatchScriptIs
  <2> QED
    BY <1>1, <2>1 DEF Taken, Offered
<1>4. /\ MayCrash(L, C)
      /\ \A q \in Player : SeatThen[q] = IF q \in S THEN r ELSE SeatLeft(L, C, q)
      /\ \A y \in Room \ {r} : StateThen[y] = StateLeft(L, C, y)
      /\ StateThen[r] = "active" <=> stands
      /\ ~stands => HooksThrow
  BY <1>1 DEF MatchIsAt, HaveLeftFor
<1>5. \/ ~Free(r) /\ ViewStays
      \/ Free(r) /\ ViewSeats(p, r)
      \/ Free(r) /\ HooksThrow /\ ViewFails(p, r)
  <2>1. PICK q \in Player, x \in Room :
          /\ This = Call("addPlayer", x, q)
          /\ \/ ~Free(x) /\ ViewStays
             \/ Free(x) /\ ViewSeats(q, x)
             \/ Free(x) /\ HooksThrow /\ ViewFails(q, x)
    <3>1. AddPlayerRefused \/ AddPlayer
      BY ScriptedCalls DEF Call
    <3> QED
      BY <3>1, AddPlayerView
  <2>2. q = p /\ x = r
    BY <1>1, <2>1, CallsDiffer
  <2> QED
    BY <2>1, <2>2
<1>6. \A q \in Player : SeatLeft(L, C, q) # r
  BY NoneIsNoId DEF SeatLeft, WasSound
<1>7. \A q \in Player : SeatThen[q] = r <=> q \in S
  BY <1>4, <1>6
<1>8. Free(r) <=> stands /\ j <= Capacity[r]
  <2>1. {q \in Player : SeatThen[q] = r} = S
    BY <1>3, <1>7
  <2> QED
    BY <1>1, <1>2, <1>4, <2>1 DEF Free
<1>9. /\ \A q : SeatLeft(L, C, q)' = SeatLeft(L, C, q)
      /\ \A y : StateLeft(L, C, y)' = StateLeft(L, C, y)
      /\ MayCrash(L, C)' <=> MayCrash(L, C)
      /\ Taken(group, 2 * j + 1)' = L
      /\ Offered(group, r, 2 * j + 1)' = Offered(group, r, 2 * j + 1)
  BY <1>2 DEF SeatLeft, StateLeft, MayCrash, Vacated, Taken, Offered
<1>10. CASE ~Free(r) /\ ViewStays
  <2>1. S = IF stands THEN Offered(group, r, 2 * j + 1) ELSE {}
    BY <1>1, <1>2, <1>8, <1>10
  <2>2. HaveLeftFor(S, r, L, C)'
    BY <1>4, <1>9, <1>10 DEF HaveLeftFor, ViewStays
  <2>3. MatchIsAt(group, r, 2 * j + 1, stands, C)'
    BY <1>4, <1>9, <1>10, <2>1, <2>2 DEF MatchIsAt, ViewStays, HaveLeftFor
  <2> QED
    BY <2>3
<1>11. CASE Free(r) /\ ViewSeats(p, r)
  <2>1. S \cup {p} = Offered(group, r, 2 * j + 1) /\ stands
    BY <1>1, <1>2, <1>8, <1>11
  <2>2. HaveLeftFor(S \cup {p}, r, L, C)'
    BY <1>4, <1>9, <1>11 DEF HaveLeftFor, ViewSeats
  <2>3. MatchIsAt(group, r, 2 * j + 1, TRUE, C)'
    BY <1>4, <1>9, <1>11, <2>1, <2>2 DEF MatchIsAt, ViewSeats, HaveLeftFor
  <2> QED
    BY <2>3
<1>12. CASE Free(r) /\ HooksThrow /\ ViewFails(p, r)
  <2>1. \A q \in Player : SeatThen'[q] = SeatLeft(L, C, q)
    <3>1. \A q \in Player : q \in S \cup {p} => SeatLeft(L, C, q) = None
      BY <1>2, <1>3 DEF SeatLeft
    <3> QED
      BY <1>4, <1>7, <1>12, <3>1 DEF ViewFails
  <2>2. /\ \A y \in Room \ {r} : StateThen'[y] = StateLeft(L, C, y)
        /\ StateThen'[r] = "destroyed"
    BY <1>4, <1>12 DEF ViewFails
  <2>3. HaveLeftFor({}, r, L, C)'
    BY <1>4, <1>9, <2>1, <2>2 DEF HaveLeftFor
  <2>4. MatchIsAt(group, r, 2 * j + 1, FALSE, C)'
    BY <1>9, <1>12, <2>2, <2>3 DEF MatchIsAt, HaveLeftFor
  <2> QED
    BY <2>4
<1> QED
  BY <1>5, <1>10, <1>11, <1>12

\* The room of a match is started, or removed if nobody is in it.
LEMMA GroupStarts ==
  ASSUME IInv, DestroyRoomFirst, WasSound, Step, was' = was,
         NEW group \in Groups, IsInjective(group), NEW r \in Room, was.state[r] = "none",
         NEW stands \in BOOLEAN, NEW C \in SUBSET Room,
         MatchIsAt(group, r, 2 * Len(group) + 1, stands, C), This = Call("start", r, None)
  PROVE  IsWhole'
<1>1. PICK L, S : /\ L = Taken(group, 2 * Len(group) + 1)
                  /\ S = IF stands THEN Offered(group, r, 2 * Len(group) + 1) ELSE {}
  OBVIOUS
<1>2. /\ MayCrash(L, C)
      /\ \A q \in Player : SeatThen[q] = IF q \in S THEN r ELSE SeatLeft(L, C, q)
      /\ \A y \in Room \ {r} : StateThen[y] = StateLeft(L, C, y)
      /\ StateThen[r] = "active" <=> stands
      /\ ~stands => HooksThrow
  BY <1>1 DEF MatchIsAt, HaveLeftFor
<1>3. L \in SUBSET Player /\ S \in SUBSET Player /\ Seating(L, S, r)
  BY <1>1, <1>2, GroupIsSeated DEF Seating
<1>4. /\ \A p \in Player : SeatThen'[p] = SeatThen[p]
      /\ \A y \in Room : StateThen'[y] = IF y = r /\ (\A p \in Player : SeatThen[p] # r)
                                         THEN "none" ELSE StateThen[y]
  <2>1. StartRoom
    BY ScriptedCalls DEF Call
  <2>2. PICK x \in Room :
          /\ This = Call("start", x, None)
          /\ \A p \in Player : SeatThen'[p] = SeatThen[p]
          /\ \A y \in Room : StateThen'[y] = IF y = x /\ (\A p \in Player : SeatThen[p] # x)
                                             THEN "none" ELSE StateThen[y]
    BY <2>1, StartRoomView
  <2>3. x = r
    BY <2>2, CallsDiffer
  <2> QED
    BY <2>2, <2>3
<1>5. \A q \in Player : SeatLeft(L, C, q) # r
  BY NoneIsNoId DEF SeatLeft, WasSound
<1>6. (\A p \in Player : SeatThen[p] # r) <=> S = {}
  BY <1>2, <1>3, <1>5
<1>7. S # {} => stands
  BY <1>1
<1>8. \A y \in Room : StateThen'[y] = IF y = r THEN (IF S = {} THEN "none" ELSE "active")
                                      ELSE StateLeft(L, C, y)
  BY <1>2, <1>4, <1>6, <1>7
<1>9. /\ \A q : SeatLeft(L, C, q)' = SeatLeft(L, C, q)
      /\ \A y : StateLeft(L, C, y)' = StateLeft(L, C, y)
      /\ MayCrash(L, C)' <=> MayCrash(L, C)
  BY DEF SeatLeft, StateLeft, MayCrash, Vacated
<1>10. HasFormed(L, S, r)'
  BY <1>2, <1>4, <1>8, <1>9 DEF HasFormed
<1>11. Seating(L, S, r)'
  BY <1>3 DEF Seating
<1> QED
  BY <1>3, <1>10, <1>11 DEF IsWhole

LEMMA FormingGoesOn ==
  ASSUME IInv, DestroyRoomFirst, WasSound, Step, was' = was, This.call \notin Made, Forming
  PROVE  Underway'
<1>1. PICK group \in Groups, r \in Room :
        \E d \in 1..(2 * Len(group) + 1), stands \in BOOLEAN, C \in SUBSET Room :
          /\ IsInjective(group)
          /\ was.state[r] = "none"
          /\ ToMake(MatchScript(group, r), 2 * Len(group) + 2 - d)
          /\ MatchIsAt(group, r, d, stands, C)
  BY DEF Forming
<1>2. PICK d \in 1..(2 * Len(group) + 1), stands \in BOOLEAN, C \in SUBSET Room :
          /\ IsInjective(group)
          /\ was.state[r] = "none"
          /\ ToMake(MatchScript(group, r), 2 * Len(group) + 2 - d)
          /\ MatchIsAt(group, r, d, stands, C)
  BY <1>1
<1>3. PICK n, script : n = Len(group) /\ script = MatchScript(group, r)
  OBVIOUS
<1>4. /\ n \in Nat /\ Len(script) = 2 * n + 2
      /\ script[2 * n + 2] = Call("start", r, None)
      /\ \A j \in 1..n : /\ script[2 * j] = Call("detach", None, group[j])
                         /\ script[2 * j + 1] = Call("addPlayer", r, group[j])
      /\ d \in 1..(2 * n + 1)
      /\ ToMake(script, 2 * n + 2 - d)
  BY <1>2, <1>3, MatchScriptIs
<1>5. This = script[d + 1] /\ ToMake(script, 2 * n + 2 - (d + 1))'
  <2>1. PICK m : m = 2 * n + 2 - d
    OBVIOUS
  <2>2. This = script[Len(script) - m + 1] /\ ToMake(script, m - 1)'
    BY <1>4, <2>1, NextOfScript
  <2>3. Len(script) - m + 1 = d + 1 /\ m - 1 = 2 * n + 2 - (d + 1)
    BY <1>4, <2>1
  <2> QED
    BY <2>2, <2>3
<1>6. ASSUME d + 1 \in 1..(2 * n + 1), NEW still \in BOOLEAN, NEW D \in SUBSET Room,
             MatchIsAt(group, r, d + 1, still, D)'
      PROVE  Underway'
  <2>1. d + 1 \in 1..(2 * Len(group) + 1)
    BY <1>3, <1>6
  <2>2. ToMake(MatchScript(group, r), 2 * Len(group) + 2 - (d + 1))'
    BY <1>3, <1>5 DEF ToMake
  <2>3. was'.state[r] = "none"
    BY <1>2
  <2> QED
    BY <1>2, <1>6, <2>1, <2>2, <2>3 DEF Forming, Underway
<1>7. \/ d = 2 * n + 1
      \/ \E j \in 1..n : d = 2 * j - 1 \/ d = 2 * j
  <2>1. PICK j \in Int : d = 2 * j - 1 \/ d = 2 * j
    <3>1. d \in Int /\ (d + 1) \div 2 \in Int
      BY <1>4
    <3>2. d = 2 * ((d + 1) \div 2) - 1 \/ d = 2 * ((d + 1) \div 2)
      BY <3>1
    <3> QED
      BY <3>1, <3>2
  <2>2. d # 2 * n + 1 => j \in 1..n
    BY <1>4, <2>1
  <2> QED
    BY <2>1, <2>2
<1>8. CASE d = 2 * n + 1
  <2>1. This = Call("start", r, None) /\ ToMake(script, 0)'
    BY <1>4, <1>5, <1>8
  <2>2. IsWhole'
    BY <1>2, <1>3, <1>8, <2>1, GroupStarts
  <2> QED
    BY <2>1, <2>2, ScriptIsOver
<1>9. ASSUME NEW j \in 1..n, d = 2 * j - 1
      PROVE  Underway'
  <2>1. d + 1 = 2 * j /\ d + 1 \in 1..(2 * n + 1)
    BY <1>4, <1>9
  <2>2. This = Call("detach", None, group[j])
    BY <1>4, <1>5, <2>1
  <2>3. PICK D \in SUBSET Room : MatchIsAt(group, r, 2 * j, stands, D)'
    BY <1>2, <1>3, <1>9, <2>2, GroupLeaves
  <2> QED
    BY <1>6, <2>1, <2>3
<1>10. ASSUME NEW j \in 1..n, d = 2 * j
       PROVE  Underway'
  <2>1. d + 1 = 2 * j + 1 /\ d + 1 \in 1..(2 * n + 1)
    BY <1>4, <1>10
  <2>2. This = Call("addPlayer", r, group[j])
    BY <1>4, <1>5, <2>1
  <2>3. PICK still \in BOOLEAN : MatchIsAt(group, r, 2 * j + 1, still, C)'
    BY <1>2, <1>3, <1>10, <2>2, GroupSits
  <2> QED
    BY <1>6, <2>1, <2>3
<1> QED
  BY <1>7, <1>8, <1>9, <1>10

\* A call of a handler that is under way: the handler goes on, and what it has
\* found stays what it was.
LEMMA StepGoesOn ==
  ASSUME IInv, DestroyRoomFirst, WasSound, Underway, Step, was' = was
  PROVE  Underway' /\ DestroyRoomFirst' /\ WasSound'
<1>1. todo \in Seq(Calls) /\ todo # << >>
  BY StepReplaces
<1>2. PICK new : Replaces(new)
  BY StepReplaces
<1>3. DestroyRoomFirst'
  BY <1>1, <1>2, PendingReplaced
<1>4. WasSound'
  BY DEF WasSound
<1>5. CASE This.call \in Made
  <2>1. SeatThen' = SeatThen /\ StateThen' = StateThen
    BY <1>5, MadeView
  <2> QED
    BY <1>1, <1>2, <1>3, <1>4, <1>5, <2>1, MadeGoesOn
<1>6. CASE This.call \notin Made
  <2>1. ~Over
    <3> SUFFICES ASSUME ToMake(<< >>, 0) PROVE FALSE
      BY DEF Over
    <3>1. PICK script : script = << >>
      OBVIOUS
    <3>2. ToMake(script, 0)
      BY <3>1
    <3>3. 0 \in 1..Len(script)
      BY <1>6, <3>2, NextOfScript
    <3> QED
      BY <3>3
  <2> QED
    BY <1>3, <1>4, <1>6, <2>1, LeaveGoesOn, MoveGoesOn, JoinGoesOn, FormGoesOn, FormingGoesOn
       DEF Underway
<1> QED
  BY <1>5, <1>6
-------------------------------------------------------------------------------
(* How a handler begins.                                                   *)

\* The rooms between two handlers.
LEMMA BetweenHandlers ==
  ASSUME IInv, todo = << >>
  PROVE  /\ RoomsNow.seat = playerRoom
         /\ RoomsNow.members = members
         /\ \A q \in Room : RoomsNow.state[q] = IF q \notin managed THEN "none"
                                                ELSE IF state[q] = "active" THEN "active" ELSE "destroyed"
         /\ \A q \in Room : RoomsNow.key[q] = IF q \in managed THEN q ELSE None
         /\ \A q \in Room : /\ members[q] = {p \in Player : playerRoom[p] = q}
                            /\ state[q] = "active" => q \in managed
         /\ \A p \in Player : playerRoom[p] # None =>
              playerRoom[p] \in Room /\ state[playerRoom[p]] = "active"
         /\ playerRoom \in [Player -> Room \cup {None}]
         /\ was' = RoomsNow => WasSound'
<1>1. /\ RoomsNow.seat = playerRoom /\ RoomsNow.members = members
      /\ RoomsNow.state = [q \in Room |-> IF q \notin managed THEN "none"
                                          ELSE IF state[q] = "active" THEN "active" ELSE "destroyed"]
      /\ RoomsNow.key = [q \in Room |-> IF q \in managed THEN q ELSE None]
  BY DEF RoomsNow
<1>2. \A q \in Room : /\ members[q] = {p \in Player : playerRoom[p] = q}
                      /\ state[q] = "active" => q \in managed
  BY SeatsAreMembers, InvParts DEF OpenIsManaged
<1>3. /\ playerRoom \in [Player -> Room \cup {None}]
      /\ members \in [Room -> SUBSET Player]
  BY InvParts DEF StateTypes
<1>4. \A p \in Player : playerRoom[p] # None =>
        playerRoom[p] \in Room /\ state[playerRoom[p]] = "active"
  BY <1>3, SeatedInOpenRoom
<1>5. members = [q \in Room |-> {p \in Player : playerRoom[p] = q}]
  BY <1>2, <1>3
<1>6. ASSUME was' = RoomsNow
      PROVE  WasSound'
  <2>1. /\ was'.seat = playerRoom /\ was'.members = members
        /\ was'.state = [q \in Room |-> IF q \notin managed THEN "none"
                                        ELSE IF state[q] = "active" THEN "active" ELSE "destroyed"]
        /\ was'.key = [q \in Room |-> IF q \in managed THEN q ELSE None]
    BY <1>1, <1>6
  <2>2. was'.key = [r \in Room |-> IF was'.state[r] = "none" THEN None ELSE r]
    BY <2>1
  <2>3. \A p \in Player : was'.seat[p] # None => was'.state[was'.seat[p]] = "active"
    BY <1>2, <1>4, <2>1
  <2>4. was'.state \in [Room -> {"none", "active", "destroyed"}]
    BY <2>1
  <2> QED
    BY <1>3, <1>5, <2>1, <2>2, <2>3, <2>4 DEF WasSound
<1> QED
  BY <1>1, <1>2, <1>3, <1>4, <1>6

\* A handler begins with a script.
LEMMA ScriptBegins ==
  ASSUME IInv, todo = << >>, was' = RoomsNow, UNCHANGED <<playerRoom, state, managed>>,
         NEW script \in Seq(Calls), todo' = script,
         \A i \in 1..Len(script) : script[i].call \in Scripted
  PROVE  HaveStayed' /\ DestroyRoomFirst' /\ ToMake(script, Len(script))'
<1>1. Len(script) \in Nat /\ DOMAIN script = 1..Len(script)
  OBVIOUS
<1>2. \A c \in Pending' : c.call \in Scripted
  BY <1>1 DEF Pending
<1>3. \A n \in Made : \A q : ~Has(n, q)'
  BY <1>2 DEF Has, Call, Made, Scripted
<1>4. /\ \A p \in Player : SeatThen'[p] = playerRoom'[p]
      /\ \A q \in Room : StateThen'[q] = IF q \notin managed' THEN "none"
                                         ELSE IF state'[q] = "active" THEN "active" ELSE "destroyed"
  BY <1>3, ViewIsNowNext
<1>5. HaveStayed'
  BY <1>4, BetweenHandlers DEF HaveStayed
<1>6. DestroyRoomFirst'
  <2>1. Later' = {script[i] : i \in 2..Len(script)}
    BY DEF Later
  <2>2. \A i \in 2..Len(script) : i \in 1..Len(script)
    BY <1>1
  <2> QED
    BY <2>1, <2>2 DEF DestroyRoomFirst, Scripted
<1>7. ToMake(script, Len(script))'
  <2>1. Len(script) \in 0..Len(script) /\ Len(script) <= Len(script)
        /\ Len(script) - Len(script) = 0 /\ 1..0 = {}
        /\ \A i \in 1..Len(script) : Len(script) - Len(script) + i = i
    BY <1>1
  <2> QED
    BY <2>1 DEF ToMake
<1> QED
  BY <1>5, <1>6, <1>7

\* A handler begins with the end of a room.
LEMMA BreakBegins ==
  ASSUME IInv, todo = << >>, was' = RoomsNow, UNCHANGED <<playerRoom, state, managed>>,
         NEW r \in Room, state[r] = "active", HooksThrow, NEW n,
         n = "destroy" \/ (n = "destroyRoom" /\ r \in Realtime),
         todo' = <<Call(n, r, None)>>
  PROVE  DestroyRoomFirst' /\ Underway'
<1>1. Len(todo') = 1 /\ DOMAIN todo' = {1} /\ todo'[1] = Call(n, r, None) /\ 2..1 = {}
  OBVIOUS
<1>2. Pending' = {Call(n, r, None)} /\ Later' = {}
  BY <1>1 DEF Pending, Later
<1>3. \A m : \A q : Has(m, q)' <=> m = n /\ q = r
  BY <1>2, CallsDiffer DEF Has
<1>4. \A q : Going(q)' <=> q = r
  BY <1>3 DEF Going, Falls
<1>5. \A q \in Room : Lost(q)' <=> q \notin managed \/ (n = "destroyRoom" /\ q = r)
  BY <1>3 DEF Lost
<1>6. /\ was'.seat = playerRoom
      /\ \A q \in Room : was'.state[q] = IF q \notin managed THEN "none"
                                         ELSE IF state[q] = "active" THEN "active" ELSE "destroyed"
      /\ r \in managed
  BY BetweenHandlers
<1>7. \A p \in Player : SeatThen'[p] = IF was'.seat[p] = r THEN None ELSE was'.seat[p]
  BY <1>4, <1>6 DEF SeatThen
<1>8. PICK kept \in BOOLEAN : kept <=> n = "destroy"
  OBVIOUS
<1>9. \A q \in Room : StateThen'[q] = IF q = r THEN (IF kept THEN "destroyed" ELSE "none")
                                      ELSE was'.state[q]
  BY <1>4, <1>5, <1>6, <1>8 DEF StateThen
<1>10. HasBroken(r, kept)'
  BY <1>6, <1>7, <1>8, <1>9 DEF HasBroken
<1>11. IsWhole'
  BY <1>10 DEF IsWhole
<1>12. ToMake(<< >>, 0)'
  BY <1>1 DEF ToMake, Made, Call
<1> QED
  BY <1>2, <1>11, <1>12 DEF DestroyRoomFirst, Over, Underway

LEMMA LeaveBegins ==
  ASSUME IInv, was' = RoomsNow, NEW p \in Player, Leave(p), todo = << >>
  PROVE  DestroyRoomFirst' /\ Underway'
<1>1. PICK script : script = <<Call("detach", None, p)>>
  OBVIOUS
<1>2. /\ todo' = script /\ UNCHANGED <<playerRoom, state, managed>>
  BY <1>1 DEF Leave, Runs, seatVars, roomVars
<1>3. /\ script \in Seq(Calls) /\ Len(script) = 1
      /\ \A i \in 1..Len(script) : script[i].call \in Scripted
  BY <1>1, CallIsCall DEF Call, Scripted
<1>4. HaveStayed' /\ DestroyRoomFirst' /\ ToMake(script, 1)'
  BY <1>2, <1>3, ScriptBegins
<1> QED
  BY <1>1, <1>4 DEF ToLeave, Underway, ToMake

LEMMA JoinBegins ==
  ASSUME IInv, was' = RoomsNow, NEW p \in Player, NEW r \in Room, Join(p, r), todo = << >>
  PROVE  DestroyRoomFirst' /\ Underway'
<1>1. /\ r \in managed /\ todo' = JoinCalls(p, r)
      /\ UNCHANGED <<playerRoom, state, managed>>
  BY DEF Join, Runs, seatVars, roomVars
<1>2. /\ was'.seat = playerRoom /\ was'.state[r] # "none"
  BY <1>1, BetweenHandlers
<1>3. CASE playerRoom[p] \in {None, r}
  <2>1. PICK script : script = <<Call("addPlayer", r, p)>>
    OBVIOUS
  <2>2. /\ script \in Seq(Calls) /\ Len(script) = 1
        /\ \A i \in 1..Len(script) : script[i].call \in Scripted
    BY <2>1, CallIsCall DEF Call, Scripted
  <2>3. todo' = script
    BY <1>1, <1>3, <2>1, <2>2 DEF JoinCalls
  <2>4. HaveStayed' /\ DestroyRoomFirst' /\ ToMake(script, 1)'
    BY <1>1, <2>2, <2>3, ScriptBegins
  <2>5. Leaving(p, r)' = {}
    BY <1>2, <1>3 DEF Leaving
  <2>6. HaveLeft({}, {})'
    BY <2>4 DEF HaveStayed, HaveLeft, MayCrash, SeatLeft, StateLeft, Vacated
  <2>7. HaveLeft(Leaving(p, r), {})'
    BY <2>5, <2>6 DEF HaveLeft, MayCrash, SeatLeft, StateLeft, Vacated
  <2>8. ToMake(<<Call("addPlayer", r, p)>>, 1)'
    BY <2>1, <2>4 DEF ToMake
  <2> QED
    BY <1>2, <2>4, <2>7, <2>8 DEF ToJoin, Underway
<1>4. CASE playerRoom[p] \notin {None, r}
  <2>1. PICK c \in Calls, d \in Calls :
          c = Call("detach", None, p) /\ d = Call("addPlayer", r, p)
    BY CallIsCall
  <2>2. PICK script : script = <<c>> \o <<d>>
    OBVIOUS
  <2>3. todo' = script
    BY <1>1, <1>4, <2>1, <2>2 DEF JoinCalls
  <2>4. script \in Seq(Calls) /\ Len(script) = 2 /\ script[1] = c /\ script[2] = d
    BY <2>2
  <2>5. \A i \in 1..Len(script) : script[i].call \in Scripted
    BY <2>1, <2>4 DEF Call, Scripted
  <2>6. HaveStayed' /\ DestroyRoomFirst' /\ ToMake(script, 2)'
    BY <1>1, <2>3, <2>4, <2>5, ScriptBegins
  <2>7. ToMake(<<Call("detach", None, p), Call("addPlayer", r, p)>>, 2)'
    <3>1. PICK both : both = <<c, d>>
      OBVIOUS
    <3>2. Len(both) = 2 /\ both[1] = c /\ both[2] = d
      BY <3>1
    <3>3. \A i \in 1..2 : script[2 - 2 + i] = both[2 - 2 + i]
      BY <2>4, <3>2
    <3>4. ToMake(both, 2)'
      BY <2>4, <2>6, <3>2, <3>3 DEF ToMake
    <3> QED
      BY <2>1, <3>1, <3>4 DEF ToMake
  <2> QED
    BY <1>2, <1>4, <2>6, <2>7 DEF ToMove, Underway
<1> QED
  BY <1>3, <1>4

LEMMA MatchBegins ==
  ASSUME IInv, was' = RoomsNow, NEW group \in Groups, NEW r \in Room, IsInjective(group),
         Match(group, r), todo = << >>
  PROVE  DestroyRoomFirst' /\ Underway'
<1>1. PICK n, script : n = Len(group) /\ script = MatchScript(group, r)
  OBVIOUS
<1>2. /\ r \notin managed /\ todo' = script
      /\ UNCHANGED <<playerRoom, state, managed>>
  BY <1>1 DEF Match, Runs, seatVars, roomVars, MatchScript
<1>3. /\ script \in Seq(Calls) /\ Len(script) = 2 * n + 2
      /\ \A i \in 1..Len(script) : script[i].call \in Scripted
  BY <1>1, MatchScriptIs
<1>4. HaveStayed' /\ DestroyRoomFirst' /\ ToMake(script, 2 * n + 2)'
  BY <1>2, <1>3, ScriptBegins
<1>5. was'.state[r] = "none"
  BY <1>2, BetweenHandlers
<1>6. ToMake(MatchScript(group, r), 2 * Len(group) + 2)'
  BY <1>1, <1>4 DEF ToMake
<1> QED
  BY <1>4, <1>5, <1>6 DEF ToForm, Underway

LEMMA ClearBegins ==
  ASSUME IInv, was' = RoomsNow, Clear, todo = << >>
  PROVE  DestroyRoomFirst' /\ Underway'
<1>1. /\ TodoInv'
      /\ \A c \in Pending' : c.call \in {"destroy", "delete"}
      /\ \A q : Call("delete", q, None) \in Pending' => Call("destroy", q, None) \in Pending'
      /\ \A q \in managed : Call("delete", q, None) \in Pending'
      /\ UNCHANGED <<playerRoom, state, managed>>
  BY ClearCalls DEF Clear, Runs, seatVars, roomVars
<1>2. \A q \in managed : Has("delete", q)' /\ Going(q)'
  BY <1>1 DEF Has, Going, Falls
<1>3. \A p \in Player : SeatThen'[p] = None
  <2>1. \A p \in Player : playerRoom[p] # None => playerRoom[p] \in managed
    BY BetweenHandlers
  <2> QED
    BY <1>1, <1>2, <2>1 DEF SeatThen
<1>4. \A q \in Room : StateThen'[q] = "none"
  BY <1>1, <1>2 DEF StateThen, Lost
<1>5. IsWhole'
  BY <1>3, <1>4 DEF IsWhole, HasCleared
<1>6. /\ todo' \in Seq(Calls) /\ DOMAIN todo' = 1..Len(todo') /\ Len(todo') \in Nat
      /\ \A i \in 1..Len(todo') : todo'[i].call \in {"destroy", "delete"}
  <2>1. todo' \in Seq(Calls)
    BY <1>1 DEF TodoInv
  <2>2. DOMAIN todo' = 1..Len(todo') /\ Len(todo') \in Nat
    BY <2>1
  <2> QED
    BY <1>1, <2>1, <2>2 DEF Pending
<1>7. ToMake(<< >>, 0)'
  BY <1>6 DEF ToMake, Made
<1>8. DestroyRoomFirst'
  <2>1. \A i \in 2..Len(todo') : i \in 1..Len(todo')
    BY <1>6
  <2> QED
    BY <1>6, <2>1 DEF DestroyRoomFirst, Later
<1> QED
  BY <1>5, <1>7, <1>8 DEF Over, Underway

\* Between two handlers, or when nothing is to be done.
LEMMA NothingBegins ==
  ASSUME todo' = << >>
  PROVE  DestroyRoomFirst' /\ (todo # << >> => Underway)'
<1>1. Later' = {}
  <2>1. Len(todo') = 0 /\ 2..0 = {}
    OBVIOUS
  <2> QED
    BY <2>1 DEF Later
<1> QED
  BY <1>1 DEF DestroyRoomFirst
-------------------------------------------------------------------------------
(* The invariant.                                                          *)

LEMMA HandlersInitEstablishes ==
  ASSUME HandlersInit
  PROVE  HInv
<1>1. /\ state = [r \in Room |-> "none"] /\ managed = {} /\ members = [r \in Room |-> {}]
      /\ playerRoom = [p \in Player |-> None] /\ todo = << >> /\ was = RoomsNow
      /\ Init
  BY DEF HandlersInit, Init
<1>2. /\ was.seat = [p \in Player |-> None] /\ was.members = [r \in Room |-> {}]
      /\ was.state = [r \in Room |-> "none"] /\ was.key = [r \in Room |-> None]
  BY <1>1 DEF RoomsNow
<1>3. WasSound
  BY <1>2, NoneIsNoId DEF WasSound
<1>4. DestroyRoomFirst
  <2>1. Len(todo) = 0 /\ 2..0 = {}
    BY <1>1
  <2> QED
    BY <2>1 DEF DestroyRoomFirst, Later
<1> QED
  BY <1>1, <1>3, <1>4, InitEstablishes DEF HInv

LEMMA HandlerBeginsSound ==
  ASSUME IInv, todo = << >>, Next, was' = RoomsNow
  PROVE  DestroyRoomFirst' /\ WasSound' /\ (todo # << >> => Underway)'
<1>1. WasSound'
  BY BetweenHandlers
<1>2. ~Step
  BY ScriptedCalls
<1>3. ASSUME NEW p \in Player, Message(p)
      PROVE  DestroyRoomFirst' /\ (todo # << >> => Underway)'
  <2>1. PICK r : r = playerRoom[p]
    OBVIOUS
  <2>2. /\ r \in Realtime /\ UNCHANGED <<playerRoom, state, managed>>
        /\ \/ todo' = << >>
           \/ HooksThrow /\ todo' = <<Call("destroyRoom", r, None)>>
    BY <1>3, <2>1 DEF Message, seatVars, roomVars, MayFail
  <2>3. r \in Room /\ state[r] = "active"
    BY <2>1, <2>2, KindAssumption, SeatedInOpenRoom
  <2> QED
    BY <2>2, <2>3, BreakBegins, NothingBegins
<1>4. ASSUME NEW p \in Player, TurnMessage(p)
      PROVE  DestroyRoomFirst' /\ (todo # << >> => Underway)'
  <2>1. PICK r : r = playerRoom[p]
    OBVIOUS
  <2>2. /\ r \in Room /\ UNCHANGED <<playerRoom, state, managed>>
        /\ \/ todo' = << >>
           \/ HooksThrow /\ todo' = <<Call("destroy", r, None)>>
    BY <1>4, <2>1 DEF TurnMessage, seatVars, roomVars, MayFail
  <2>3. state[r] = "active"
    BY <2>1, <2>2, SeatedInOpenRoom
  <2> QED
    BY <2>2, <2>3, BreakBegins, NothingBegins
<1>5. ASSUME NEW r \in Room, TickThrows(r)
      PROVE  DestroyRoomFirst' /\ Underway'
  <2>1. /\ HooksThrow /\ state[r] = "active" /\ UNCHANGED <<playerRoom, state, managed>>
        /\ todo' = <<Call("destroy", r, None)>>
    BY <1>5 DEF TickThrows, Runs, seatVars, roomVars, MayFail
  <2> QED
    BY <2>1, BreakBegins
<1>6. ASSUME NEW r \in Room, CreateSettles(r)
      PROVE  DestroyRoomFirst' /\ (todo # << >> => Underway)'
  <2>1. todo' = << >>
    BY <1>6 DEF CreateSettles
  <2> QED
    BY <2>1, NothingBegins
<1> QED
  BY <1>1, <1>2, <1>3, <1>4, <1>5, <1>6, LeaveBegins, JoinBegins, MatchBegins, ClearBegins DEF Next

\* While a handler is under way, nothing else happens.
LEMMA OnlySteps ==
  ASSUME Next, todo # << >>
  PROVE  Step
BY DEF Next, Leave, Message, TurnMessage, Join, TickThrows, CreateSettles, Match, Clear, Runs

LEMMA HandlersKeep ==
  ASSUME HInv, [HandlersNext]_<<vars, was>>
  PROVE  HInv'
<1>1. CASE HandlersNext /\ todo # << >>
  <2>1. Step /\ was' = was /\ Underway
    BY <1>1, OnlySteps DEF HandlersNext, Seen, HInv
  <2>2. IInv'
    BY <1>1, StepKeeps DEF HandlersNext, HInv
  <2> QED
    BY <2>1, <2>2, StepGoesOn DEF HInv
<1>2. CASE HandlersNext /\ todo = << >>
  <2>1. Next /\ was' = RoomsNow
    BY <1>2 DEF HandlersNext, Seen
  <2>2. IInv'
    BY <2>1, StepKeeps DEF HInv
  <2> QED
    BY <1>2, <2>1, <2>2, HandlerBeginsSound DEF HInv
<1>3. CASE UNCHANGED <<vars, was>>
  <2>1. IInv'
    BY <1>3, StepKeeps DEF HInv
  <2>2. todo' = todo /\ was' = was /\ playerRoom' = playerRoom /\ state' = state
        /\ managed' = managed
    BY <1>3 DEF vars, seatVars, roomVars
  <2>3. DestroyRoomFirst'
    BY <2>2 DEF HInv, DestroyRoomFirst, Later
  <2>4. WasSound'
    BY <2>2 DEF HInv, WasSound
  <2>5. todo' # << >> => Underway'
    <3>1. \A n : \A q : Has(n, q)' <=> Has(n, q)
      BY <2>2 DEF Has, Pending
    <3>2. SeatThen' = SeatThen
      BY <2>2, <3>1 DEF SeatThen, Going
    <3>3. StateThen' = StateThen
      BY <2>2, <3>1, <3>2 DEF StateThen, Lost, Going
    <3>4. ScriptsWait
      BY <2>2 DEF ScriptsWait, ToMake
    <3> QED
      BY <2>2, <3>2, <3>3, <3>4, UnderwayStays DEF HInv
  <2> QED
    BY <2>1, <2>3, <2>4, <2>5 DEF HInv
<1> QED
  BY <1>1, <1>2, <1>3 DEF HandlersNext

\* HInv is an invariant of the handlers: however a handler's calls and the hooks
\* in them come out, it is always a given number of the calls of its script away
\* from a step of Rooms.
THEOREM HandlersOnTheirWay == HandlersSpec => []HInv
<1>1. HandlersInit => HInv
  BY HandlersInitEstablishes
<1>2. HInv /\ [HandlersNext]_<<vars, was>> => HInv'
  BY HandlersKeep
<1> QED
  BY <1>1, <1>2, PTL DEF HandlersSpec
-------------------------------------------------------------------------------
(* The end of a handler.                                                   *)

AtRest == todo = << >>

\* What can be seen between two handlers is what has been in view.
Sees ==
  /\ Seen.seat = [p \in Player |-> SeatThen[p]]
  /\ Seen.members = [x \in Room |-> {p \in Player : SeatThen[p] = x}]
  /\ Seen.state = [x \in Room |-> StateThen[x]]
  /\ Seen.key = [x \in Room |-> IF StateThen[x] = "none" THEN None ELSE x]

LEMMA RestIsSeen == IInv /\ AtRest => Sees
<1> SUFFICES ASSUME IInv, todo = << >> PROVE Sees
  BY DEF AtRest
<1>1. \A n \in Made : \A q : ~Has(n, q)
  <2>1. Pending = {}
    BY DEF Pending
  <2> QED
    BY <2>1 DEF Has
<1>2. /\ \A p \in Player : SeatThen[p] = playerRoom[p]
      /\ \A q \in Room : StateThen[q] = IF q \notin managed THEN "none"
                                        ELSE IF state[q] = "active" THEN "active" ELSE "destroyed"
  BY <1>1, ViewIsNow
<1>3. Seen = RoomsNow
  BY DEF Seen
<1>4. /\ RoomsNow.seat = playerRoom
      /\ RoomsNow.members = members
      /\ RoomsNow.state = [q \in Room |-> IF q \notin managed THEN "none"
                                          ELSE IF state[q] = "active" THEN "active" ELSE "destroyed"]
      /\ RoomsNow.key = [q \in Room |-> IF q \in managed THEN q ELSE None]
  BY DEF RoomsNow
<1>5. /\ playerRoom \in [Player -> Room \cup {None}]
      /\ members \in [Room -> SUBSET Player]
      /\ \A q \in Room : members[q] = {p \in Player : playerRoom[p] = q}
  BY BetweenHandlers, InvParts DEF StateTypes
<1>6. playerRoom = [p \in Player |-> SeatThen[p]]
  BY <1>2, <1>5
<1>7. members = [x \in Room |-> {p \in Player : SeatThen[p] = x}]
  BY <1>2, <1>5
<1>8. RoomsNow.state = [x \in Room |-> StateThen[x]]
  BY <1>2, <1>4
<1>9. RoomsNow.key = [x \in Room |-> IF StateThen[x] = "none" THEN None ELSE x]
  BY <1>2, <1>4
<1> QED
  BY <1>3, <1>4, <1>6, <1>7, <1>8, <1>9 DEF Sees

\* A handler that has come to its end has made every call of its script.
LEMMA RestIsWhole == Underway /\ AtRest => IsWhole
<1> SUFFICES ASSUME Underway, todo = << >> PROVE IsWhole
  BY DEF AtRest
<1>1. Len(todo) = 0
  OBVIOUS
<1>2. \A script, m : ToMake(script, m) => m = 0
  BY <1>1 DEF ToMake
<1>3. ~ToLeave /\ ~ToMove /\ ~ToJoin
  <2>1. \A script : ~ToMake(script, 1) /\ ~ToMake(script, 2)
    BY <1>2
  <2> QED
    BY <2>1, Zenon DEF ToLeave, ToMove, ToJoin
<1>4. ~ToForm
  <2> SUFFICES ASSUME NEW group \in Groups, 2 * Len(group) + 2 = 0 PROVE FALSE
    BY <1>2 DEF ToForm
  <2> QED
    BY KindAssumption DEF Groups
<1>5. ~Forming
  <2> SUFFICES ASSUME NEW group \in Groups, NEW d \in 1..(2 * Len(group) + 1),
                      2 * Len(group) + 2 - d = 0
               PROVE  FALSE
    BY <1>2 DEF Forming
  <2> QED
    BY KindAssumption DEF Groups
<1> QED
  BY <1>3, <1>4, <1>5 DEF Underway, Over

LEMMA HandlerEnds ==
  ASSUME HInv, HandlersNext, todo # << >>, todo' = << >>
  PROVE  WasSound /\ Seen = was /\ was' = was /\ IsWhole' /\ Sees'
<1>1. Step /\ was' = was /\ Seen = was /\ Next /\ Underway
  BY OnlySteps DEF HandlersNext, Seen, HInv
<1>2. IInv /\ DestroyRoomFirst /\ WasSound /\ AtRest'
  BY DEF HInv, AtRest
<1>3. IInv'
  BY <1>1, <1>2, StepKeeps
<1>4. Underway'
  BY <1>1, <1>2, StepGoesOn
<1>5. Sees'
  BY <1>2, <1>3, RestIsSeen, PTL
<1>6. IsWhole'
  BY <1>2, <1>4, RestIsWhole, PTL
<1> QED
  BY <1>1, <1>2, <1>5, <1>6

\* What Rooms says of players who leave the rooms that the handler has found, is
\* what the view has come to.
LEMMA DepartIs ==
  ASSUME WasSound, Seen = was, NEW L \in SUBSET Player, NEW C \in SUBSET Room, MayCrash(L, C)
  PROVE  /\ C \in Whole!Crashes(L)
         /\ Whole!PlayerRoomAfter(L, C) = [q \in Player |-> SeatLeft(L, C, q)]
         /\ Whole!MembersAfter(L, C) =
              [x \in Room |-> {q \in Player : SeatLeft(L, C, q) = x}]
         /\ Whole!RoomStateAfter(L, C) = [x \in Room |-> StateLeft(L, C, x)]
         /\ Whole!RoomKeyAfter(L, C) =
              [x \in Room |-> IF StateLeft(L, C, x) = "none" THEN None ELSE x]
<1>1. /\ None \notin Room /\ HooksThrow \in BOOLEAN
      /\ \A q \in Player : was.seat[q] \in Room \cup {None}
      /\ \A q \in Player : was.seat[q] # None => was.state[was.seat[q]] = "active"
      /\ \A x \in Room : was.members[x] = {q \in Player : was.seat[q] = x}
      /\ \A x \in Room : was.key[x] = IF was.state[x] = "none" THEN None ELSE x
  BY KindAssumption DEF WasSound
<1>2. C \subseteq {was.seat[p] : p \in L} \ {None} /\ (C # {} => HooksThrow)
  BY DEF MayCrash
<1>3. Whole!RoomsLeft(L) = {was.seat[p] : p \in L} \ {None}
  BY DEF Whole!RoomsLeft
<1>4. C \in Whole!Crashes(L)
  BY <1>1, <1>2, <1>3 DEF Whole!Crashes
<1>5. \A q \in Player : q \in Whole!Departed(L, C) <=> q \in L \/ was.seat[q] \in C
  <2>1. Whole!Departed(L, C) = L \cup UNION {was.members[x] : x \in C}
    BY DEF Whole!Departed
  <2>2. \A q \in Player : q \in UNION {was.members[x] : x \in C} <=> was.seat[q] \in C
    BY <1>1
  <2> QED
    BY <2>1, <2>2
<1>6. Whole!PlayerRoomAfter(L, C) = [q \in Player |-> SeatLeft(L, C, q)]
  BY <1>5 DEF Whole!PlayerRoomAfter, SeatLeft
<1>7. Whole!MembersAfter(L, C) = [x \in Room |-> {q \in Player : SeatLeft(L, C, q) = x}]
  <2>1. Whole!MembersAfter(L, C) = [x \in Room |-> was.members[x] \ Whole!Departed(L, C)]
    BY DEF Whole!MembersAfter
  <2>2. ASSUME NEW x \in Room
        PROVE  was.members[x] \ Whole!Departed(L, C) = {q \in Player : SeatLeft(L, C, q) = x}
    BY <1>1, <1>5 DEF SeatLeft
  <2> QED
    BY <2>1, <2>2
<1>8. \A x \in Room : x \in Whole!Disposed(L, C) <=> Vacated(L, C, x)
  <2> SUFFICES ASSUME NEW x \in Room
               PROVE  x \in Whole!Disposed(L, C) <=> Vacated(L, C, x)
    OBVIOUS
  <2>1. x \in Whole!Disposed(L, C) <=>
          /\ \E p \in L : was.seat[p] = x
          /\ Whole!MembersAfter(L, C)[x] = {}
          /\ was.key[x] \in AutoDispose
    BY <1>1, <1>3 DEF Whole!Disposed
  <2>2. (\E p \in L : was.seat[p] = x) => was.key[x] = x
    BY <1>1
  <2>3. Whole!MembersAfter(L, C)[x] = {q \in Player : SeatLeft(L, C, q) = x}
    BY <1>7
  <2>4. {q \in Player : SeatLeft(L, C, q) = x} = {}
          <=> \A q \in Player : was.seat[q] = x => q \in L \/ x \in C
    BY <1>1 DEF SeatLeft
  <2> QED
    BY <2>1, <2>2, <2>3, <2>4 DEF Vacated
<1>9. Whole!RoomStateAfter(L, C) = [x \in Room |-> StateLeft(L, C, x)]
  BY <1>8 DEF Whole!RoomStateAfter, StateLeft
<1>10. Whole!RoomKeyAfter(L, C) =
         [x \in Room |-> IF StateLeft(L, C, x) = "none" THEN None ELSE x]
  <2>1. Whole!RoomKeyAfter(L, C) =
          [x \in Room |-> IF x \in Whole!Disposed(L, C) THEN None ELSE was.key[x]]
    BY DEF Whole!RoomKeyAfter
  <2>2. ASSUME NEW x \in Room
        PROVE  (IF x \in Whole!Disposed(L, C) THEN None ELSE was.key[x])
                 = IF StateLeft(L, C, x) = "none" THEN None ELSE x
    <3>1. x \in C => was.state[x] = "active"
      BY <1>1, <1>2
    <3> QED
      BY <1>1, <1>8, <3>1 DEF StateLeft
  <2> QED
    BY <2>1, <2>2
<1> QED
  BY <1>4, <1>6, <1>7, <1>9, <1>10

\* What a handler has done is what can be seen of it.
LEMMA SeenThen ==
  ASSUME Sees'
  PROVE  /\ Seen'.seat = [p \in Player |-> SeatThen'[p]]
         /\ Seen'.members = [x \in Room |-> {p \in Player : SeatThen'[p] = x}]
         /\ Seen'.state = [x \in Room |-> StateThen'[x]]
         /\ Seen'.key = [x \in Room |-> IF StateThen'[x] = "none" THEN None ELSE x]
BY DEF Sees

LEMMA StayedIsStutter ==
  ASSUME WasSound, Seen = was, was' = was, Sees', HaveStayed'
  PROVE  UNCHANGED Whole!roomVars
<1>1. /\ \A p \in Player : SeatThen'[p] = was.seat[p]
      /\ \A x \in Room : StateThen'[x] = was.state[x]
  BY DEF HaveStayed
<1>2. /\ was.seat \in [Player -> Room \cup {None}]
      /\ was.state \in [Room -> {"none", "active", "destroyed"}]
      /\ was.key = [r \in Room |-> IF was.state[r] = "none" THEN None ELSE r]
      /\ was.members = [r \in Room |-> {p \in Player : was.seat[p] = r}]
  BY DEF WasSound
<1>3. was.seat = [p \in Player |-> was.seat[p]] /\ was.state = [x \in Room |-> was.state[x]]
  BY <1>2
<1>4. Seen'.seat = was.seat /\ Seen'.state = was.state
  BY <1>1, <1>3, SeenThen
<1>5. Seen'.key = was.key
  BY <1>1, <1>2, SeenThen
<1>6. Seen'.members = was.members
  <2>1. \A x \in Room : {p \in Player : SeatThen'[p] = x} = {p \in Player : was.seat[p] = x}
    BY <1>1
  <2>2. Seen'.members = [x \in Room |-> {p \in Player : SeatThen'[p] = x}]
    BY SeenThen
  <2>3. Seen'.members = [x \in Room |-> {p \in Player : was.seat[p] = x}]
    BY <2>1, <2>2
  <2> QED
    BY <1>2, <2>3
<1> QED
  BY <1>4, <1>5, <1>6 DEF Whole!roomVars

LEMMA LeftIsDepart ==
  ASSUME WasSound, Seen = was, was' = was, Sees',
         NEW L \in SUBSET Player, NEW C \in SUBSET Room, HaveLeft(L, C)'
  PROVE  C \in Whole!Crashes(L) /\ Whole!Depart(L, C)
<1>1. /\ MayCrash(L, C)
      /\ \A p \in Player : SeatThen'[p] = SeatLeft(L, C, p)
      /\ \A x \in Room : StateThen'[x] = StateLeft(L, C, x)
  BY DEF HaveLeft, MayCrash, SeatLeft, StateLeft, Vacated
<1>2. /\ C \in Whole!Crashes(L)
      /\ Whole!PlayerRoomAfter(L, C) = [q \in Player |-> SeatLeft(L, C, q)]
      /\ Whole!MembersAfter(L, C) = [x \in Room |-> {q \in Player : SeatLeft(L, C, q) = x}]
      /\ Whole!RoomStateAfter(L, C) = [x \in Room |-> StateLeft(L, C, x)]
      /\ Whole!RoomKeyAfter(L, C) =
           [x \in Room |-> IF StateLeft(L, C, x) = "none" THEN None ELSE x]
  BY <1>1, DepartIs
<1>3. Seen'.seat = Whole!PlayerRoomAfter(L, C)
  BY <1>1, <1>2, SeenThen
<1>4. Seen'.members = Whole!MembersAfter(L, C)
  <2>1. \A x \in Room : {q \in Player : SeatThen'[q] = x} = {q \in Player : SeatLeft(L, C, q) = x}
    BY <1>1
  <2> QED
    BY <1>2, <2>1, SeenThen
<1>5. Seen'.state = Whole!RoomStateAfter(L, C)
  BY <1>1, <1>2, SeenThen
<1>6. Seen'.key = Whole!RoomKeyAfter(L, C)
  BY <1>1, <1>2, SeenThen
<1> QED
  BY <1>2, <1>3, <1>4, <1>5, <1>6 DEF Whole!Depart

LEMMA WholeCardinality == \A S : Whole!Cardinality(S) = Cardinality(S)
BY DEF Whole!Cardinality, Cardinality

\* The seats and rooms of Rooms by their names.
LEMMA FreeIsJoinable ==
  ASSUME WasSound, Seen = was, NEW p \in Player, NEW r \in Room
  PROVE  /\ Whole!Leaves(p, r) = Leaving(p, r)
         /\ Whole!Joinable(r) /\ Whole!HasSeat(r) <=> WasFree(r)
         /\ Leaving(p, r) \in SUBSET Player
<1>1. Whole!Leaves(p, r) = Leaving(p, r) /\ Leaving(p, r) \in SUBSET Player
  BY DEF Whole!Leaves, Leaving
<1>2. /\ was.key[r] = IF was.state[r] = "none" THEN None ELSE r
      /\ was.members[r] = WasIn(r)
  BY DEF WasSound, WasIn
<1>3. Whole!Joinable(r) <=> was.state[r] = "active"
  BY DEF Whole!Joinable
<1>4. Whole!HasSeat(r) <=> Cardinality(was.members[r]) < Capacity[was.key[r]]
  BY WholeCardinality DEF Whole!HasSeat
<1>5. was.state[r] = "active" => was.key[r] = r
  BY <1>2
<1> QED
  BY <1>1, <1>2, <1>3, <1>4, <1>5 DEF WasFree

LEMMA RefusedIsRefused ==
  ASSUME WasSound, Seen = was, was' = was, Sees', NEW p \in Player, NEW r \in Room,
         was.state[r] # "none", ~WasFree(r),
         NEW C \in SUBSET Room, HaveLeft(Leaving(p, r), C)'
  PROVE  Whole!JoinRefused(p, r)
<1> PICK L : L = Leaving(p, r)
  OBVIOUS
<1>1. L \in SUBSET Player /\ Whole!Leaves(p, r) = L
  BY FreeIsJoinable
<1>2. HaveLeft(L, C)'
  BY DEF HaveLeft, MayCrash, SeatLeft, StateLeft, Vacated, Leaving
<1>3. C \in Whole!Crashes(L) /\ Whole!Depart(L, C)
  BY <1>1, <1>2, LeftIsDepart
<1> QED
  BY <1>1, <1>3, FreeIsJoinable DEF Whole!JoinRefused

\* What the handler has found of seats.
LEMMA WasFacts ==
  ASSUME WasSound
  PROVE  /\ None \notin Room /\ HooksThrow \in BOOLEAN
         /\ \A q \in Player : was.seat[q] \in Room \cup {None}
         /\ \A q \in Player : was.seat[q] # None => was.state[was.seat[q]] = "active"
         /\ \A x \in Room : was.members[x] = {q \in Player : was.seat[q] = x}
         /\ \A x \in Room : was.key[x] = IF was.state[x] = "none" THEN None ELSE x
BY KindAssumption DEF WasSound

\* A player who joins room r has not been in it, and neither r nor anybody in it is
\* touched by its leaving another room.
LEMMA LeavingSparesRoom ==
  ASSUME WasSound, NEW p \in Player, NEW r \in Room, WasFree(r),
         NEW C \in SUBSET Room, MayCrash(Leaving(p, r), C)
  PROVE  /\ r \notin C /\ was.state[r] = "active"
         /\ ~Vacated(Leaving(p, r), C, r)
         /\ StateLeft(Leaving(p, r), C, r) = "active"
         /\ \A q \in Player : SeatLeft(Leaving(p, r), C, q) = r <=> was.seat[q] = r
         /\ SeatLeft(Leaving(p, r), C, p) \in {None, r}
<1>1. C \subseteq {was.seat[q] : q \in Leaving(p, r)} \ {None}
  BY DEF MayCrash
<1>2. \A q \in Leaving(p, r) : q = p /\ was.seat[q] # r
  BY DEF Leaving
<1>3. r \notin C
  BY <1>1, <1>2
<1>4. ~Vacated(Leaving(p, r), C, r)
  BY <1>2 DEF Vacated
<1>5. was.state[r] = "active"
  BY DEF WasFree
<1>6. StateLeft(Leaving(p, r), C, r) = "active"
  BY <1>3, <1>4, <1>5 DEF StateLeft
<1>7. \A q \in Player : SeatLeft(Leaving(p, r), C, q) = r <=> was.seat[q] = r
  BY <1>2, <1>3, WasFacts DEF SeatLeft
<1>8. SeatLeft(Leaving(p, r), C, p) \in {None, r}
  BY DEF SeatLeft, Leaving
<1> QED
  BY <1>3, <1>4, <1>5, <1>6, <1>7, <1>8

LEMMA JoinedIsJoin ==
  ASSUME WasSound, Seen = was, was' = was, Sees', NEW p \in Player, NEW r \in Room,
         HasJoined(p, r)'
  PROVE  Whole!Joins(p, r)
<1> PICK L : L = Leaving(p, r)
  OBVIOUS
<1>1. L \in SUBSET Player /\ Whole!Leaves(p, r) = L /\ WasFree(r)
      /\ Whole!Joinable(r) /\ Whole!HasSeat(r)
  <2>1. WasFree(r)
    BY DEF HasJoined, WasFree, WasIn
  <2> QED
    BY <2>1, FreeIsJoinable
<1>2. PICK C \in SUBSET Room :
        /\ MayCrash(L, C)
        /\ \A q \in Player : SeatThen'[q] = IF q = p THEN r ELSE SeatLeft(L, C, q)
        /\ \A x \in Room : StateThen'[x] = StateLeft(L, C, x)
  BY DEF HasJoined, MayCrash, SeatLeft, StateLeft, Vacated, Leaving
<1>3. /\ C \in Whole!Crashes(L)
      /\ Whole!PlayerRoomAfter(L, C) = [q \in Player |-> SeatLeft(L, C, q)]
      /\ Whole!MembersAfter(L, C) = [x \in Room |-> {q \in Player : SeatLeft(L, C, q) = x}]
      /\ Whole!RoomStateAfter(L, C) = [x \in Room |-> StateLeft(L, C, x)]
      /\ Whole!RoomKeyAfter(L, C) =
           [x \in Room |-> IF StateLeft(L, C, x) = "none" THEN None ELSE x]
  BY <1>1, <1>2, DepartIs
<1>4. /\ \A q \in Player : SeatLeft(L, C, q) = r <=> was.seat[q] = r
      /\ SeatLeft(L, C, p) \in {None, r}
  BY <1>1, <1>2, LeavingSparesRoom
<1>5. Seen'.members = [Whole!MembersAfter(L, C) EXCEPT ![r] = was.members[r] \cup {p}]
  <2>1. was.members[r] = {q \in Player : was.seat[q] = r}
    BY WasFacts
  <2>2. {q \in Player : SeatThen'[q] = r} = was.members[r] \cup {p}
    BY <1>2, <1>4, <2>1
  <2>3. \A x \in Room \ {r} :
          {q \in Player : SeatThen'[q] = x} = {q \in Player : SeatLeft(L, C, q) = x}
    BY <1>2, <1>4, WasFacts
  <2>4. Seen'.members = [x \in Room |-> {q \in Player : SeatThen'[q] = x}]
    BY SeenThen
  <2> DEFINE Sit(x) == {q \in Player : SeatThen'[q] = x}
             Stay(x) == {q \in Player : SeatLeft(L, C, q) = x}
  <2>5. /\ Seen'.members = [x \in Room |-> Sit(x)]
        /\ Whole!MembersAfter(L, C) = [x \in Room |-> Stay(x)]
        /\ Sit(r) = was.members[r] \cup {p}
        /\ \A x \in Room \ {r} : Sit(x) = Stay(x)
    BY <1>3, <2>2, <2>3, <2>4
  <2> HIDE DEF Sit, Stay
  <2> QED
    BY <2>5
<1>6. Seen'.seat = [Whole!PlayerRoomAfter(L, C) EXCEPT ![p] = r]
  BY <1>2, <1>3, SeenThen
<1>7. Seen'.state = Whole!RoomStateAfter(L, C)
  BY <1>2, <1>3, SeenThen
<1>8. Seen'.key = Whole!RoomKeyAfter(L, C)
  BY <1>2, <1>3, SeenThen
<1> QED
  BY <1>1, <1>3, <1>5, <1>6, <1>7, <1>8 DEF Whole!Joins

LEMMA FailedIsJoinFails ==
  ASSUME WasSound, Seen = was, was' = was, Sees', NEW p \in Player, NEW r \in Room,
         HasFailedToJoin(p, r)'
  PROVE  Whole!JoinFails(p, r)
<1> PICK L : L = Leaving(p, r)
  OBVIOUS
<1>1. L \in SUBSET Player /\ Whole!Leaves(p, r) = L /\ WasFree(r) /\ HooksThrow
      /\ Whole!Joinable(r) /\ Whole!HasSeat(r)
  <2>1. WasFree(r) /\ HooksThrow
    BY DEF HasFailedToJoin, WasFree, WasIn
  <2> QED
    BY <2>1, FreeIsJoinable
<1>2. PICK C \in SUBSET Room :
        /\ MayCrash(L, C)
        /\ \A q \in Player : SeatThen'[q] = IF q = p \/ was.seat[q] = r THEN None
                                            ELSE SeatLeft(L, C, q)
        /\ \A x \in Room : StateThen'[x] = IF x = r THEN "destroyed" ELSE StateLeft(L, C, x)
  BY DEF HasFailedToJoin, MayCrash, SeatLeft, StateLeft, Vacated, Leaving
<1>3. /\ C \in Whole!Crashes(L)
      /\ Whole!PlayerRoomAfter(L, C) = [q \in Player |-> SeatLeft(L, C, q)]
      /\ Whole!MembersAfter(L, C) = [x \in Room |-> {q \in Player : SeatLeft(L, C, q) = x}]
      /\ Whole!RoomStateAfter(L, C) = [x \in Room |-> StateLeft(L, C, x)]
      /\ Whole!RoomKeyAfter(L, C) =
           [x \in Room |-> IF StateLeft(L, C, x) = "none" THEN None ELSE x]
  BY <1>1, <1>2, DepartIs
<1>4. /\ \A q \in Player : SeatLeft(L, C, q) = r <=> was.seat[q] = r
      /\ SeatLeft(L, C, p) \in {None, r}
      /\ StateLeft(L, C, r) = "active"
  BY <1>1, <1>2, LeavingSparesRoom
<1>5. Seen'.members = [Whole!MembersAfter(L, C) EXCEPT ![r] = {}]
  <2>1. {q \in Player : SeatThen'[q] = r} = {}
    BY <1>2, <1>4, WasFacts
  <2>2. \A x \in Room \ {r} :
          {q \in Player : SeatThen'[q] = x} = {q \in Player : SeatLeft(L, C, q) = x}
    BY <1>2, <1>4, WasFacts
  <2>3. Seen'.members = [x \in Room |-> {q \in Player : SeatThen'[q] = x}]
    BY SeenThen
  <2> DEFINE Sit(x) == {q \in Player : SeatThen'[q] = x}
             Stay(x) == {q \in Player : SeatLeft(L, C, q) = x}
  <2>4. /\ Seen'.members = [x \in Room |-> Sit(x)]
        /\ Whole!MembersAfter(L, C) = [x \in Room |-> Stay(x)]
        /\ Sit(r) = {}
        /\ \A x \in Room \ {r} : Sit(x) = Stay(x)
    BY <1>3, <2>1, <2>2, <2>3
  <2> HIDE DEF Sit, Stay
  <2> QED
    BY <2>4
<1>6. Seen'.seat = [q \in Player |-> IF q \in was.members[r] \cup {p} THEN None
                                     ELSE Whole!PlayerRoomAfter(L, C)[q]]
  <2>1. \A q \in Player : q \in was.members[r] <=> was.seat[q] = r
    BY WasFacts
  <2> QED
    BY <1>2, <1>3, <2>1, SeenThen
<1>7. Seen'.state = [Whole!RoomStateAfter(L, C) EXCEPT ![r] = "destroyed"]
  BY <1>2, <1>3, SeenThen
<1>8. Seen'.key = Whole!RoomKeyAfter(L, C)
  BY <1>2, <1>3, <1>4, SeenThen
<1> QED
  BY <1>1, <1>3, <1>5, <1>6, <1>7, <1>8 DEF Whole!JoinFails

LEMMA FormedIsFormsRoom ==
  ASSUME WasSound, Seen = was, was' = was, Sees', NEW L \in SUBSET Player,
         NEW S \in SUBSET Player, NEW r \in Room, Seating(L, S, r), HasFormed(L, S, r)'
  PROVE  S \in Whole!Seatings(L, r) /\ Whole!FormsRoom(L, S, r)
<1>1. S \in Whole!Seatings(L, r) /\ S \subseteq L
  BY WholeCardinality DEF Seating, Whole!Seatings
<1>2. PICK C \in SUBSET Room :
        /\ MayCrash(L, C)
        /\ \A q \in Player : SeatThen'[q] = IF q \in S THEN r ELSE SeatLeft(L, C, q)
        /\ \A x \in Room : StateThen'[x] = IF x = r THEN (IF S = {} THEN "none" ELSE "active")
                                           ELSE StateLeft(L, C, x)
  BY DEF HasFormed, MayCrash, SeatLeft, StateLeft, Vacated
<1>3. was.state[r] = "none"
  BY DEF HasFormed
<1>4. /\ C \in Whole!Crashes(L)
      /\ Whole!PlayerRoomAfter(L, C) = [q \in Player |-> SeatLeft(L, C, q)]
      /\ Whole!MembersAfter(L, C) = [x \in Room |-> {q \in Player : SeatLeft(L, C, q) = x}]
      /\ Whole!RoomStateAfter(L, C) = [x \in Room |-> StateLeft(L, C, x)]
      /\ Whole!RoomKeyAfter(L, C) =
           [x \in Room |-> IF StateLeft(L, C, x) = "none" THEN None ELSE x]
  BY <1>2, DepartIs
<1>5. \A q \in Player : was.seat[q] # r
  BY <1>3, WasFacts
<1>6. /\ \A q \in Player : SeatLeft(L, C, q) # r
      /\ \A q \in S : SeatLeft(L, C, q) = None
  BY <1>1, <1>5, WasFacts DEF SeatLeft
<1>7. StateLeft(L, C, r) = "none"
  <2>1. r \notin C
    BY <1>2, <1>5 DEF MayCrash
  <2>2. ~Vacated(L, C, r)
    BY <1>5 DEF Vacated
  <2> QED
    BY <1>3, <2>1, <2>2 DEF StateLeft
<1>8. CASE S = {}
  <2>1. HaveLeft(L, C)'
    <3>1. \A q \in Player : SeatThen'[q] = SeatLeft(L, C, q)
      BY <1>2, <1>8
    <3>2. \A x \in Room : StateThen'[x] = StateLeft(L, C, x)
      BY <1>2, <1>7, <1>8
    <3> QED
      BY <1>2, <3>1, <3>2 DEF HaveLeft, MayCrash, SeatLeft, StateLeft, Vacated
  <2>2. Whole!Depart(L, C)
    BY <2>1, LeftIsDepart
  <2> QED
    BY <1>1, <1>3, <1>4, <1>8, <2>2 DEF Whole!FormsRoom
<1>9. CASE S # {}
  <2>1. Seen'.members = [Whole!MembersAfter(L, C) EXCEPT ![r] = S]
    <3> DEFINE Sit(x) == {q \in Player : SeatThen'[q] = x}
               Stay(x) == {q \in Player : SeatLeft(L, C, q) = x}
    <3>1. Sit(r) = S
      BY <1>2, <1>6
    <3>2. \A x \in Room \ {r} : Sit(x) = Stay(x)
      BY <1>2, <1>6, WasFacts
    <3>3. Seen'.members = [x \in Room |-> Sit(x)]
      BY SeenThen
    <3>4. Whole!MembersAfter(L, C) = [x \in Room |-> Stay(x)]
      BY <1>4
    <3> HIDE DEF Sit, Stay
    <3> QED
      BY <3>1, <3>2, <3>3, <3>4
  <2>2. Seen'.seat = [q \in Player |-> IF q \in S THEN r ELSE Whole!PlayerRoomAfter(L, C)[q]]
    BY <1>2, <1>4, SeenThen
  <2>3. Seen'.state = [Whole!RoomStateAfter(L, C) EXCEPT ![r] = "active"]
    BY <1>2, <1>4, <1>9, SeenThen
  <2>4. Seen'.key = [Whole!RoomKeyAfter(L, C) EXCEPT ![r] = r]
    BY <1>2, <1>4, <1>9, SeenThen
  <2> QED
    BY <1>1, <1>3, <1>4, <1>9, <2>1, <2>2, <2>3, <2>4 DEF Whole!FormsRoom
<1> QED
  BY <1>8, <1>9

LEMMA BrokenIsBreaks ==
  ASSUME WasSound, Seen = was, was' = was, Sees', NEW r \in Room, NEW kept \in BOOLEAN,
         HasBroken(r, kept)'
  PROVE  Whole!Breaks(r, kept)
<1>1. /\ HooksThrow
      /\ was.state[r] = "active"
      /\ kept \/ r \in Realtime
      /\ \A q \in Player : SeatThen'[q] = IF was.seat[q] = r THEN None ELSE was.seat[q]
      /\ \A x \in Room : StateThen'[x] = IF x = r THEN (IF kept THEN "destroyed" ELSE "none")
                                         ELSE was.state[x]
  BY DEF HasBroken
<1>2. was.key[r] = r
  BY <1>1, WasFacts
<1>3. /\ was.seat \in [Player -> Room \cup {None}]
      /\ was.state \in [Room -> {"none", "active", "destroyed"}]
      /\ was.key = [x \in Room |-> IF was.state[x] = "none" THEN None ELSE x]
      /\ was.members = [x \in Room |-> {p \in Player : was.seat[p] = x}]
  BY DEF WasSound
<1>4. Seen'.members = [was.members EXCEPT ![r] = {}]
  <2> DEFINE Sit(x) == {q \in Player : SeatThen'[q] = x}
             Stay(x) == {q \in Player : was.seat[q] = x}
  <2>1. Sit(r) = {}
    BY <1>1, WasFacts
  <2>2. \A x \in Room \ {r} : Sit(x) = Stay(x)
    BY <1>1, WasFacts
  <2>3. Seen'.members = [x \in Room |-> Sit(x)]
    BY SeenThen
  <2>4. was.members = [x \in Room |-> Stay(x)]
    BY <1>3
  <2> HIDE DEF Sit, Stay
  <2> QED
    BY <2>1, <2>2, <2>3, <2>4
<1>5. Seen'.seat = [p \in Player |-> IF was.seat[p] = r THEN None ELSE was.seat[p]]
  BY <1>1, SeenThen
<1>6. Seen'.state = [was.state EXCEPT ![r] = IF kept THEN "destroyed" ELSE "none"]
  BY <1>1, <1>3, SeenThen
<1>7. Seen'.key = [was.key EXCEPT ![r] = IF kept THEN @ ELSE None]
  BY <1>1, <1>2, <1>3, SeenThen
<1> QED
  BY <1>1, <1>2, <1>4, <1>5, <1>6, <1>7 DEF Whole!Breaks, Whole!Destroy

LEMMA ClearedIsClears ==
  ASSUME Sees', HasCleared'
  PROVE  Whole!Clears
<1>1. /\ \A q \in Player : SeatThen'[q] = None
      /\ \A x \in Room : StateThen'[x] = "none"
  BY DEF HasCleared
<1>2. \A x \in Room : {q \in Player : SeatThen'[q] = x} = {}
  BY <1>1, KindAssumption
<1>3. Seen'.members = [x \in Room |-> {}]
  BY <1>2, SeenThen
<1>4. Seen'.seat = [p \in Player |-> None] /\ Seen'.state = [x \in Room |-> "none"]
      /\ Seen'.key = [x \in Room |-> None]
  BY <1>1, SeenThen
<1> QED
  BY <1>3, <1>4 DEF Whole!Clears

\* What a handler has come to is a step of Rooms.
LEMMA WholeIsStep ==
  ASSUME WasSound, Seen = was, was' = was, Sees', IsWhole'
  PROVE  [Whole!RoomsNext]_(Whole!roomVars)
<1>1. CASE HaveStayed'
  BY <1>1, StayedIsStutter
<1>2. CASE \E p \in Player, C \in SUBSET Room : HaveLeft({p}, C)'
  <2>1. PICK p \in Player, C \in SUBSET Room : HaveLeft({p}, C)'
    BY <1>2
  <2>2. {p} \in SUBSET Player
    OBVIOUS
  <2>3. C \in Whole!Crashes({p}) /\ Whole!Depart({p}, C)
    BY <2>1, <2>2, LeftIsDepart
  <2>4. Whole!Detaches(p)
    BY <2>3 DEF Whole!Detaches
  <2> QED
    BY <2>4 DEF Whole!RoomsNext
<1>3. CASE \E p \in Player, r \in Room :
             (/\ was.state[r] # "none" /\ ~WasFree(r)
              /\ \E C \in SUBSET Room : HaveLeft(Leaving(p, r), C))'
  <2>1. PICK p \in Player, r \in Room :
             (/\ was.state[r] # "none" /\ ~WasFree(r)
              /\ \E C \in SUBSET Room : HaveLeft(Leaving(p, r), C))'
    BY <1>3
  <2>2. PICK C \in SUBSET Room : HaveLeft(Leaving(p, r), C)'
    BY <2>1
  <2>3. was.state[r] # "none" /\ ~WasFree(r)
    BY <2>1 DEF WasFree, WasIn
  <2>4. Whole!JoinRefused(p, r)
    BY <2>2, <2>3, RefusedIsRefused
  <2> QED
    BY <2>4 DEF Whole!RoomsNext
<1>4. CASE \E p \in Player, r \in Room : HasJoined(p, r)' \/ HasFailedToJoin(p, r)'
  BY <1>4, JoinedIsJoin, FailedIsJoinFails DEF Whole!RoomsNext
<1>5. CASE \E L, S \in SUBSET Player, r \in Room : Seating(L, S, r) /\ HasFormed(L, S, r)'
  BY <1>5, FormedIsFormsRoom DEF Whole!RoomsNext
<1>6. CASE \E r \in Room, kept \in BOOLEAN : HasBroken(r, kept)'
  BY <1>6, BrokenIsBreaks DEF Whole!RoomsNext
<1>7. CASE HasCleared'
  BY <1>7, ClearedIsClears DEF Whole!RoomsNext
<1>8. \A L, S, r : Seating(L, S, r)' <=> Seating(L, S, r)
  BY DEF Seating
<1> QED
  BY <1>1, <1>2, <1>3, <1>4, <1>5, <1>6, <1>7, <1>8 DEF IsWhole

\* To begin a handler changes neither rooms nor seats.
LEMMA BeginsIdle ==
  ASSUME Next, ~Step
  PROVE  UNCHANGED <<seatVars, state, managed>>
BY DEF Next, Leave, Message, TurnMessage, Join, TickThrows, CreateSettles, Match, Clear, Runs,
       roomVars

\* Only the end of a handler shows.
LEMMA HandlersStepIsWhole ==
  ASSUME HInv, [HandlersNext]_<<vars, was>>
  PROVE  [Whole!RoomsNext]_(Whole!roomVars)
<1>1. Seen' = Seen => UNCHANGED Whole!roomVars
  BY DEF Whole!roomVars
<1>2. CASE HandlersNext /\ todo # << >> /\ todo' # << >>
  <2>1. Seen' = was' /\ Seen = was /\ was' = Seen
    BY <1>2 DEF HandlersNext, Seen
  <2> QED
    BY <1>1, <2>1
<1>3. CASE HandlersNext /\ todo # << >> /\ todo' = << >>
  BY <1>3, HandlerEnds, WholeIsStep
<1>4. CASE HandlersNext /\ todo = << >> /\ todo' # << >>
  <2>1. Seen' = was' /\ was' = Seen
    BY <1>4 DEF HandlersNext, Seen
  <2> QED
    BY <1>1, <2>1
<1>5. CASE HandlersNext /\ todo = << >> /\ todo' = << >>
  <2>1. Seen = RoomsNow /\ Seen' = RoomsNow'
    BY <1>5 DEF Seen
  <2>2. ~Step
    BY <1>5, ScriptedCalls DEF HInv
  <2>3. UNCHANGED <<seatVars, state, managed>>
    BY <1>5, <2>2, BeginsIdle DEF HandlersNext
  <2>4. RoomsNow' = RoomsNow
    BY <2>3 DEF RoomsNow, seatVars
  <2> QED
    BY <1>1, <2>1, <2>4
<1>6. CASE UNCHANGED <<vars, was>>
  <2>1. Seen' = Seen
    BY <1>6 DEF Seen, RoomsNow, vars, seatVars, roomVars
  <2> QED
    BY <1>1, <2>1
<1> QED
  BY <1>2, <1>3, <1>4, <1>5, <1>6 DEF HandlersNext

LEMMA HandlersInitIsWhole ==
  ASSUME HandlersInit
  PROVE  Whole!RoomsInit
<1>1. Seen = was /\ was = RoomsNow
  BY DEF HandlersInit, Init, Seen
<1>2. /\ was.seat = [p \in Player |-> None] /\ was.members = [r \in Room |-> {}]
      /\ was.state = [r \in Room |-> "none"] /\ was.key = [r \in Room |-> None]
  BY <1>1 DEF RoomsNow, HandlersInit, Init
<1> QED
  BY <1>1, <1>2 DEF Whole!RoomsInit

\* Every handler, with all its calls and whatever its hooks do, is one step of
\* Rooms or leaves rooms and seats alone: no mixture of failures leaves a room
\* half destroyed or somebody half seated.
THEOREM HandlersAreWholeHolds == HandlersSpec => HandlersAreWhole
<1>1. HandlersInit => Whole!RoomsInit
  BY HandlersInitIsWhole
<1>2. HInv /\ [HandlersNext]_<<vars, was>> => [Whole!RoomsNext]_(Whole!roomVars)
  BY HandlersStepIsWhole
<1> QED
  BY <1>1, <1>2, HandlersOnTheirWay, PTL DEF HandlersSpec, HandlersAreWhole, Whole!RoomsSpec
===============================================================================
