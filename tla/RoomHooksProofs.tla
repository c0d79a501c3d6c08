----------------------------- MODULE RoomHooksProofs -----------------------------
(***************************************************************************)
(* What RoomHooks keeps for any players, rooms, capacities and sizes of    *)
(* groups, whichever hooks throw and wherever in a handler they do.        *)
(*                                                                         *)
(* The properties speak of the moments between two handlers.  The          *)
(* inductive invariant says how far a handler has come: it relates each    *)
(* piece of state to the calls still to be made, and says which calls may  *)
(* stand before which in the list of them.                                 *)
(***************************************************************************)
EXTENDS RoomHooks, FiniteSetTheorems, FunctionTheorems, TLAPS

\* The calls still to be made, and those behind the first.
Pending == {todo[i] : i \in DOMAIN todo}
Later == {todo[i] : i \in 2..Len(todo)}

\* The calls destroy() is made of.
Inner == {"destroy", "evict", "onDestroy"}

\* May call c be made before call d of the same list?
Precedes(c, d) ==
  /\ d.call \notin {"createRoom", "onDestroy"}
  /\ d.call = "evict" => c.call = "destroy" /\ c.room = d.room
  /\ d.call \in {"destroy", "autoDispose"} => c.call \in Inner
  /\ d.call = "delete" => c.call \in Inner \cup {"delete"}

\* Calls that were made by a call come before those its caller has still to make.
Ordered ==
  \A i, j \in DOMAIN todo : j < i => Precedes(todo[j], todo[i])

\* A handler seats players in one room, and takes each of them out of its old
\* room right before.
JoinsAreFree ==
  /\ \A i, j \in DOMAIN todo :
       todo[i].call = "addPlayer" /\ todo[j].call = "addPlayer" => todo[i].room = todo[j].room
  /\ \A i \in DOMAIN todo : todo[i].call = "addPlayer" =>
       \/ playerRoom[todo[i].player] \in {None, todo[i].room}
       \/ i > 1 /\ todo[i - 1] = Call("detach", None, todo[i].player)

\* A room is closing while its destroy() is under way, and at no other time.
ClosingIsPending ==
  \A r \in Room :
    state[r] = "closing" <=> \/ Call("evict", r, None) \in Pending
                             \/ Call("onDestroy", r, None) \in Pending

\* The three records of who is in a room agree, but for those a destroy() under
\* way has already taken leave of.
Mirrored ==
  \A r \in Room :
    /\ inside[r] = {p \in Player : playerRoom[p] = r}
    /\ inside[r] \subseteq members[r]
    /\ state[r] # "closing" => members[r] = inside[r]
    /\ state[r] \in {"none", "destroyed"} => members[r] = {}
    /\ Call("onDestroy", r, None) \in Pending => members[r] = {}

DisposedOnce == \A r \in Room : disposals[r] = IF state[r] = "destroyed" THEN 1 ELSE 0

FacadesOpen == facades = {r \in Room : state[r] \in {"active", "closing"}}

\* A room that is open is in RoomManager, which forgets no room it has not
\* destroyed.
OpenIsManaged ==
  \A r \in Room : state[r] = "active" =>
    /\ r \in managed
    /\ Call("delete", r, None) \in Pending => Call("destroy", r, None) \in Pending

\* The rooms that RoomManager is about to forget.
Doomed == {r \in Room : Call("delete", r, None) \in Pending}

RoomsCounted ==
  /\ \A r \in Room : Call("createRoom", r, None) \in Pending => r \notin managed
  /\ IsFiniteSet(managed)
  /\ activeRooms >= Cardinality(managed \ Doomed)
  /\ ~down => activeRooms = Cardinality(managed \ Doomed)

\* Who sits where, and who of them sits in a room that is not being destroyed.
Occupied == {rp \in Room \X Player : rp[2] \in members[rp[1]]}

Falling(r) == Call("destroy", r, None) \in Pending \/ Call("evict", r, None) \in Pending

Counted == {rp \in Occupied : ~Falling(rp[1])}

\* A leave that has happened and that the gauge has not been told of.
LeaveUncounted == \E r \in Room : Call("autoDispose", r, None) \in Pending

PlayersCovered ==
  /\ IsFiniteSet(Occupied)
  /\ activeRoomPlayers >= Cardinality(Counted)
  /\ LeaveUncounted => activeRoomPlayers >= Cardinality(Counted) + 1

IInv ==
  /\ TypeOK
  /\ Ordered /\ JoinsAreFree
  /\ ClosingIsPending /\ Mirrored
  /\ DisposedOnce /\ FacadesOpen /\ OpenIsManaged
  /\ RoomsCounted /\ PlayersCovered
-------------------------------------------------------------------------------
(* The list of calls.                                                      *)

LEMMA NoneIsNoId == None \notin Player /\ None \notin Room
BY KindAssumption

\* The calls by their kinds.
LEMMA KindsOfCalls ==
  ASSUME NEW c \in Calls
  PROVE  /\ c.call \in RoomCalls => c.room \in Room /\ c.player = None
         /\ c.call = "detach" => c.player \in Player /\ c.room = None
         /\ c.call = "addPlayer" => c.player \in Player /\ c.room \in Room
         /\ c = Call(c.call, c.room, c.player)
         /\ c.call \in RoomCalls \cup {"detach", "addPlayer"}
BY DEF Calls, RoomCalls, Call

\* Two calls are the same if they name the same.
LEMMA CallsDiffer ==
  ASSUME NEW m, NEW r, NEW p, NEW n, NEW q, NEW o
  PROVE  Call(m, r, p) = Call(n, q, o) <=> m = n /\ r = q /\ p = o
<1>1. /\ Call(m, r, p).call = m /\ Call(m, r, p).room = r /\ Call(m, r, p).player = p
      /\ Call(n, q, o).call = n /\ Call(n, q, o).room = q /\ Call(n, q, o).player = o
  BY DEF Call
<1> QED
  BY <1>1 DEF Call

LEMMA CallIsCall ==
  /\ \A n \in RoomCalls, r \in Room : Call(n, r, None) \in Calls
  /\ \A p \in Player : Call("detach", None, p) \in Calls
  /\ \A p \in Player, r \in Room : Call("addPlayer", r, p) \in Calls
BY DEF Calls, RoomCalls, Call

\* The first call of a list may be made before all the others.
LEMMA FirstAndLater ==
  ASSUME todo \in Seq(Calls), todo # << >>, Ordered
  PROVE  /\ This \in Calls
         /\ Pending = {This} \cup Later
         /\ \A d \in Later : d \in Calls /\ Precedes(This, d)
<1>1. Len(todo) \in Nat /\ Len(todo) >= 1 /\ DOMAIN todo = 1..Len(todo)
  OBVIOUS
<1>2. This = todo[1] /\ \A i \in 1..Len(todo) : todo[i] \in Calls
  BY <1>1 DEF This
<1>3. Pending = {This} \cup Later
  BY <1>1, <1>2 DEF Pending, Later
<1>4. ASSUME NEW d \in Later
      PROVE  d \in Calls /\ Precedes(This, d)
  <2>1. PICK i \in 2..Len(todo) : d = todo[i]
    BY DEF Later
  <2>2. i \in DOMAIN todo /\ 1 \in DOMAIN todo /\ 1 < i
    BY <1>1
  <2> QED
    BY <1>2, <2>1, <2>2 DEF Ordered
<1> QED
  BY <1>1, <1>2, <1>3, <1>4

\* What a call does to the seats: it takes somebody out of a room, or it is the
\* addPlayer() of the player.
SeatStep ==
  /\ \A p \in Player : \/ playerRoom'[p] \in {playerRoom[p], None}
                       \/ This = Call("addPlayer", playerRoom'[p], p)
  /\ This.call = "detach" => playerRoom'[This.player] = None

\* A call is replaced by calls that may come where it stood.
LEMMA CallReplaced ==
  ASSUME todo \in Seq(Calls), todo # << >>, Ordered, JoinsAreFree, SeatStep,
         NEW new \in Seq(Calls), todo' = new \o Rest,
         \A i \in DOMAIN new : /\ new[i].call \notin {"createRoom", "addPlayer"}
                               /\ \A d \in Later : Precedes(new[i], d),
         \A i, j \in DOMAIN new : j < i => Precedes(new[j], new[i])
  PROVE  /\ todo' \in Seq(Calls) /\ Ordered' /\ JoinsAreFree'
         /\ Pending' = {new[i] : i \in DOMAIN new} \cup Later
<1> DEFINE n == Len(new)
           m == Len(todo)
<1>1. /\ m \in Nat /\ m >= 1 /\ DOMAIN todo = 1..m
      /\ n \in Nat /\ DOMAIN new = 1..n
      /\ \A i \in 1..m : todo[i] \in Calls
      /\ \A i \in 1..n : new[i] \in Calls
  OBVIOUS
<1>2. /\ Rest \in Seq(Calls) /\ Len(Rest) = m - 1
      /\ \A i \in 1..(m - 1) : Rest[i] = todo[i + 1]
  BY <1>1 DEF Rest
<1>3. /\ todo' \in Seq(Calls) /\ Len(todo') = n + m - 1
      /\ DOMAIN todo' = 1..(n + m - 1)
      /\ \A i \in 1..n : todo'[i] = new[i]
      /\ \A i \in (n + 1)..(n + m - 1) : todo'[i] = todo[i - n + 1]
  BY <1>1, <1>2
<1> HIDE DEF n, m
<1>4. \A i \in (n + 1)..(n + m - 1) : i - n + 1 \in 2..m /\ todo[i - n + 1] \in Later
  BY <1>1 DEF Later, m
<1>5. Ordered'
  <2> SUFFICES ASSUME NEW i \in 1..(n + m - 1), NEW j \in 1..(n + m - 1), j < i
               PROVE  Precedes(todo'[j], todo'[i])
    BY <1>3 DEF Ordered, Precedes
  <2>1. CASE i <= n
    <3>1. i \in 1..n /\ j \in 1..n
      BY <1>1, <2>1
    <3> QED
      BY <1>1, <1>3, <3>1
  <2>2. CASE i > n /\ j <= n
    <3>1. i \in (n + 1)..(n + m - 1) /\ j \in 1..n
      BY <1>1, <2>2
    <3> QED
      BY <1>1, <1>3, <1>4, <3>1
  <2>3. CASE i > n /\ j > n
    <3>1. i \in (n + 1)..(n + m - 1) /\ j \in (n + 1)..(n + m - 1)
      BY <1>1, <2>3
    <3>2. /\ i - n + 1 \in DOMAIN todo /\ j - n + 1 \in DOMAIN todo
          /\ j - n + 1 < i - n + 1
      BY <1>1, <3>1
    <3> QED
      BY <1>3, <3>1, <3>2 DEF Ordered
  <2>4. \/ i <= n
        \/ i > n /\ j <= n
        \/ i > n /\ j > n
    BY <1>1
  <2> QED
    BY <2>1, <2>2, <2>3, <2>4, Zenon
<1>6. ASSUME NEW i \in 1..(n + m - 1), todo'[i].call = "addPlayer"
      PROVE  /\ i \in (n + 1)..(n + m - 1)
             /\ i - n + 1 \in 2..m /\ i - n + 1 \in DOMAIN todo
             /\ todo'[i] = todo[i - n + 1]
  <2>1. i \notin 1..n
    <3> SUFFICES ASSUME i \in 1..n PROVE FALSE
      OBVIOUS
    <3>1. new[i].call # "addPlayer" /\ todo'[i] = new[i]
      BY <1>1, <1>3
    <3> QED
      BY <1>6, <3>1
  <2>2. i \in (n + 1)..(n + m - 1)
    BY <1>1, <2>1
  <2>3. i - n + 1 \in 1..m
    BY <1>1, <2>2
  <2> QED
    BY <1>1, <1>3, <1>4, <2>2, <2>3
<1>7. ASSUME NEW i \in 1..(n + m - 1), NEW j \in 1..(n + m - 1),
             todo'[i].call = "addPlayer", todo'[j].call = "addPlayer"
      PROVE  todo'[i].room = todo'[j].room
  <2>1. i - n + 1 \in DOMAIN todo /\ j - n + 1 \in DOMAIN todo
    BY <1>1, <1>6, <1>7
  <2> QED
    BY <1>6, <1>7, <2>1 DEF JoinsAreFree
<1>8. ASSUME NEW i \in 1..(n + m - 1), todo'[i].call = "addPlayer"
      PROVE  \/ playerRoom'[todo'[i].player] \in {None, todo'[i].room}
             \/ i > 1 /\ todo'[i - 1] = Call("detach", None, todo'[i].player)
  <2> DEFINE k == i - n + 1
             p == todo[k].player
             r == todo[k].room
  <2>1. /\ i \in (n + 1)..(n + m - 1) /\ k \in 2..m /\ todo'[i] = todo[k]
        /\ k \in DOMAIN todo
    BY <1>6, <1>8
  <2>6. 1 \in DOMAIN todo /\ todo[k] \in Calls
    BY <1>1, <2>1
  <2>2. p \in Player /\ r \in Room /\ todo[k].call = "addPlayer"
    BY <1>8, <2>1, <2>6, KindsOfCalls
  <2>3. This = todo[1]
    BY <1>1 DEF This
  <2> HIDE DEF k
  <2>4. CASE playerRoom[p] \in {None, r}
    <3>1. CASE playerRoom'[p] \in {playerRoom[p], None}
      BY <2>1, <2>4, <3>1
    <3>2. CASE This = Call("addPlayer", playerRoom'[p], p)
      <4>1. todo[1].call = "addPlayer" /\ todo[1].room = playerRoom'[p]
        BY <2>3, <3>2 DEF Call
      <4>2. todo[1].room = r
        BY <2>1, <2>2, <2>6, <4>1 DEF JoinsAreFree
      <4> QED
        BY <2>1, <4>1, <4>2
    <3> QED
      BY <2>2, <3>1, <3>2 DEF SeatStep
  <2>5. CASE todo[k - 1] = Call("detach", None, p)
    <3>1. CASE k = 2
      <4>1. This.call = "detach" /\ This.player = p
        BY <2>3, <2>5, <3>1 DEF Call
      <4> QED
        BY <2>1, <4>1 DEF SeatStep
    <3>2. CASE k # 2
      <4>3. i \in Int /\ n \in Int /\ m \in Int /\ k \in 3..m /\ k = i - n + 1
        BY <1>1, <2>1, <3>2 DEF k
      <4>1. i - 1 \in (n + 1)..(n + m - 1) /\ (i - 1) - n + 1 = k - 1
        BY <4>3
      <4>2. todo'[i - 1] = todo[k - 1]
        BY <1>3, <4>1
      <4> QED
        BY <1>1, <2>1, <2>5, <4>1, <4>2
    <3> QED
      BY <3>1, <3>2
  <2> QED
    BY <2>1, <2>2, <2>4, <2>5 DEF JoinsAreFree
<1>9. JoinsAreFree'
  <2>1. DOMAIN todo' = 1..(n + m - 1)
    BY <1>3
  <2>2. \A i, j \in DOMAIN todo' :
          todo'[i].call = "addPlayer" /\ todo'[j].call = "addPlayer" => todo'[i].room = todo'[j].room
    <3> SUFFICES ASSUME NEW i \in DOMAIN todo', NEW j \in DOMAIN todo',
                        todo'[i].call = "addPlayer", todo'[j].call = "addPlayer"
                 PROVE  todo'[i].room = todo'[j].room
      OBVIOUS
    <3>1. i \in 1..(n + m - 1) /\ j \in 1..(n + m - 1)
      BY <2>1
    <3> QED
      BY <1>7, <3>1
  <2>3. \A i \in DOMAIN todo' : todo'[i].call = "addPlayer" =>
          \/ playerRoom'[todo'[i].player] \in {None, todo'[i].room}
          \/ i > 1 /\ todo'[i - 1] = Call("detach", None, todo'[i].player)
    BY <1>8, <2>1
  <2> QED
    BY <2>2, <2>3 DEF JoinsAreFree
<1>10. Pending' = {new[i] : i \in 1..n} \cup Later
  <2>1. ASSUME NEW c \in Later
        PROVE  \E i \in 1..(n + m - 1) : todo'[i] = c
    <3>1. PICK k \in 2..m : c = todo[k]
      BY DEF Later, m
    <3>2. k + n - 1 \in (n + 1)..(n + m - 1) /\ (k + n - 1) - n + 1 = k
      BY <1>1
    <3>3. k + n - 1 \in 1..(n + m - 1)
      BY <1>1, <3>2
    <3> QED
      BY <1>3, <3>1, <3>2, <3>3
  <2>2. \A i \in 1..n : i \in 1..(n + m - 1)
    BY <1>1
  <2>3. \A i \in 1..(n + m - 1) : i \in 1..n \/ i \in (n + 1)..(n + m - 1)
    BY <1>1
  <2>4. Pending' = {todo'[i] : i \in 1..(n + m - 1)}
    BY <1>3 DEF Pending
  <2>5. ASSUME NEW i \in 1..(n + m - 1)
        PROVE  todo'[i] \in {new[x] : x \in 1..n} \cup Later
    BY <1>3, <1>4, <2>3
  <2>6. ASSUME NEW i \in 1..n
        PROVE  new[i] \in {todo'[x] : x \in 1..(n + m - 1)}
    BY <1>3, <2>2
  <2> QED
    BY <2>1, <2>4, <2>5, <2>6
<1> QED
  BY <1>1, <1>3, <1>5, <1>9, <1>10

TodoInv == todo \in Seq(Calls) /\ Ordered /\ JoinsAreFree

LEMMA NoCall ==
  ASSUME TodoInv, todo # << >>, SeatStep, todo' = Rest
  PROVE  TodoInv' /\ Pending' = Later
<1> DEFINE new == << >>
<1>1. new \in Seq(Calls) /\ DOMAIN new = {}
  OBVIOUS
<1>2. Rest \in Seq(Calls)
  BY DEF TodoInv, Rest
<1>3. todo' = new \o Rest
  BY <1>2
<1> HIDE DEF new
<1>4. /\ \A i \in DOMAIN new : /\ new[i].call \notin {"createRoom", "addPlayer"}
                               /\ \A d \in Later : Precedes(new[i], d)
      /\ \A i, j \in DOMAIN new : j < i => Precedes(new[j], new[i])
      /\ {new[i] : i \in DOMAIN new} = {}
  BY <1>1
<1> QED
  BY <1>1, <1>3, <1>4, CallReplaced DEF TodoInv

LEMMA OneCall ==
  ASSUME TodoInv, todo # << >>, SeatStep,
         NEW c \in Calls, c.call \notin {"createRoom", "addPlayer"},
         \A d \in Later : Precedes(c, d),
         todo' = <<c>> \o Rest
  PROVE  TodoInv' /\ Pending' = {c} \cup Later
<1> DEFINE new == <<c>>
<1>1. new \in Seq(Calls) /\ DOMAIN new = {1} /\ new[1] = c
  OBVIOUS
<1>2. todo' = new \o Rest
  OBVIOUS
<1> HIDE DEF new
<1>3. /\ \A i \in DOMAIN new : /\ new[i].call \notin {"createRoom", "addPlayer"}
                               /\ \A d \in Later : Precedes(new[i], d)
      /\ \A i, j \in DOMAIN new : j < i => Precedes(new[j], new[i])
      /\ {new[i] : i \in DOMAIN new} = {c}
  BY <1>1
<1> QED
  BY <1>1, <1>2, <1>3, CallReplaced DEF TodoInv

LEMMA TwoCalls ==
  ASSUME TodoInv, todo # << >>, SeatStep,
         NEW c \in Calls, c.call \notin {"createRoom", "addPlayer"},
         NEW d \in Calls, d.call \notin {"createRoom", "addPlayer"},
         Precedes(c, d),
         \A e \in Later : Precedes(c, e) /\ Precedes(d, e),
         todo' = <<c, d>> \o Rest
  PROVE  TodoInv' /\ Pending' = {c, d} \cup Later
<1> DEFINE new == <<c, d>>
<1>1. new \in Seq(Calls) /\ DOMAIN new = {1, 2} /\ new[1] = c /\ new[2] = d
  OBVIOUS
<1>2. todo' = new \o Rest
  OBVIOUS
<1> HIDE DEF new
<1>3. \A i \in DOMAIN new : /\ new[i].call \notin {"createRoom", "addPlayer"}
                            /\ \A e \in Later : Precedes(new[i], e)
  BY <1>1
<1>4. \A i, j \in DOMAIN new : j < i => j = 1 /\ i = 2
  BY <1>1
<1>5. \A i, j \in DOMAIN new : j < i => Precedes(new[j], new[i])
  BY <1>1, <1>4
<1>6. {new[i] : i \in DOMAIN new} = {c, d}
  BY <1>1
<1> QED
  BY <1>1, <1>2, <1>3, <1>5, <1>6, CallReplaced DEF TodoInv

\* The calls that other invariants speak of.
Watched == {"createRoom", "autoDispose", "destroy", "evict", "onDestroy", "delete"}

\* The calls that handlers are made of, and those that are made when a call has
\* gone wrong: behind them there is no destroy() and no pending delete.
Outer == {"createRoom", "start", "autoDispose", "destroyRoom", "detach", "addPlayer"}

LEMMA OuterCalls ==
  ASSUME TodoInv, todo # << >>, This.call \in Outer
  PROVE  /\ \A d \in Later : d.call \notin Watched
         /\ \A c : \A d \in Later : Precedes(c, d)
         /\ \A n \in Watched : \A r : Call(n, r, None) \notin Later
<1>1. \A d \in Later : d \in Calls /\ Precedes(This, d)
  BY FirstAndLater DEF TodoInv
<1>2. \A d \in Later : d.call \notin Watched
  BY <1>1 DEF Precedes, Outer, Watched, Inner
<1>3. \A c : \A d \in Later : Precedes(c, d)
  BY <1>2 DEF Precedes, Watched
<1>4. \A n \in Watched : \A r : Call(n, r, None) \notin Later
  BY <1>2 DEF Call
<1> QED
  BY <1>2, <1>3, <1>4

\* What is not pending between two handlers, and in front of a call of a handler.
LEMMA NothingIsClosing ==
  ASSUME IInv, todo = << >> \/ This.call \in Outer
  PROVE  /\ \A r \in Room : state[r] # "closing" /\ ~Falling(r)
         /\ \A r \in Room : members[r] = inside[r]
         /\ Doomed = {}
         /\ Counted = Occupied
         /\ LeaveUncounted => todo # << >> /\ This.call = "autoDispose"
<1>1. \A n \in Watched : \A r : Call(n, r, None) \in Pending =>
        todo # << >> /\ n = This.call
  <2>1. CASE todo = << >>
    BY <2>1 DEF Pending
  <2>2. CASE todo # << >>
    <3>1. TodoInv /\ This.call \in Outer
      BY <2>2 DEF IInv, TypeOK, TodoInv
    <3>2. Pending = {This} \cup Later
      BY <2>2, <3>1, FirstAndLater DEF TodoInv
    <3> QED
      BY <2>2, <3>1, <3>2, OuterCalls DEF Call
  <2> QED
    BY <2>1, <2>2
<1>2. \A r : /\ Call("evict", r, None) \notin Pending
             /\ Call("onDestroy", r, None) \notin Pending
             /\ Call("destroy", r, None) \notin Pending
             /\ Call("delete", r, None) \notin Pending
  BY <1>1 DEF Watched, Outer
<1>3. \A r \in Room : state[r] # "closing" /\ ~Falling(r)
  BY <1>2 DEF IInv, ClosingIsPending, Falling
<1>4. \A r \in Room : members[r] = inside[r]
  BY <1>3 DEF IInv, Mirrored
<1>5. Doomed = {}
  BY <1>2 DEF Doomed
<1>6. Counted = Occupied
  BY <1>3 DEF Counted, Occupied
<1>7. LeaveUncounted => todo # << >> /\ This.call = "autoDispose"
  BY <1>1 DEF LeaveUncounted, Watched
<1> QED
  BY <1>3, <1>4, <1>5, <1>6, <1>7
-------------------------------------------------------------------------------
(* The calls.                                                              *)

\* TypeOK but for the list of calls.
StateTypes ==
  /\ state \in [Room -> {"none", "active", "closing", "destroyed"}]
  /\ managed \subseteq Room
  /\ members \in [Room -> SUBSET Player]
  /\ playerRoom \in [Player -> Room \cup {None}]
  /\ created \in [Room -> {"no", "pending", "done"}]
  /\ inside \in [Room -> SUBSET Player]
  /\ disposals \in [Room -> 0..1]
  /\ facades \subseteq Room
  /\ activeRooms \in Nat /\ activeRoomPlayers \in Nat /\ down \in BOOLEAN

HookType == hook \in {<< >>} \cup (Hooks \X Room \X (Player \cup {None}))

LEMMA TypeParts == TypeOK <=> StateTypes /\ HookType /\ todo \in Seq(Calls)
BY DEF TypeOK, StateTypes, HookType

LEMMA TypePartsNext == TypeOK' <=> StateTypes' /\ HookType' /\ (todo \in Seq(Calls))'
BY DEF TypeOK, StateTypes, HookType

LEMMA InvParts ==
  IInv <=> /\ StateTypes /\ HookType /\ TodoInv
           /\ ClosingIsPending /\ Mirrored /\ DisposedOnce /\ FacadesOpen
           /\ OpenIsManaged /\ RoomsCounted /\ PlayersCovered
BY TypeParts DEF IInv, TodoInv

LEMMA InvPartsNext ==
  IInv' <=> /\ StateTypes' /\ HookType' /\ TodoInv'
            /\ ClosingIsPending' /\ Mirrored' /\ DisposedOnce' /\ FacadesOpen'
            /\ OpenIsManaged' /\ RoomsCounted' /\ PlayersCovered'
BY TypePartsNext DEF IInv, TodoInv

LEMMA NoHookTyped ==
  ASSUME hook' = << >>
  PROVE  HookType'
BY DEF HookType

LEMMA HookTyped ==
  ASSUME NEW n \in Hooks, NEW r \in Room, NEW p \in Player \cup {None}, Hook(n, r, p)
  PROVE  HookType'
BY DEF HookType, Hook

\* A call that leaves the seats alone.
LEMMA SeatsStay ==
  ASSUME UNCHANGED playerRoom,
         This.call # "detach" \/ playerRoom[This.player] = None
  PROVE  SeatStep
BY DEF SeatStep

\* Nothing in Pending' that the other invariants speak of.
LEMMA NothingWatchedNext ==
  ASSUME \A n \in Watched : \A r : Call(n, r, None) \notin Pending'
  PROVE  /\ Doomed' = {}
         /\ Counted' = Occupied'
         /\ ~LeaveUncounted'
         /\ \A r : /\ Call("evict", r, None) \notin Pending'
                   /\ Call("onDestroy", r, None) \notin Pending'
                   /\ Call("createRoom", r, None) \notin Pending'
                   /\ Call("delete", r, None) \notin Pending'
<1>1. /\ {"evict", "onDestroy", "createRoom"} \subseteq Watched
      /\ {"destroy", "delete", "autoDispose"} \subseteq Watched
  BY DEF Watched
<1>2. \A r : /\ Call("evict", r, None) \notin Pending'
             /\ Call("onDestroy", r, None) \notin Pending'
             /\ Call("createRoom", r, None) \notin Pending'
             /\ Call("destroy", r, None) \notin Pending'
             /\ Call("delete", r, None) \notin Pending'
             /\ Call("autoDispose", r, None) \notin Pending'
  BY <1>1
<1>3. Doomed' = {} /\ ~LeaveUncounted'
  BY <1>2 DEF Doomed, LeaveUncounted
<1>4. Counted' = Occupied'
  BY <1>2 DEF Counted, Occupied, Falling
<1> QED
  BY <1>2, <1>3, <1>4

\* A call of a handler is done with, or makes a call of destroyRoom().
LEMMA OuterReplaced ==
  ASSUME TodoInv, todo # << >>, This.call \in Outer, SeatStep,
         \/ todo' = Rest
         \/ \E r \in Room : todo' = <<Call("destroyRoom", r, None)>> \o Rest
  PROVE  /\ TodoInv'
         /\ \A n \in Watched : \A r : Call(n, r, None) \notin Pending'
<1>1. CASE todo' = Rest
  BY <1>1, NoCall, OuterCalls
<1>2. ASSUME NEW r \in Room, todo' = <<Call("destroyRoom", r, None)>> \o Rest
      PROVE  /\ TodoInv'
             /\ \A n \in Watched : \A r1 : Call(n, r1, None) \notin Pending'
  <2> DEFINE c == Call("destroyRoom", r, None)
  <2>1. c \in Calls /\ c.call = "destroyRoom"
    BY CallIsCall DEF RoomCalls, Call
  <2>2. \A n \in Watched : \A r1 : Call(n, r1, None) # c
    BY CallsDiffer DEF Watched
  <2>3. \A d \in Later : Precedes(c, d)
    BY OuterCalls
  <2> HIDE DEF c
  <2>4. TodoInv' /\ Pending' = {c} \cup Later
    BY <1>2, <2>1, <2>3, OneCall DEF c
  <2> QED
    BY <2>2, <2>4, OuterCalls
<1> QED
  BY <1>1, <1>2

\* A call that changes no more than the list of calls.
LEMMA QuietKeeps ==
  ASSUME IInv, todo # << >>, This.call \in Outer \ {"autoDispose", "createRoom"}, SeatStep,
         NothingElse, hook' = << >>,
         \/ todo' = Rest
         \/ \E r \in Room : todo' = <<Call("destroyRoom", r, None)>> \o Rest
  PROVE  IInv'
<1>1. TodoInv /\ This.call \in Outer
  BY InvParts
<1>2. TodoInv' /\ \A n \in Watched : \A r : Call(n, r, None) \notin Pending'
  BY <1>1, OuterReplaced
<1>3. /\ Doomed' = {} /\ Counted' = Occupied' /\ ~LeaveUncounted'
      /\ \A r : /\ Call("evict", r, None) \notin Pending'
                /\ Call("onDestroy", r, None) \notin Pending'
                /\ Call("createRoom", r, None) \notin Pending'
                /\ Call("delete", r, None) \notin Pending'
  BY <1>2, NothingWatchedNext
<1>4. /\ \A r \in Room : state[r] # "closing"
      /\ Doomed = {} /\ Counted = Occupied
  BY <1>1, NothingIsClosing
<1>5. UNCHANGED <<state, managed, members, playerRoom, created, inside, disposals, facades,
                  activeRooms, activeRoomPlayers, down>>
  BY DEF NothingElse, seatVars, roomVars, gauges
<1>6. StateTypes' /\ HookType'
  BY <1>5, InvParts, NoHookTyped DEF StateTypes
<1>7. ClosingIsPending' /\ DisposedOnce' /\ FacadesOpen'
  BY <1>3, <1>4, <1>5, InvParts DEF ClosingIsPending, DisposedOnce, FacadesOpen
<1>8. Mirrored' /\ OpenIsManaged'
  BY <1>3, <1>5, InvParts DEF Mirrored, OpenIsManaged
<1>9. RoomsCounted'
  BY <1>3, <1>4, <1>5, InvParts DEF RoomsCounted
<1>10. PlayersCovered'
  <2>1. Occupied' = Occupied
    BY <1>5 DEF Occupied
  <2> QED
    BY <1>3, <1>4, <1>5, <2>1, InvParts DEF PlayersCovered
<1> QED
  BY <1>2, <1>6, <1>7, <1>8, <1>9, <1>10, InvPartsNext

LEMMA DetachNobodyKeeps ==
  ASSUME IInv, DetachNobody
  PROVE  IInv'
<1>1. /\ todo # << >> /\ This.call = "detach" /\ playerRoom[This.player] = None
      /\ todo' = Rest /\ hook' = << >> /\ NothingElse
  BY DEF DetachNobody, Now, This
<1>2. UNCHANGED playerRoom
  BY <1>1 DEF NothingElse, seatVars
<1>3. SeatStep
  BY <1>1, <1>2, SeatsStay
<1> QED
  BY <1>1, <1>3, QuietKeeps DEF Outer

LEMMA AddPlayerRefusedKeeps ==
  ASSUME IInv, AddPlayerRefused
  PROVE  IInv'
<1>1. /\ todo # << >> /\ This.call = "addPlayer"
      /\ todo' = Rest /\ hook' = << >> /\ NothingElse
  BY DEF AddPlayerRefused, Now, This
<1>2. SeatStep
  BY <1>1, SeatsStay DEF NothingElse, seatVars
<1> QED
  BY <1>1, <1>2, QuietKeeps DEF Outer

LEMMA StartRoomKeeps ==
  ASSUME IInv, StartRoom
  PROVE  IInv'
<1>1. /\ todo # << >> /\ This.call = "start" /\ hook' = << >> /\ NothingElse
      /\ todo' = (IF members[This.room] = {} THEN <<Call("destroyRoom", This.room, None)>>
                                             ELSE << >>) \o Rest
  BY DEF StartRoom, Now, This
<1>2. This.room \in Room /\ Rest \in Seq(Calls)
  <2>1. TodoInv /\ This \in Calls
    BY <1>1, InvParts, FirstAndLater DEF TodoInv
  <2> QED
    BY <1>1, <2>1, KindsOfCalls DEF RoomCalls, Rest, TodoInv
<1>3. \/ todo' = Rest
      \/ \E r \in Room : todo' = <<Call("destroyRoom", r, None)>> \o Rest
  BY <1>1, <1>2
<1>4. SeatStep
  BY <1>1, SeatsStay DEF NothingElse, seatVars
<1> QED
  BY <1>1, <1>3, <1>4, QuietKeeps DEF Outer

\* What is known of the call that is made now.
LEMMA CallNow ==
  ASSUME IInv, todo # << >>
  PROVE  /\ TodoInv /\ Rest \in Seq(Calls)
         /\ This \in Calls /\ This = Call(This.call, This.room, This.player)
         /\ This.call \in RoomCalls => This.room \in Room /\ This.player = None
         /\ This.call = "detach" => This.player \in Player /\ This.room = None
         /\ This.call = "addPlayer" => This.player \in Player /\ This.room \in Room
         /\ Pending = {This} \cup Later
         /\ \A d \in Later : d \in Calls /\ Precedes(This, d)
<1>1. TodoInv
  BY InvParts
<1>2. /\ This \in Calls /\ Pending = {This} \cup Later
      /\ \A d \in Later : d \in Calls /\ Precedes(This, d)
  BY <1>1, FirstAndLater DEF TodoInv
<1>3. Rest \in Seq(Calls)
  BY <1>1 DEF TodoInv, Rest
<1> QED
  BY <1>1, <1>2, <1>3, KindsOfCalls

LEMMA CreateRoomKeeps ==
  ASSUME IInv, CreateRoom
  PROVE  IInv'
<1> DEFINE r == This.room
<1>1. /\ todo # << >> /\ This.call = "createRoom"
      /\ state' = [state EXCEPT ![r] = "active"]
      /\ managed' = managed \cup {r}
      /\ disposals' = [disposals EXCEPT ![r] = 0]
      /\ facades' = facades \cup {r}
      /\ Hook("onCreate", r, None)
      /\ created' \in {[created EXCEPT ![r] = "done"], [created EXCEPT ![r] = "pending"]}
      /\ \/ todo' = Rest
         \/ todo' = << >> \o Rest
         \/ todo' = <<Call("destroyRoom", r, None)>> \o Rest
      /\ activeRooms' = activeRooms + 1
      /\ UNCHANGED <<members, playerRoom, inside, activeRoomPlayers, down>>
  BY DEF CreateRoom, Now, This, Facade, seatVars
<1>2. /\ TodoInv /\ Rest \in Seq(Calls) /\ r \in Room
      /\ Call("createRoom", r, None) \in Pending
  BY <1>1, CallNow DEF RoomCalls
<1>3. TodoInv' /\ \A n \in Watched : \A q : Call(n, q, None) \notin Pending'
  <2>1. SeatStep
    BY <1>1, SeatsStay
  <2>2. \/ todo' = Rest
        \/ \E q \in Room : todo' = <<Call("destroyRoom", q, None)>> \o Rest
    BY <1>1, <1>2
  <2> QED
    BY <1>1, <1>2, <2>1, <2>2, OuterReplaced DEF Outer
<1>4. /\ Doomed' = {} /\ Counted' = Occupied' /\ ~LeaveUncounted'
      /\ \A q : /\ Call("evict", q, None) \notin Pending'
                /\ Call("onDestroy", q, None) \notin Pending'
                /\ Call("createRoom", q, None) \notin Pending'
                /\ Call("delete", q, None) \notin Pending'
  BY <1>3, NothingWatchedNext
<1>5. /\ \A q \in Room : state[q] # "closing" /\ members[q] = inside[q]
      /\ Doomed = {} /\ Counted = Occupied
  BY <1>1, NothingIsClosing DEF Outer
<1>6. r \notin managed
  BY <1>2, InvParts DEF RoomsCounted
<1>t. StateTypes
  BY InvParts
<1> HIDE DEF r
<1>7. StateTypes' /\ HookType'
  <2>1. HookType'
    BY <1>1, <1>2, HookTyped DEF Hooks
  <2> QED
    BY <1>1, <1>2, <1>t, <2>1 DEF StateTypes
<1>8. ClosingIsPending' /\ DisposedOnce' /\ FacadesOpen' /\ OpenIsManaged'
  <2>1. ClosingIsPending'
    BY <1>1, <1>4, <1>5, <1>t DEF ClosingIsPending, StateTypes
  <2>2. DisposedOnce'
    BY <1>1, <1>t, InvParts DEF DisposedOnce, StateTypes
  <2>3. FacadesOpen'
    BY <1>1, <1>2, <1>t, InvParts DEF FacadesOpen, StateTypes
  <2>4. OpenIsManaged'
    BY <1>1, <1>4, <1>t, InvParts DEF OpenIsManaged, StateTypes
  <2> QED
    BY <2>1, <2>2, <2>3, <2>4
<1>9. Mirrored'
  BY <1>1, <1>4, <1>5, <1>t, InvParts DEF Mirrored, StateTypes
<1>10. RoomsCounted'
  <2>1. IsFiniteSet(managed) /\ activeRooms >= Cardinality(managed)
        /\ (~down => activeRooms = Cardinality(managed))
    <3>1. managed \ Doomed = managed
      BY <1>5
    <3> QED
      BY <3>1, InvParts DEF RoomsCounted
  <2>2. IsFiniteSet(managed') /\ Cardinality(managed') = Cardinality(managed) + 1
    BY <1>1, <1>6, <2>1, FS_AddElement
  <2>3. managed' \ Doomed' = managed'
    BY <1>4
  <2>4. Cardinality(managed) \in Nat /\ activeRooms \in Nat
    BY <2>1, <1>t, FS_CardinalityType DEF StateTypes
  <2> QED
    BY <1>1, <1>4, <2>1, <2>2, <2>3, <2>4 DEF RoomsCounted
<1>11. PlayersCovered'
  <2>1. Occupied' = Occupied
    BY <1>1 DEF Occupied
  <2> QED
    BY <1>1, <1>4, <1>5, <2>1, InvParts DEF PlayersCovered
<1> QED
  BY <1>3, <1>7, <1>8, <1>9, <1>10, <1>11, InvPartsNext

\* Only destroy() of one room, and one uncounted leave of it, may be pending
\* besides the calls of a handler.
LEMMA WatchedAre ==
  ASSUME TodoInv, todo # << >>, This.call \in Outer,
         NEW S, Pending' = S \cup Later
  PROVE  \A n \in Watched : \A q : Call(n, q, None) \in Pending' <=> Call(n, q, None) \in S
BY OuterCalls

LEMMA DetachKeeps ==
  ASSUME IInv, Detach
  PROVE  IInv'
<1> DEFINE p == This.player
           r == playerRoom[p]
           d == Call("destroy", r, None)
           a == Call("autoDispose", r, None)
<1>1. /\ todo # << >> /\ This.call = "detach" /\ r # None
      /\ playerRoom' = [playerRoom EXCEPT ![p] = None]
      /\ members' = [members EXCEPT ![r] = @ \ {p}]
      /\ inside' = [inside EXCEPT ![r] = @ \ {p}]
      /\ facades' = facades \cup {r}
      /\ Hook("onLeave", r, p)
      /\ \/ todo' = << >> \o <<a>> \o Rest
         \/ todo' = <<d>> \o <<a>> \o Rest
      /\ UNCHANGED <<state, managed, created, disposals, activeRooms, activeRoomPlayers, down>>
  BY DEF Detach, Now, This, Facade, roomVars, gauges
<1>2. TodoInv /\ Rest \in Seq(Calls) /\ p \in Player
  BY <1>1, CallNow
<1>t. StateTypes
  BY InvParts
<1>3. /\ \A q \in Room : state[q] # "closing" /\ members[q] = inside[q]
      /\ Doomed = {} /\ Counted = Occupied
  BY <1>1, NothingIsClosing DEF Outer
<1>4. /\ r \in Room /\ p \in inside[r] /\ p \in members[r] /\ state[r] = "active"
  <2>1. r \in Room /\ p \in inside[r] /\ p \in members[r]
    BY <1>1, <1>2, <1>3, <1>t, InvParts DEF Mirrored, StateTypes
  <2>2. state[r] \notin {"none", "destroyed"}
    BY <2>1, InvParts DEF Mirrored
  <2> QED
    BY <1>3, <1>t, <2>1, <2>2 DEF StateTypes
<1> HIDE DEF p, r
<1>5. a \in Calls /\ d \in Calls /\ a.call = "autoDispose" /\ d.call = "destroy"
  BY <1>4, CallIsCall DEF RoomCalls, Call
<1>6. SeatStep
  BY <1>1, <1>2, <1>t DEF SeatStep, StateTypes, p
<1>7. \A c : \A e \in Later : Precedes(c, e)
  BY <1>1, <1>2, OuterCalls DEF Outer
<1>8. /\ TodoInv'
      /\ Pending' = {a} \cup Later \/ Pending' = {d, a} \cup Later
  <2>1. CASE todo' = << >> \o <<a>> \o Rest
    <3>1. todo' = <<a>> \o Rest
      BY <1>2, <2>1
    <3> QED
      BY <1>1, <1>2, <1>5, <1>6, <1>7, <3>1, OneCall
  <2>2. CASE todo' = <<d>> \o <<a>> \o Rest
    <3>1. todo' = <<d, a>> \o Rest
      BY <1>2, <1>5, <2>2
    <3>2. Precedes(d, a)
      BY <1>5 DEF Precedes, Inner
    <3> QED
      BY <1>1, <1>2, <1>5, <1>6, <1>7, <3>1, <3>2, TwoCalls
  <2> QED
    BY <1>1, <2>1, <2>2
<1>9. \A n \in Watched : \A q : Call(n, q, None) \in Pending' => Call(n, q, None) \in {d, a}
  BY <1>1, <1>2, <1>8, WatchedAre DEF Outer
<1>10. \A q : /\ Call("evict", q, None) \notin Pending'
              /\ Call("onDestroy", q, None) \notin Pending'
              /\ Call("createRoom", q, None) \notin Pending'
              /\ Call("delete", q, None) \notin Pending'
  <2>1. \A n : \A q : Call(n, q, None) \in {d, a} => n \in {"destroy", "autoDispose"}
    BY CallsDiffer
  <2> QED
    BY <1>9, <2>1 DEF Watched
<1>11. StateTypes' /\ HookType'
  <2>1. HookType'
    BY <1>1, <1>2, <1>4, HookTyped DEF Hooks
  <2> QED
    BY <1>1, <1>2, <1>4, <1>t, <2>1 DEF StateTypes
<1>12. ClosingIsPending' /\ DisposedOnce' /\ FacadesOpen' /\ OpenIsManaged'
  <2>1. ClosingIsPending'
    BY <1>1, <1>3, <1>10 DEF ClosingIsPending
  <2>2. DisposedOnce' /\ FacadesOpen'
    BY <1>1, <1>4, InvParts DEF DisposedOnce, FacadesOpen
  <2>3. OpenIsManaged'
    BY <1>1, <1>10, InvParts DEF OpenIsManaged
  <2> QED
    BY <2>1, <2>2, <2>3
<1>13. Mirrored'
  <2>1. \A q \in Room : inside'[q] = {x \in Player : playerRoom'[x] = q}
    <3>1. \A q \in Room : inside[q] = {x \in Player : playerRoom[x] = q}
      BY InvParts DEF Mirrored
    <3>2. \A q \in Room : inside'[q] = IF q = r THEN inside[q] \ {p} ELSE inside[q]
      BY <1>1, <1>t DEF StateTypes
    <3>3. \A x \in Player : playerRoom'[x] = IF x = p THEN None ELSE playerRoom[x]
      BY <1>1, <1>t DEF StateTypes
    <3>4. r = playerRoom[p]
      BY DEF r
    <3>5. ASSUME NEW q \in Room, NEW x
          PROVE  x \in inside'[q] <=> x \in {y \in Player : playerRoom'[y] = q}
      <4>1. CASE x = p
        <5>1. playerRoom'[p] = None /\ None # q
          BY <1>2, <3>3, NoneIsNoId
        <5>2. p \notin inside'[q]
          <6>1. q # r => p \notin inside[q]
            BY <3>1, <3>4
          <6>2. q = r => inside'[q] = inside[q] \ {p}
            BY <3>2
          <6>3. q # r => inside'[q] = inside[q]
            BY <3>2
          <6> QED
            BY <6>1, <6>2, <6>3
        <5> QED
          BY <4>1, <5>1, <5>2
      <4>2. CASE x # p
        BY <3>1, <3>2, <3>3, <4>2
      <4> QED
        BY <4>1, <4>2
    <3> QED
      BY <3>5
  <2>2. \A q \in Room : members'[q] = inside'[q]
    BY <1>1, <1>3, <1>t DEF StateTypes
  <2>3. \A q \in Room : state'[q] \in {"none", "destroyed"} => members'[q] = {}
    BY <1>1, <1>t, InvParts DEF Mirrored, StateTypes
  <2> QED
    BY <1>10, <2>1, <2>2, <2>3 DEF Mirrored
<1>14. RoomsCounted'
  <2>1. Doomed' = {}
    BY <1>10 DEF Doomed
  <2> QED
    BY <1>1, <1>3, <1>10, <2>1, InvParts DEF RoomsCounted
<1>15. PlayersCovered'
  <2>1. IsFiniteSet(Occupied) /\ activeRoomPlayers >= Cardinality(Occupied)
    BY <1>3, InvParts DEF PlayersCovered
  <2>2. <<r, p>> \in Occupied
    BY <1>2, <1>4 DEF Occupied
  <2>3. Occupied' = Occupied \ {<<r, p>>}
    BY <1>1, <1>2, <1>4, <1>t DEF Occupied, StateTypes
  <2>4. /\ IsFiniteSet(Occupied')
        /\ Cardinality(Occupied') = Cardinality(Occupied) - 1
    BY <2>1, <2>2, <2>3, FS_RemoveElement
  <2>5. Counted' \subseteq Occupied'
    BY DEF Counted
  <2>6. Cardinality(Counted') <= Cardinality(Occupied') /\ IsFiniteSet(Counted')
    BY <2>4, <2>5, FS_Subset
  <2>7. /\ Cardinality(Counted') \in Nat /\ Cardinality(Occupied) \in Nat
        /\ activeRoomPlayers \in Nat
    BY <1>t, <2>1, <2>6, FS_CardinalityType DEF StateTypes
  <2>8. activeRoomPlayers' >= Cardinality(Counted') + 1
    BY <1>1, <2>1, <2>4, <2>6, <2>7
  <2>9. activeRoomPlayers' >= Cardinality(Counted')
    BY <1>1, <2>1, <2>4, <2>6, <2>7
  <2> QED
    BY <2>4, <2>8, <2>9 DEF PlayersCovered
<1> QED
  BY <1>8, <1>11, <1>12, <1>13, <1>14, <1>15, InvPartsNext

LEMMA AutoDisposesKeeps ==
  ASSUME IInv, AutoDisposes
  PROVE  IInv'
<1> DEFINE r == This.room
<1>1. /\ todo # << >> /\ This.call = "autoDispose" /\ hook' = << >>
      /\ todo' = (IF members[r] = {} /\ r \in AutoDispose
                  THEN <<Call("destroyRoom", r, None)>> ELSE << >>) \o Rest
      /\ activeRoomPlayers' = OneLess(activeRoomPlayers)
      /\ UNCHANGED <<members, playerRoom, state, managed, created, inside, disposals,
                     facades, activeRooms, down>>
  BY DEF AutoDisposes, Now, This, seatVars, roomVars
<1>2. /\ TodoInv /\ Rest \in Seq(Calls) /\ r \in Room
      /\ Call("autoDispose", r, None) \in Pending
  BY <1>1, CallNow DEF RoomCalls
<1>t. StateTypes
  BY InvParts
<1> HIDE DEF r
<1>3. TodoInv' /\ \A n \in Watched : \A q : Call(n, q, None) \notin Pending'
  <2>1. SeatStep
    BY <1>1, SeatsStay
  <2>2. \/ todo' = Rest
        \/ \E q \in Room : todo' = <<Call("destroyRoom", q, None)>> \o Rest
    BY <1>1, <1>2
  <2> QED
    BY <1>1, <1>2, <2>1, <2>2, OuterReplaced DEF Outer
<1>4. /\ Doomed' = {} /\ Counted' = Occupied' /\ ~LeaveUncounted'
      /\ \A q : /\ Call("evict", q, None) \notin Pending'
                /\ Call("onDestroy", q, None) \notin Pending'
                /\ Call("createRoom", q, None) \notin Pending'
                /\ Call("delete", q, None) \notin Pending'
  BY <1>3, NothingWatchedNext
<1>5. /\ \A q \in Room : state[q] # "closing"
      /\ Doomed = {} /\ Counted = Occupied
  BY <1>1, NothingIsClosing DEF Outer
<1>6. activeRoomPlayers' \in Nat /\ activeRoomPlayers' >= Cardinality(Counted')
  <2>1. IsFiniteSet(Occupied) /\ activeRoomPlayers >= Cardinality(Occupied) + 1
    BY <1>2, <1>5, InvParts DEF PlayersCovered, LeaveUncounted
  <2>2. Cardinality(Occupied) \in Nat /\ activeRoomPlayers \in Nat
    BY <1>t, <2>1, FS_CardinalityType DEF StateTypes
  <2>3. Occupied' = Occupied
    BY <1>1 DEF Occupied
  <2>4. /\ activeRoomPlayers' \in Nat
        /\ activeRoomPlayers' >= Cardinality(Occupied)
    BY <1>1, <2>1, <2>2 DEF OneLess
  <2> QED
    BY <1>4, <2>3, <2>4
<1>7. StateTypes' /\ HookType'
  BY <1>1, <1>6, <1>t, NoHookTyped DEF StateTypes
<1>8. ClosingIsPending' /\ DisposedOnce' /\ FacadesOpen' /\ OpenIsManaged'
  BY <1>1, <1>4, <1>5, InvParts DEF ClosingIsPending, DisposedOnce, FacadesOpen, OpenIsManaged
<1>9. Mirrored'
  BY <1>1, <1>4, InvParts DEF Mirrored
<1>10. RoomsCounted'
  BY <1>1, <1>4, <1>5, InvParts DEF RoomsCounted
<1>11. PlayersCovered'
  <2>1. Occupied' = Occupied
    BY <1>1 DEF Occupied
  <2> QED
    BY <1>4, <1>6, <2>1, InvParts DEF PlayersCovered
<1> QED
  BY <1>3, <1>7, <1>8, <1>9, <1>10, <1>11, InvPartsNext

LEMMA AddPlayerKeeps ==
  ASSUME IInv, AddPlayer
  PROVE  IInv'
<1> DEFINE p == This.player
           r == This.room
           d == Call("destroy", r, None)
<1>1. /\ todo # << >> /\ This.call = "addPlayer" /\ state[r] = "active"
      /\ playerRoom' = [playerRoom EXCEPT ![p] = r]
      /\ members' = [members EXCEPT ![r] = @ \cup {p}]
      /\ inside' = [inside EXCEPT ![r] = @ \cup {p}]
      /\ facades' = facades \cup {r}
      /\ Hook("onJoin", r, p)
      /\ \/ todo' = << >> \o Rest /\ activeRoomPlayers' = activeRoomPlayers + 1
         \/ todo' = <<d>> \o Rest /\ activeRoomPlayers' = activeRoomPlayers
      /\ UNCHANGED <<state, managed, created, disposals, activeRooms, down>>
  BY DEF AddPlayer, Now, This, Facade, roomVars, Accepts
<1>2. /\ TodoInv /\ Rest \in Seq(Calls) /\ p \in Player /\ r \in Room
      /\ This = Call("addPlayer", r, p)
  BY <1>1, CallNow
<1>t. StateTypes
  BY InvParts
<1>3. /\ \A q \in Room : state[q] # "closing" /\ members[q] = inside[q]
      /\ Doomed = {} /\ Counted = Occupied
  BY <1>1, NothingIsClosing DEF Outer
<1>4. playerRoom[p] \in {None, r}
  <2>1. 1 \in DOMAIN todo /\ This = todo[1]
    BY <1>1, <1>2 DEF This, TodoInv
  <2> QED
    BY <1>1, <1>2, <2>1 DEF TodoInv, JoinsAreFree
<1> HIDE DEF p, r
<1>5. d \in Calls /\ d.call = "destroy"
  BY <1>2, CallIsCall DEF RoomCalls, Call
<1>6. SeatStep
  BY <1>1, <1>2, <1>t DEF SeatStep, StateTypes
<1>7. \A c : \A e \in Later : Precedes(c, e)
  BY <1>1, <1>2, OuterCalls DEF Outer
<1>8. /\ TodoInv'
      /\ \/ Pending' = Later /\ activeRoomPlayers' = activeRoomPlayers + 1
         \/ Pending' = {d} \cup Later /\ activeRoomPlayers' = activeRoomPlayers
  <2>1. CASE todo' = << >> \o Rest /\ activeRoomPlayers' = activeRoomPlayers + 1
    <3>1. todo' = Rest
      BY <1>2, <2>1
    <3> QED
      BY <1>1, <1>2, <1>6, <2>1, <3>1, NoCall
  <2>2. CASE todo' = <<d>> \o Rest /\ activeRoomPlayers' = activeRoomPlayers
    BY <1>1, <1>2, <1>5, <1>6, <1>7, <2>2, OneCall
  <2> QED
    BY <1>1, <2>1, <2>2
<1>9. \A n \in Watched : \A q : Call(n, q, None) \in Pending' =>
        Pending' = {d} \cup Later /\ Call(n, q, None) = d
  <2>1. \A n \in Watched : \A q : Call(n, q, None) \notin Later
    BY <1>1, <1>2, OuterCalls DEF Outer
  <2>2. CASE Pending' = Later
    BY <2>1, <2>2
  <2>3. CASE Pending' = {d} \cup Later
    BY <2>1, <2>3
  <2> QED
    BY <1>8, <2>2, <2>3
<1>10. /\ \A q : /\ Call("evict", q, None) \notin Pending'
                 /\ Call("onDestroy", q, None) \notin Pending'
                 /\ Call("createRoom", q, None) \notin Pending'
                 /\ Call("delete", q, None) \notin Pending'
       /\ ~LeaveUncounted'
  <2>1. \A n : \A q : Call(n, q, None) = d => n = "destroy"
    BY CallsDiffer
  <2> QED
    BY <1>9, <2>1 DEF Watched, LeaveUncounted
<1>11. StateTypes' /\ HookType'
  <2>1. HookType'
    BY <1>1, <1>2, HookTyped DEF Hooks
  <2> QED
    BY <1>1, <1>2, <1>t, <2>1 DEF StateTypes
<1>12. ClosingIsPending' /\ DisposedOnce' /\ FacadesOpen' /\ OpenIsManaged'
  <2>1. ClosingIsPending'
    BY <1>1, <1>3, <1>10 DEF ClosingIsPending
  <2>2. DisposedOnce' /\ FacadesOpen'
    BY <1>1, <1>2, InvParts DEF DisposedOnce, FacadesOpen
  <2>3. OpenIsManaged'
    BY <1>1, <1>10, InvParts DEF OpenIsManaged
  <2> QED
    BY <2>1, <2>2, <2>3
<1>13. Mirrored'
  <2>1. \A q \in Room : inside'[q] = {x \in Player : playerRoom'[x] = q}
    <3>1. \A q \in Room : inside[q] = {x \in Player : playerRoom[x] = q}
      BY InvParts DEF Mirrored
    <3>2. \A q \in Room : inside'[q] = IF q = r THEN inside[q] \cup {p} ELSE inside[q]
      BY <1>1, <1>t DEF StateTypes
    <3>3. \A x \in Player : playerRoom'[x] = IF x = p THEN r ELSE playerRoom[x]
      BY <1>1, <1>t DEF StateTypes
    <3>4. ASSUME NEW q \in Room, NEW x
          PROVE  x \in inside'[q] <=> x \in {y \in Player : playerRoom'[y] = q}
      <4>1. CASE x = p
        BY <1>2, <1>4, <3>1, <3>2, <3>3, <4>1, NoneIsNoId
      <4>2. CASE x # p
        BY <3>1, <3>2, <3>3, <4>2
      <4> QED
        BY <4>1, <4>2
    <3> QED
      BY <3>4
  <2>2. \A q \in Room : members'[q] = inside'[q]
    BY <1>1, <1>3, <1>t DEF StateTypes
  <2>3. \A q \in Room : state'[q] \in {"none", "destroyed"} => members'[q] = {}
    BY <1>1, <1>t, InvParts DEF Mirrored, StateTypes
  <2> QED
    BY <1>10, <2>1, <2>2, <2>3 DEF Mirrored
<1>14. RoomsCounted'
  <2>1. Doomed' = {}
    BY <1>10 DEF Doomed
  <2> QED
    BY <1>1, <1>3, <1>10, <2>1, InvParts DEF RoomsCounted
<1>15. PlayersCovered'
  <2>1. IsFiniteSet(Occupied) /\ activeRoomPlayers >= Cardinality(Occupied)
    BY <1>3, InvParts DEF PlayersCovered
  <2>2. Occupied' = Occupied \cup {<<r, p>>}
    <3>1. \A q \in Room : members'[q] = IF q = r THEN members[q] \cup {p} ELSE members[q]
      BY <1>1, <1>t DEF StateTypes
    <3>2. ASSUME NEW q \in Room, NEW x \in Player
          PROVE  <<q, x>> \in Occupied' <=> <<q, x>> \in Occupied \cup {<<r, p>>}
      BY <3>1 DEF Occupied
    <3>3. /\ Occupied' \subseteq Room \X Player
          /\ Occupied \cup {<<r, p>>} \subseteq Room \X Player
      BY <1>2 DEF Occupied
    <3> QED
      BY <3>2, <3>3
  <2>3. /\ IsFiniteSet(Occupied')
        /\ Cardinality(Occupied') \in {Cardinality(Occupied), Cardinality(Occupied) + 1}
    BY <2>1, <2>2, FS_AddElement
  <2>4. /\ Cardinality(Occupied) \in Nat /\ activeRoomPlayers \in Nat
    BY <1>t, <2>1, FS_CardinalityType DEF StateTypes
  <2>5. activeRoomPlayers' >= Cardinality(Counted')
    <3>1. CASE activeRoomPlayers' = activeRoomPlayers + 1
      <4>1. Counted' \subseteq Occupied'
        BY DEF Counted
      <4>2. Cardinality(Counted') <= Cardinality(Occupied') /\ IsFiniteSet(Counted')
        BY <2>3, <4>1, FS_Subset
      <4>3. Cardinality(Counted') \in Nat
        BY <4>2, FS_CardinalityType
      <4> QED
        BY <2>1, <2>3, <2>4, <3>1, <4>2, <4>3
    <3>2. CASE Pending' = {d} \cup Later /\ activeRoomPlayers' = activeRoomPlayers
      <4>1. Call("destroy", r, None) \in Pending'
        BY <3>2
      <4>2. \A rp \in Counted' : rp[1] # r
        BY <4>1 DEF Counted, Falling, Occupied
      <4>3. Counted' \subseteq Occupied
        BY <2>2, <4>2 DEF Counted
      <4>4. Cardinality(Counted') <= Cardinality(Occupied) /\ IsFiniteSet(Counted')
        BY <2>1, <4>3, FS_Subset
      <4>5. Cardinality(Counted') \in Nat
        BY <4>4, FS_CardinalityType
      <4> QED
        BY <2>1, <2>4, <3>2, <4>4, <4>5
    <3> QED
      BY <1>8, <3>1, <3>2
  <2> QED
    BY <1>10, <2>3, <2>5 DEF PlayersCovered
<1> QED
  BY <1>8, <1>11, <1>12, <1>13, <1>14, <1>15, InvPartsNext

\* What may stand behind a call, and what is pending with it.
LEMMA Behind ==
  ASSUME IInv, todo # << >>
  PROVE  /\ \A q : /\ Call("createRoom", q, None) \notin Later
                   /\ Call("onDestroy", q, None) \notin Later
                   /\ Call("evict", q, None) \in Later => This.call = "destroy" /\ q = This.room
                   /\ This.call \notin Inner => /\ Call("destroy", q, None) \notin Later
                                                /\ Call("autoDispose", q, None) \notin Later
         /\ This.call \in RoomCalls =>
              \A n : \A q : Call(n, q, None) \in Pending <=>
                              \/ n = This.call /\ q = This.room
                              \/ Call(n, q, None) \in Later
<1>1. /\ Pending = {This} \cup Later
      /\ \A d \in Later : Precedes(This, d)
      /\ This.call \in RoomCalls => This = Call(This.call, This.room, None)
  BY CallNow
<1>2. \A n : \A q : Call(n, q, None).call = n /\ Call(n, q, None).room = q
  BY DEF Call
<1>3. \A q : /\ Call("createRoom", q, None) \notin Later
             /\ Call("onDestroy", q, None) \notin Later
             /\ Call("evict", q, None) \in Later => This.call = "destroy" /\ q = This.room
             /\ This.call \notin Inner => /\ Call("destroy", q, None) \notin Later
                                          /\ Call("autoDispose", q, None) \notin Later
  <2> TAKE q
  <2>1. /\ Call("createRoom", q, None) \notin Later
        /\ Call("onDestroy", q, None) \notin Later
    BY <1>1, <1>2 DEF Precedes
  <2>2. ASSUME Call("evict", q, None) \in Later
        PROVE  This.call = "destroy" /\ q = This.room
    BY <1>1, <1>2, <2>2 DEF Precedes
  <2>3. ASSUME This.call \notin Inner
        PROVE  /\ Call("destroy", q, None) \notin Later
               /\ Call("autoDispose", q, None) \notin Later
    BY <1>1, <1>2, <2>3 DEF Precedes
  <2> QED
    BY <2>1, <2>2, <2>3
<1>4. ASSUME This.call \in RoomCalls
      PROVE  \A n : \A q : Call(n, q, None) \in Pending <=>
                             \/ n = This.call /\ q = This.room
                             \/ Call(n, q, None) \in Later
  <2> TAKE n
  <2> TAKE q
  <2>1. Call(n, q, None) = This <=> n = This.call /\ q = This.room
    BY <1>1, <1>4, CallsDiffer
  <2> QED
    BY <1>1, <2>1
<1> QED
  BY <1>3, <1>4

LEMMA DestroyRoomKeeps ==
  ASSUME IInv, DestroyRoom
  PROVE  IInv'
<1> DEFINE r == This.room
           d == Call("destroy", r, None)
           x == Call("delete", r, None)
<1>1. /\ todo # << >> /\ This.call = "destroyRoom" /\ hook' = << >>
      /\ \/ /\ r \in managed
            /\ activeRooms' = OneLess(activeRooms)
            /\ todo' = <<d, x>> \o Rest
         \/ activeRooms' = activeRooms /\ todo' = Rest
      /\ UNCHANGED <<members, playerRoom, state, managed, created, inside, disposals,
                     facades, activeRoomPlayers, down>>
  BY DEF DestroyRoom, Now, This, seatVars, roomVars, Knows
<1>2. TodoInv /\ Rest \in Seq(Calls) /\ r \in Room
  BY <1>1, CallNow DEF RoomCalls
<1>3. SeatStep
  BY <1>1, SeatsStay
<1>4. CASE activeRooms' = activeRooms /\ todo' = Rest
  BY <1>1, <1>3, <1>4, QuietKeeps DEF Outer, NothingElse, seatVars, roomVars, gauges
<1>5. CASE /\ r \in managed
           /\ activeRooms' = OneLess(activeRooms)
           /\ todo' = <<d, x>> \o Rest
  <2>t. StateTypes
    BY InvParts
  <2>1. /\ \A q \in Room : state[q] # "closing"
        /\ Doomed = {} /\ Counted = Occupied
    BY <1>1, NothingIsClosing DEF Outer
  <2> HIDE DEF r
  <2>2. TodoInv' /\ Pending' = {d, x} \cup Later
    <3>1. /\ d \in Calls /\ x \in Calls
          /\ d.call = "destroy" /\ x.call = "delete"
      BY <1>2, CallIsCall DEF RoomCalls, Call
    <3>2. Precedes(d, x)
      BY <3>1 DEF Precedes, Inner
    <3>3. \A c : \A e \in Later : Precedes(c, e)
      BY <1>1, <1>2, OuterCalls DEF Outer
    <3> QED
      BY <1>1, <1>2, <1>3, <1>5, <3>1, <3>2, <3>3, TwoCalls
  <2>3. \A n \in Watched : \A q : Call(n, q, None) \in Pending' <=>
          q = r /\ n \in {"destroy", "delete"}
    <3>1. \A n \in Watched : \A q :
            Call(n, q, None) \in Pending' <=> Call(n, q, None) \in {d, x}
      BY <1>1, <1>2, <2>2, WatchedAre DEF Outer
    <3>2. \A n : \A q : Call(n, q, None) \in {d, x} <=> q = r /\ n \in {"destroy", "delete"}
      BY CallsDiffer
    <3> QED
      BY <3>1, <3>2
  <2>4. /\ \A q : /\ Call("evict", q, None) \notin Pending'
                  /\ Call("onDestroy", q, None) \notin Pending'
                  /\ Call("createRoom", q, None) \notin Pending'
                  /\ Call("autoDispose", q, None) \notin Pending'
                  /\ Call("delete", q, None) \in Pending' <=> q = r
                  /\ Call("destroy", q, None) \in Pending' <=> q = r
    BY <2>3 DEF Watched
  <2>5. ~LeaveUncounted' /\ Doomed' = {r}
    BY <1>2, <2>4 DEF LeaveUncounted, Doomed
  <2>6. /\ activeRooms' \in Nat /\ IsFiniteSet(managed')
        /\ activeRooms' >= Cardinality(managed' \ Doomed')
        /\ ~down' => activeRooms' = Cardinality(managed' \ Doomed')
    <3>1. /\ IsFiniteSet(managed) /\ activeRooms >= Cardinality(managed)
          /\ ~down => activeRooms = Cardinality(managed)
      <4>1. managed \ Doomed = managed
        BY <2>1
      <4> QED
        BY <4>1, InvParts DEF RoomsCounted
    <3>2. /\ IsFiniteSet(managed \ {r})
          /\ Cardinality(managed \ {r}) = Cardinality(managed) - 1
      BY <1>5, <3>1, FS_RemoveElement
    <3>3. /\ Cardinality(managed) \in Nat /\ activeRooms \in Nat
          /\ Cardinality(managed \ {r}) \in Nat
      BY <2>t, <3>1, <3>2, FS_CardinalityType DEF StateTypes
    <3>4. managed' \ Doomed' = managed \ {r}
      BY <1>1, <2>5
    <3>5. activeRooms' = activeRooms - 1 /\ activeRooms >= 1
      BY <1>5, <3>1, <3>2, <3>3 DEF OneLess
    <3>6. down' = down /\ managed' = managed
      BY <1>1
    <3> QED
      BY <3>1, <3>2, <3>3, <3>4, <3>5, <3>6
  <2>7. StateTypes' /\ HookType'
    BY <1>1, <2>6, <2>t, NoHookTyped DEF StateTypes
  <2>8. ClosingIsPending' /\ DisposedOnce' /\ FacadesOpen' /\ OpenIsManaged'
    BY <1>1, <2>1, <2>4, InvParts DEF ClosingIsPending, DisposedOnce, FacadesOpen, OpenIsManaged
  <2>9. Mirrored'
    BY <1>1, <2>4, InvParts DEF Mirrored
  <2>10. RoomsCounted'
    BY <2>4, <2>6 DEF RoomsCounted
  <2>11. PlayersCovered'
    <3>1. Occupied' = Occupied /\ IsFiniteSet(Occupied)
          /\ activeRoomPlayers >= Cardinality(Occupied)
      BY <1>1, <2>1, InvParts DEF Occupied, PlayersCovered
    <3>2. Counted' \subseteq Occupied
      BY <3>1 DEF Counted
    <3>3. Cardinality(Counted') <= Cardinality(Occupied) /\ IsFiniteSet(Counted')
      BY <3>1, <3>2, FS_Subset
    <3>4. /\ Cardinality(Counted') \in Nat /\ Cardinality(Occupied) \in Nat
          /\ activeRoomPlayers \in Nat
      BY <2>t, <3>1, <3>3, FS_CardinalityType DEF StateTypes
    <3>5. activeRoomPlayers' >= Cardinality(Counted')
      BY <1>1, <3>1, <3>3, <3>4
    <3> QED
      BY <2>5, <3>1, <3>5 DEF PlayersCovered
  <2> QED
    BY <2>2, <2>7, <2>8, <2>9, <2>10, <2>11, InvPartsNext
<1> QED
  BY <1>1, <1>4, <1>5

LEMMA DestroyKeeps ==
  ASSUME IInv, Destroy
  PROVE  IInv'
<1> DEFINE r == This.room
           e == Call("evict", r, None)
<1>1. /\ todo # << >> /\ This.call = "destroy" /\ hook' = << >>
      /\ \/ /\ state[r] = "active"
            /\ state' = [state EXCEPT ![r] = "closing"]
            /\ todo' = <<e>> \o Rest
         \/ state[r] # "active" /\ state' = state /\ todo' = Rest
      /\ UNCHANGED <<members, playerRoom, managed, created, inside, disposals,
                     facades, activeRooms, activeRoomPlayers, down>>
  BY DEF Destroy, Now, This, seatVars, gauges, MayDestroy
<1>2. TodoInv /\ Rest \in Seq(Calls) /\ r \in Room
  BY <1>1, CallNow DEF RoomCalls
<1>t. StateTypes
  BY InvParts
<1>3. SeatStep
  BY <1>1, SeatsStay
<1>4. \A q : /\ Call("createRoom", q, None) \notin Later
             /\ Call("onDestroy", q, None) \notin Later
             /\ Call("evict", q, None) \in Later => q = r
  BY <1>1, Behind
<1>5. \A n : \A q : Call(n, q, None) \in Pending <=>
                      (n = "destroy" /\ q = r) \/ Call(n, q, None) \in Later
  BY <1>1, Behind DEF RoomCalls
<1> HIDE DEF r
<1>6. state' \in [Room -> {"none", "active", "closing", "destroyed"}]
  BY <1>1, <1>2, <1>t DEF StateTypes
<1>7. StateTypes' /\ HookType'
  BY <1>1, <1>6, <1>t, NoHookTyped DEF StateTypes
<1>8. CASE /\ state[r] = "active"
           /\ state' = [state EXCEPT ![r] = "closing"]
           /\ todo' = <<e>> \o Rest
  <2>1. \A q \in Room : state'[q] = IF q = r THEN "closing" ELSE state[q]
    BY <1>8, <1>t DEF StateTypes
  <2>2. \A q : Call("evict", q, None) \notin Later
    BY <1>2, <1>4, <1>5, <1>8, InvParts DEF ClosingIsPending
  <2>3. TodoInv' /\ Pending' = {e} \cup Later
    <3>1. e \in Calls /\ e.call = "evict"
      BY <1>2, CallIsCall DEF RoomCalls, Call
    <3>2. \A d \in Later : d \in Calls /\ Precedes(This, d)
      BY <1>1, CallNow
    <3>3. ASSUME NEW d \in Later PROVE Precedes(e, d)
      <4>1. d.call # "evict"
        <5> SUFFICES ASSUME d.call = "evict" PROVE FALSE
          OBVIOUS
        <5>1. d = Call("evict", d.room, None)
          BY <3>2, KindsOfCalls DEF RoomCalls
        <5> QED
          BY <2>2, <5>1
      <4> QED
        BY <1>1, <3>1, <3>2, <4>1 DEF Precedes, Inner
    <3> QED
      BY <1>1, <1>2, <1>3, <1>8, <3>1, <3>3, OneCall
  <2>4. \A n : \A q : Call(n, q, None) \in Pending' <=>
                        (n = "evict" /\ q = r) \/ Call(n, q, None) \in Later
    BY <2>3, CallsDiffer
  <2>5. \A q : /\ Call("createRoom", q, None) \notin Pending'
               /\ Call("onDestroy", q, None) \notin Pending'
               /\ Call("evict", q, None) \in Pending' <=> q = r
               /\ Call("delete", q, None) \in Pending' <=> Call("delete", q, None) \in Pending
               /\ Call("autoDispose", q, None) \in Pending' <=> Call("autoDispose", q, None) \in Pending
               /\ q # r => (Call("destroy", q, None) \in Pending' <=> Call("destroy", q, None) \in Pending)
    BY <1>4, <1>5, <2>2, <2>4
  <2>6. \A q : /\ Call("onDestroy", q, None) \notin Pending
               /\ Call("evict", q, None) \notin Pending
    BY <1>4, <1>5, <2>2
  <2>7. ClosingIsPending'
    BY <2>1, <2>5, <2>6, InvParts DEF ClosingIsPending
  <2>8. DisposedOnce' /\ FacadesOpen' /\ OpenIsManaged'
    <3>1. DisposedOnce'
      BY <1>1, <1>8, <2>1, InvParts DEF DisposedOnce
    <3>2. FacadesOpen'
      BY <1>1, <1>8, <2>1, InvParts DEF FacadesOpen
    <3>3. OpenIsManaged'
      BY <1>1, <2>1, <2>5, InvParts DEF OpenIsManaged
    <3> QED
      BY <3>1, <3>2, <3>3
  <2>9. Mirrored'
    BY <1>1, <1>8, <2>1, <2>5, InvParts DEF Mirrored
  <2>10. RoomsCounted'
    <3>1. Doomed' = Doomed
      BY <2>5 DEF Doomed
    <3> QED
      BY <1>1, <2>5, <3>1, InvParts DEF RoomsCounted
  <2>11. PlayersCovered'
    <3>1. Occupied' = Occupied
      BY <1>1 DEF Occupied
    <3>2. \A q : (Call("destroy", q, None) \in Pending' \/ Call("evict", q, None) \in Pending')
                   <=> (Call("destroy", q, None) \in Pending \/ Call("evict", q, None) \in Pending)
      BY <1>5, <2>5, <2>6
    <3>3. Counted' = Counted
      BY <3>1, <3>2 DEF Counted, Falling
    <3>4. LeaveUncounted' <=> LeaveUncounted
      BY <2>5 DEF LeaveUncounted
    <3> QED
      BY <1>1, <3>1, <3>3, <3>4, InvParts DEF PlayersCovered
  <2> QED
    BY <1>7, <2>3, <2>7, <2>8, <2>9, <2>10, <2>11, InvPartsNext
<1>9. CASE state[r] # "active" /\ state' = state /\ todo' = Rest
  <2>1. TodoInv' /\ Pending' = Later
    BY <1>1, <1>2, <1>3, <1>9, NoCall
  <2>2. \A q : /\ Call("createRoom", q, None) \notin Pending'
               /\ Call("onDestroy", q, None) \notin Pending' \cup Pending
               /\ Call("evict", q, None) \in Pending' <=> Call("evict", q, None) \in Pending
               /\ Call("delete", q, None) \in Pending' <=> Call("delete", q, None) \in Pending
               /\ Call("autoDispose", q, None) \in Pending' <=> Call("autoDispose", q, None) \in Pending
               /\ q # r => (Call("destroy", q, None) \in Pending' <=> Call("destroy", q, None) \in Pending)
    BY <1>4, <1>5, <2>1
  <2>3. ClosingIsPending'
    BY <1>9, <2>2, InvParts DEF ClosingIsPending
  <2>4. DisposedOnce' /\ FacadesOpen'
    BY <1>1, <1>9, InvParts DEF DisposedOnce, FacadesOpen
  <2>5. OpenIsManaged'
    BY <1>1, <1>9, <2>2, InvParts DEF OpenIsManaged
  <2>6. Mirrored'
    BY <1>1, <1>9, <2>2, InvParts DEF Mirrored
  <2>7. RoomsCounted'
    <3>1. Doomed' = Doomed
      BY <2>2 DEF Doomed
    <3> QED
      BY <1>1, <2>2, <3>1, InvParts DEF RoomsCounted
  <2>8. PlayersCovered'
    <3>1. Occupied' = Occupied
      BY <1>1 DEF Occupied
    <3>2. members[r] = {} \/ Call("evict", r, None) \in Pending
      <4>1. CASE state[r] = "closing"
        BY <1>2, <2>2, <4>1, InvParts DEF ClosingIsPending
      <4>2. CASE state[r] \in {"none", "destroyed"}
        BY <1>2, <4>2, InvParts DEF Mirrored
      <4> QED
        BY <1>2, <1>9, <1>t, <4>1, <4>2 DEF StateTypes
    <3>3. \A q \in Room : \/ members[q] = {}
                          \/ (Call("destroy", q, None) \in Pending' \/ Call("evict", q, None) \in Pending')
                               <=> (Call("destroy", q, None) \in Pending \/ Call("evict", q, None) \in Pending)
      BY <2>2, <3>2
    <3>4. Counted' = Counted
      BY <3>1, <3>3 DEF Counted, Falling, Occupied
    <3>5. LeaveUncounted' <=> LeaveUncounted
      BY <2>2 DEF LeaveUncounted
    <3> QED
      BY <1>1, <3>1, <3>4, <3>5, InvParts DEF PlayersCovered
  <2> QED
    BY <1>7, <2>1, <2>3, <2>4, <2>5, <2>6, <2>7, <2>8, InvPartsNext
<1> QED
  BY <1>1, <1>8, <1>9

LEMMA EvictKeeps ==
  ASSUME IInv, Evict
  PROVE  IInv'
<1> DEFINE r == This.room
           d == Call("destroy", r, None)
<1>1. PICK p \in Staying(r) :
        /\ todo # << >> /\ This.call = "evict"
        /\ playerRoom' = [playerRoom EXCEPT ![p] = None]
        /\ inside' = [inside EXCEPT ![r] = @ \ {p}]
        /\ Hook("onLeave", r, p)
        /\ todo' = << >> \o todo \/ todo' = <<d>> \o todo
        /\ facades' = facades \cup {r}
        /\ UNCHANGED <<members, state, managed, created, disposals, activeRooms,
                       activeRoomPlayers, down>>
  BY DEF Evict, Now, This, roomVars, gauges, AfterEvict, Facade
<1>2. TodoInv /\ Rest \in Seq(Calls) /\ r \in Room /\ todo = <<This>> \o Rest
  <2>1. TodoInv /\ Rest \in Seq(Calls) /\ r \in Room /\ This \in Calls
    BY <1>1, CallNow DEF RoomCalls
  <2>2. todo = <<This>> \o Rest
    BY <1>1, <2>1 DEF This, Rest, TodoInv
  <2> QED
    BY <2>1, <2>2
<1>t. StateTypes
  BY InvParts
<1>3. \A q : /\ Call("createRoom", q, None) \notin Later
             /\ Call("onDestroy", q, None) \notin Later
             /\ Call("evict", q, None) \notin Later
  BY <1>1, Behind
<1>4. \A n : \A q : Call(n, q, None) \in Pending <=>
                      (n = "evict" /\ q = r) \/ Call(n, q, None) \in Later
  BY <1>1, Behind DEF RoomCalls
<1>5. This \in Calls /\ Pending = {This} \cup Later /\ \A e \in Later : e \in Calls /\ Precedes(This, e)
  BY <1>1, CallNow
<1>6. p \in Player /\ p \in members[r] /\ playerRoom[p] = r /\ p \in inside[r]
  BY <1>2, <1>t, InvParts DEF Staying, Mirrored, StateTypes
<1>7. SeatStep
  BY <1>1, <1>6, <1>t DEF SeatStep, StateTypes
<1>8. TodoInv' /\ (Pending' = Pending \/ Pending' = {d} \cup Pending)
  <2>1. CASE todo' = << >> \o todo
    <3>1. todo' = <<This>> \o Rest
      BY <1>2, <2>1 DEF TodoInv
    <3>2. TodoInv' /\ Pending' = {This} \cup Later
      BY <1>1, <1>2, <1>5, <1>7, <3>1, OneCall
    <3> QED
      BY <1>5, <3>2
  <2>2. CASE todo' = <<d>> \o todo
    <3>1. d \in Calls /\ d.call = "destroy" /\ d.room = r
      BY <1>2, CallIsCall DEF RoomCalls, Call
    <3>2. todo' = <<d, This>> \o Rest
      <4>1. <<d>> \o (<<This>> \o Rest) = <<d, This>> \o Rest
        BY <1>2, <1>5, <3>1
      <4> QED
        BY <1>2, <2>2, <4>1
    <3>3. Precedes(d, This)
      BY <1>1, <3>1 DEF Precedes, Inner
    <3>4. \A e \in Later : Precedes(d, e)
      BY <1>1, <1>5, <3>1 DEF Precedes, Inner
    <3>5. TodoInv' /\ Pending' = {d, This} \cup Later
      BY <1>1, <1>2, <1>5, <1>7, <3>1, <3>2, <3>3, <3>4, TwoCalls
    <3> QED
      BY <1>5, <3>5
  <2> QED
    BY <1>1, <2>1, <2>2
<1> HIDE DEF r
<1>9. \A q : /\ Call("createRoom", q, None) \notin Pending'
             /\ Call("onDestroy", q, None) \notin Pending' \cup Pending
             /\ Call("evict", q, None) \in Pending' <=> Call("evict", q, None) \in Pending
             /\ Call("delete", q, None) \in Pending' <=> Call("delete", q, None) \in Pending
             /\ Call("autoDispose", q, None) \in Pending' <=> Call("autoDispose", q, None) \in Pending
             /\ Call("destroy", q, None) \in Pending => Call("destroy", q, None) \in Pending'
             /\ q # r => (Call("destroy", q, None) \in Pending' <=> Call("destroy", q, None) \in Pending)
  <2>1. \A n : \A q : Call(n, q, None) = d <=> n = "destroy" /\ q = r
    BY CallsDiffer
  <2>2. \A n : \A q : Call(n, q, None) \in Pending' <=>
                        \/ Call(n, q, None) \in Pending
                        \/ d \in Pending' /\ n = "destroy" /\ q = r
    BY <1>8, <2>1
  <2>3. \A q : /\ Call("createRoom", q, None) \notin Pending
               /\ Call("onDestroy", q, None) \notin Pending
    BY <1>3, <1>4
  <2> QED
    BY <2>2, <2>3
<1>10. state[r] = "closing" /\ Call("evict", r, None) \in Pending
  BY <1>2, <1>4, InvParts DEF ClosingIsPending
<1>11. StateTypes' /\ HookType'
  <2>1. HookType'
    BY <1>1, <1>2, <1>6, HookTyped DEF Hooks
  <2>2. playerRoom' \in [Player -> Room \cup {None}] /\ inside' \in [Room -> SUBSET Player]
    BY <1>1, <1>t DEF StateTypes
  <2> QED
    BY <1>1, <1>2, <1>t, <2>1, <2>2 DEF StateTypes
<1>12. ClosingIsPending' /\ DisposedOnce' /\ FacadesOpen' /\ OpenIsManaged'
  <2>1. ClosingIsPending'
    BY <1>1, <1>9, InvParts DEF ClosingIsPending
  <2>2. DisposedOnce' /\ FacadesOpen'
    BY <1>1, <1>2, <1>10, InvParts DEF DisposedOnce, FacadesOpen
  <2>3. OpenIsManaged'
    BY <1>1, <1>9, InvParts DEF OpenIsManaged
  <2> QED
    BY <2>1, <2>2, <2>3
<1>13. Mirrored'
  <2>1. \A q \in Room : inside'[q] = {x \in Player : playerRoom'[x] = q}
    <3>1. \A q \in Room : inside[q] = {x \in Player : playerRoom[x] = q}
      BY InvParts DEF Mirrored
    <3>2. \A q \in Room : inside'[q] = IF q = r THEN inside[q] \ {p} ELSE inside[q]
      BY <1>1, <1>t DEF StateTypes
    <3>3. \A x \in Player : playerRoom'[x] = IF x = p THEN None ELSE playerRoom[x]
      BY <1>1, <1>t DEF StateTypes
    <3>4. ASSUME NEW q \in Room, NEW x
          PROVE  x \in inside'[q] <=> x \in {y \in Player : playerRoom'[y] = q}
      <4>1. CASE x = p
        <5>1. playerRoom'[p] = None /\ None # q
          BY <1>6, <3>3, NoneIsNoId
        <5>2. q # r => p \notin inside[q]
          BY <1>6, <3>1
        <5>3. p \notin inside'[q]
          BY <3>2, <5>2
        <5> QED
          BY <4>1, <5>1, <5>3
      <4>2. CASE x # p
        BY <3>1, <3>2, <3>3, <4>2
      <4> QED
        BY <4>1, <4>2
    <3> QED
      BY <3>4
  <2>2. \A q \in Room : inside'[q] \subseteq inside[q] /\ (q # r => inside'[q] = inside[q])
    BY <1>1, <1>t DEF StateTypes
  <2> QED
    BY <1>1, <1>9, <1>10, <2>1, <2>2, InvParts DEF Mirrored
<1>14. RoomsCounted'
  <2>1. Doomed' = Doomed
    BY <1>9 DEF Doomed
  <2> QED
    BY <1>1, <1>9, <2>1, InvParts DEF RoomsCounted
<1>15. PlayersCovered'
  <2>1. Occupied' = Occupied
    BY <1>1 DEF Occupied
  <2>2. \A q : (Call("destroy", q, None) \in Pending' \/ Call("evict", q, None) \in Pending')
                 <=> (Call("destroy", q, None) \in Pending \/ Call("evict", q, None) \in Pending)
    BY <1>9, <1>10
  <2>3. Counted' = Counted
    BY <2>1, <2>2 DEF Counted, Falling
  <2>4. LeaveUncounted' <=> LeaveUncounted
    BY <1>9 DEF LeaveUncounted
  <2> QED
    BY <1>1, <2>1, <2>3, <2>4, InvParts DEF PlayersCovered
<1> QED
  BY <1>8, <1>11, <1>12, <1>13, <1>14, <1>15, InvPartsNext

LEMMA EvictEndsKeeps ==
  ASSUME IInv, EvictEnds
  PROVE  IInv'
<1> DEFINE r == This.room
           e == Call("onDestroy", r, None)
<1>1. /\ todo # << >> /\ This.call = "evict" /\ hook' = << >>
      /\ Staying(r) = {}
      /\ members' = [members EXCEPT ![r] = {}]
      /\ todo' = <<e>> \o Rest
      /\ UNCHANGED <<playerRoom, state, managed, created, inside, disposals, facades,
                     activeRooms, activeRoomPlayers, down>>
  BY DEF EvictEnds, Now, This, roomVars, gauges
<1>2. TodoInv /\ Rest \in Seq(Calls) /\ r \in Room
  BY <1>1, CallNow DEF RoomCalls
<1>t. StateTypes
  BY InvParts
<1>3. \A q : /\ Call("createRoom", q, None) \notin Later
             /\ Call("onDestroy", q, None) \notin Later
             /\ Call("evict", q, None) \notin Later
  BY <1>1, Behind
<1>4. \A n : \A q : Call(n, q, None) \in Pending <=>
                      (n = "evict" /\ q = r) \/ Call(n, q, None) \in Later
  BY <1>1, Behind DEF RoomCalls
<1>5. SeatStep
  BY <1>1, SeatsStay
<1>6. TodoInv' /\ Pending' = {e} \cup Later
  <2>1. e \in Calls /\ e.call = "onDestroy"
    BY <1>2, CallIsCall DEF RoomCalls, Call
  <2>2. \A d \in Later : Precedes(This, d)
    BY <1>1, CallNow
  <2>3. \A d \in Later : Precedes(e, d)
    BY <1>1, <2>1, <2>2 DEF Precedes, Inner
  <2> QED
    BY <1>1, <1>2, <1>5, <2>1, <2>3, OneCall
<1>7. inside[r] = {}
  BY <1>1, <1>2, InvParts DEF Mirrored, Staying
<1> HIDE DEF r
<1>8. \A n : \A q : Call(n, q, None) \in Pending' <=>
                      (n = "onDestroy" /\ q = r) \/ Call(n, q, None) \in Later
  BY <1>6, CallsDiffer
<1>9. \A q : /\ Call("createRoom", q, None) \notin Pending'
             /\ Call("onDestroy", q, None) \in Pending' <=> q = r
             /\ Call("onDestroy", q, None) \notin Pending
             /\ Call("evict", q, None) \notin Pending'
             /\ Call("evict", q, None) \in Pending <=> q = r
             /\ Call("delete", q, None) \in Pending' <=> Call("delete", q, None) \in Pending
             /\ Call("autoDispose", q, None) \in Pending' <=> Call("autoDispose", q, None) \in Pending
             /\ Call("destroy", q, None) \in Pending' <=> Call("destroy", q, None) \in Pending
  BY <1>3, <1>4, <1>8
<1>10. \A q \in Room : members'[q] = IF q = r THEN {} ELSE members[q]
  BY <1>1, <1>t DEF StateTypes
<1>11. StateTypes' /\ HookType'
  BY <1>1, <1>t, NoHookTyped DEF StateTypes
<1>12. ClosingIsPending' /\ DisposedOnce' /\ FacadesOpen' /\ OpenIsManaged'
  BY <1>1, <1>9, InvParts DEF ClosingIsPending, DisposedOnce, FacadesOpen, OpenIsManaged
<1>13. Mirrored'
  BY <1>1, <1>7, <1>9, <1>10, InvParts DEF Mirrored
<1>14. RoomsCounted'
  <2>1. Doomed' = Doomed
    BY <1>9 DEF Doomed
  <2> QED
    BY <1>1, <1>9, <2>1, InvParts DEF RoomsCounted
<1>15. PlayersCovered'
  <2>1. Occupied' \subseteq Occupied /\ \A rp \in Occupied' : rp[1] # r
    BY <1>10 DEF Occupied
  <2>2. \A rp \in Occupied : rp[1] # r => rp \in Occupied'
    BY <1>10 DEF Occupied
  <2>3. \A q : q # r =>
          ((Call("destroy", q, None) \in Pending' \/ Call("evict", q, None) \in Pending')
             <=> (Call("destroy", q, None) \in Pending \/ Call("evict", q, None) \in Pending))
    BY <1>9
  <2>4. Counted' = Counted
    <3>1. ASSUME NEW rp \in Counted' PROVE rp \in Counted
      BY <2>1, <2>3 DEF Counted, Falling
    <3>2. ASSUME NEW rp \in Counted PROVE rp \in Counted'
      <4>1. rp[1] # r
        BY <1>9 DEF Counted, Falling
      <4> QED
        BY <2>2, <2>3, <4>1 DEF Counted, Falling
    <3> QED
      BY <3>1, <3>2
  <2>5. LeaveUncounted' <=> LeaveUncounted
    BY <1>9 DEF LeaveUncounted
  <2>6. IsFiniteSet(Occupied')
    BY <2>1, InvParts, FS_Subset DEF PlayersCovered
  <2> QED
    BY <1>1, <2>4, <2>5, <2>6, InvParts DEF PlayersCovered
<1> QED
  BY <1>6, <1>11, <1>12, <1>13, <1>14, <1>15, InvPartsNext

LEMMA OnDestroyKeeps ==
  ASSUME IInv, OnDestroy
  PROVE  IInv'
<1> DEFINE r == This.room
<1>1. /\ todo # << >> /\ This.call = "onDestroy" /\ todo' = Rest
      /\ state' = [state EXCEPT ![r] = "destroyed"]
      /\ disposals' = [disposals EXCEPT ![r] = @ + 1]
      /\ facades' = facades \ {r}
      /\ Hook("onDispose", r, None)
      /\ UNCHANGED <<members, playerRoom, managed, created, inside,
                     activeRooms, activeRoomPlayers, down>>
  BY DEF OnDestroy, Now, This, seatVars, gauges, FacadeFreed
<1>2. TodoInv /\ Rest \in Seq(Calls) /\ r \in Room
  BY <1>1, CallNow DEF RoomCalls
<1>t. StateTypes
  BY InvParts
<1>3. \A q : /\ Call("createRoom", q, None) \notin Later
             /\ Call("onDestroy", q, None) \notin Later
             /\ Call("evict", q, None) \notin Later
  BY <1>1, Behind
<1>4. \A n : \A q : Call(n, q, None) \in Pending <=>
                      (n = "onDestroy" /\ q = r) \/ Call(n, q, None) \in Later
  BY <1>1, Behind DEF RoomCalls
<1>5. TodoInv' /\ Pending' = Later
  BY <1>1, <1>2, NoCall, SeatsStay
<1> HIDE DEF r
<1>6. \A q : /\ Call("createRoom", q, None) \notin Pending'
             /\ Call("onDestroy", q, None) \notin Pending'
             /\ Call("onDestroy", q, None) \in Pending <=> q = r
             /\ Call("evict", q, None) \notin Pending'
             /\ Call("evict", q, None) \notin Pending
             /\ Call("delete", q, None) \in Pending' <=> Call("delete", q, None) \in Pending
             /\ Call("autoDispose", q, None) \in Pending' <=> Call("autoDispose", q, None) \in Pending
             /\ Call("destroy", q, None) \in Pending' <=> Call("destroy", q, None) \in Pending
  BY <1>3, <1>4, <1>5
<1>7. state[r] = "closing" /\ members[r] = {} /\ disposals[r] = 0
  BY <1>2, <1>6, InvParts DEF ClosingIsPending, Mirrored, DisposedOnce
<1>8. /\ \A q \in Room : state'[q] = IF q = r THEN "destroyed" ELSE state[q]
      /\ \A q \in Room : disposals'[q] = IF q = r THEN 1 ELSE disposals[q]
  BY <1>1, <1>7, <1>t DEF StateTypes
<1>9. StateTypes' /\ HookType'
  <2>1. HookType'
    BY <1>1, <1>2, HookTyped DEF Hooks
  <2>2. /\ state' \in [Room -> {"none", "active", "closing", "destroyed"}]
        /\ disposals' \in [Room -> 0..1]
    <3>1. disposals' = [disposals EXCEPT ![r] = 1]
      BY <1>1, <1>2, <1>7, <1>t DEF StateTypes
    <3> QED
      BY <1>1, <1>2, <1>t, <3>1 DEF StateTypes
  <2> QED
    BY <1>1, <1>t, <2>1, <2>2 DEF StateTypes
<1>10. ClosingIsPending'
  BY <1>6, <1>8, InvParts DEF ClosingIsPending
<1>11. DisposedOnce' /\ FacadesOpen' /\ OpenIsManaged'
  <2>1. DisposedOnce'
    BY <1>8, InvParts DEF DisposedOnce
  <2>2. FacadesOpen'
    BY <1>1, <1>8, InvParts DEF FacadesOpen
  <2>3. OpenIsManaged'
    BY <1>1, <1>6, <1>8, InvParts DEF OpenIsManaged
  <2> QED
    BY <2>1, <2>2, <2>3
<1>12. Mirrored'
  BY <1>1, <1>6, <1>7, <1>8, InvParts DEF Mirrored
<1>13. RoomsCounted'
  <2>1. Doomed' = Doomed
    BY <1>6 DEF Doomed
  <2> QED
    BY <1>1, <1>6, <2>1, InvParts DEF RoomsCounted
<1>14. PlayersCovered'
  <2>1. Occupied' = Occupied
    BY <1>1 DEF Occupied
  <2>2. Counted' = Counted
    BY <1>6, <2>1 DEF Counted, Falling
  <2>3. LeaveUncounted' <=> LeaveUncounted
    BY <1>6 DEF LeaveUncounted
  <2> QED
    BY <1>1, <2>1, <2>2, <2>3, InvParts DEF PlayersCovered
<1> QED
  BY <1>5, <1>9, <1>10, <1>11, <1>12, <1>13, <1>14, InvPartsNext

LEMMA DeleteKeeps ==
  ASSUME IInv, Delete
  PROVE  IInv'
<1> DEFINE r == This.room
<1>1. /\ todo # << >> /\ This.call = "delete" /\ todo' = Rest /\ hook' = << >>
      /\ managed' = managed \ {r}
      /\ UNCHANGED <<members, playerRoom, state, created, inside, disposals, facades,
                     activeRooms, activeRoomPlayers, down>>
  BY DEF Delete, Now, This, seatVars, gauges
<1>2. TodoInv /\ Rest \in Seq(Calls) /\ r \in Room
  BY <1>1, CallNow DEF RoomCalls
<1>t. StateTypes
  BY InvParts
<1>3. \A q : /\ Call("createRoom", q, None) \notin Later
             /\ Call("onDestroy", q, None) \notin Later
             /\ Call("evict", q, None) \notin Later
             /\ Call("destroy", q, None) \notin Later
             /\ Call("autoDispose", q, None) \notin Later
  BY <1>1, Behind DEF Inner
<1>4. \A n : \A q : Call(n, q, None) \in Pending <=>
                      (n = "delete" /\ q = r) \/ Call(n, q, None) \in Later
  BY <1>1, Behind DEF RoomCalls
<1>5. TodoInv' /\ Pending' = Later
  BY <1>1, <1>2, NoCall, SeatsStay
<1> HIDE DEF r
<1>6. \A q : /\ Call("createRoom", q, None) \notin Pending'
             /\ Call("onDestroy", q, None) \notin Pending'
             /\ Call("onDestroy", q, None) \notin Pending
             /\ Call("evict", q, None) \notin Pending'
             /\ Call("evict", q, None) \notin Pending
             /\ Call("delete", q, None) \in Pending' => Call("delete", q, None) \in Pending
             /\ q # r => (Call("delete", q, None) \in Pending' <=> Call("delete", q, None) \in Pending)
             /\ Call("delete", r, None) \in Pending
             /\ Call("autoDispose", q, None) \notin Pending'
             /\ Call("destroy", q, None) \notin Pending
             /\ Call("destroy", q, None) \notin Pending'
  BY <1>3, <1>4, <1>5
<1>7. StateTypes' /\ HookType'
  BY <1>1, <1>t, NoHookTyped DEF StateTypes
<1>8. ClosingIsPending' /\ DisposedOnce' /\ FacadesOpen' /\ Mirrored'
  BY <1>1, <1>6, InvParts DEF ClosingIsPending, DisposedOnce, FacadesOpen, Mirrored
<1>9. OpenIsManaged'
  BY <1>1, <1>6, InvParts DEF OpenIsManaged
<1>10. RoomsCounted'
  <2>1. managed' \ Doomed' = managed \ Doomed
    <3>1. \A q : q \in managed' \ Doomed' <=> q \in managed \ Doomed
      BY <1>1, <1>2, <1>6 DEF Doomed
    <3> QED
      BY <3>1
  <2>2. IsFiniteSet(managed')
    BY <1>1, InvParts, FS_Subset DEF RoomsCounted
  <2> QED
    BY <1>1, <1>6, <2>1, <2>2, InvParts DEF RoomsCounted
<1>11. PlayersCovered'
  <2>1. Occupied' = Occupied
    BY <1>1 DEF Occupied
  <2>2. Counted' = Counted
    BY <1>6, <2>1 DEF Counted, Falling
  <2>3. ~LeaveUncounted'
    BY <1>6 DEF LeaveUncounted
  <2> QED
    BY <1>1, <2>1, <2>2, <2>3, InvParts DEF PlayersCovered
<1> QED
  BY <1>5, <1>7, <1>8, <1>9, <1>10, <1>11, InvPartsNext

\* Each call keeps the invariant.
LEMMA CallsKeep ==
  ASSUME IInv, Step
  PROVE  IInv'
BY CreateRoomKeeps, DetachNobodyKeeps, DetachKeeps, AutoDisposesKeeps, AddPlayerRefusedKeeps,
   AddPlayerKeeps, StartRoomKeeps, DestroyRoomKeeps, DestroyKeeps, EvictKeeps, EvictEndsKeeps,
   OnDestroyKeeps, DeleteKeeps
   DEF Step
-------------------------------------------------------------------------------
(* The handlers begin when the one before has ended.                       *)

\* A handler begins: nobody has moved yet, and its calls ask for no more than
\* the moment between two handlers grants.
LEMMA HandlerBegins ==
  ASSUME IInv, todo = << >>,
         StateTypes', HookType', TodoInv', FacadesOpen',
         UNCHANGED <<members, playerRoom, state, managed, inside, disposals,
                     activeRooms, activeRoomPlayers>>,
         \A q \in Room : /\ Call("createRoom", q, None) \in Pending' => q \notin managed
                         /\ Call("evict", q, None) \notin Pending'
                         /\ Call("onDestroy", q, None) \notin Pending'
                         /\ Call("autoDispose", q, None) \notin Pending'
                         /\ Call("delete", q, None) \in Pending' => Call("destroy", q, None) \in Pending',
         down' = TRUE \/ (down' = down /\ Doomed' = {})
  PROVE  IInv'
<1>t. StateTypes
  BY InvParts
<1>1. /\ \A q \in Room : state[q] # "closing"
      /\ Doomed = {} /\ Counted = Occupied
  BY NothingIsClosing
<1>2. ClosingIsPending' /\ DisposedOnce' /\ OpenIsManaged'
  BY <1>1, InvParts DEF ClosingIsPending, DisposedOnce, OpenIsManaged
<1>3. Mirrored'
  BY InvParts DEF Mirrored
<1>4. RoomsCounted'
  <2>1. /\ IsFiniteSet(managed) /\ activeRooms >= Cardinality(managed)
        /\ (~down => activeRooms = Cardinality(managed))
    <3>1. managed \ Doomed = managed
      BY <1>1
    <3> QED
      BY <3>1, InvParts DEF RoomsCounted
  <2>2. IsFiniteSet(managed \ Doomed') /\ Cardinality(managed \ Doomed') <= Cardinality(managed)
    BY <2>1, FS_Subset
  <2>3. /\ Cardinality(managed) \in Nat /\ Cardinality(managed \ Doomed') \in Nat
        /\ activeRooms \in Nat
    BY <1>t, <2>1, <2>2, FS_CardinalityType DEF StateTypes
  <2>4. activeRooms >= Cardinality(managed \ Doomed')
    BY <2>1, <2>2, <2>3
  <2>5. ~down' => activeRooms = Cardinality(managed \ Doomed')
    <3> SUFFICES ASSUME ~down' PROVE activeRooms = Cardinality(managed \ Doomed')
      OBVIOUS
    <3>1. ~down /\ managed \ Doomed' = managed
      OBVIOUS
    <3> QED
      BY <2>1, <3>1
  <2> QED
    BY <2>1, <2>4, <2>5 DEF RoomsCounted
<1>5. PlayersCovered'
  <2>1. Occupied' = Occupied /\ IsFiniteSet(Occupied)
        /\ activeRoomPlayers >= Cardinality(Occupied)
    BY <1>1, InvParts DEF Occupied, PlayersCovered
  <2>2. Counted' \subseteq Occupied
    BY <2>1 DEF Counted
  <2>3. Cardinality(Counted') <= Cardinality(Occupied) /\ IsFiniteSet(Counted')
    BY <2>1, <2>2, FS_Subset
  <2>4. /\ Cardinality(Counted') \in Nat /\ Cardinality(Occupied) \in Nat
        /\ activeRoomPlayers \in Nat
    BY <1>t, <2>1, <2>3, FS_CardinalityType DEF StateTypes
  <2>5. activeRoomPlayers >= Cardinality(Counted')
    BY <2>1, <2>3, <2>4
  <2>6. ~LeaveUncounted'
    BY DEF LeaveUncounted
  <2> QED
    BY <2>1, <2>5, <2>6 DEF PlayersCovered
<1> QED
  BY <1>2, <1>3, <1>4, <1>5, InvPartsNext

\* Handlers of no call, of one call and of two.
LEMMA NoCallBegins ==
  ASSUME todo' = << >>
  PROVE  TodoInv' /\ Pending' = {}
BY DEF TodoInv, Ordered, JoinsAreFree, Pending

LEMMA OneCallBegins ==
  ASSUME NEW c \in Calls, todo' = <<c>>,
         c.call = "addPlayer" => playerRoom'[c.player] \in {None, c.room}
  PROVE  TodoInv' /\ Pending' = {c}
<1>1. todo' \in Seq(Calls) /\ DOMAIN todo' = {1} /\ todo'[1] = c
  OBVIOUS
<1>2. Ordered'
  BY <1>1 DEF Ordered
<1>3. JoinsAreFree'
  BY <1>1 DEF JoinsAreFree
<1> QED
  BY <1>1, <1>2, <1>3 DEF TodoInv, Pending

LEMMA TwoCallsBegin ==
  ASSUME NEW p \in Player, NEW r \in Room,
         todo' = <<Call("detach", None, p)>> \o <<Call("addPlayer", r, p)>>
  PROVE  TodoInv' /\ Pending' = {Call("detach", None, p), Call("addPlayer", r, p)}
<1> DEFINE c == Call("detach", None, p)
           d == Call("addPlayer", r, p)
<1>1. c \in Calls /\ d \in Calls /\ c.call = "detach" /\ d.call = "addPlayer" /\ d.player = p
  BY CallIsCall DEF Call
<1>2. todo' \in Seq(Calls) /\ DOMAIN todo' = {1, 2} /\ todo'[1] = c /\ todo'[2] = d
  BY <1>1
<1> HIDE DEF d
<1>3. Ordered'
  BY <1>1, <1>2 DEF Ordered, Precedes
<1>4. JoinsAreFree'
  <2>1. \A i \in DOMAIN todo' : todo'[i].call = "addPlayer" => i = 2
    BY <1>1, <1>2
  <2> QED
    BY <1>1, <1>2, <2>1 DEF JoinsAreFree
<1> QED
  BY <1>2, <1>3, <1>4 DEF TodoInv, Pending, d

LEMMA LeaveKeeps ==
  ASSUME IInv, NEW p \in Player, Leave(p)
  PROVE  IInv'
<1> DEFINE c == Call("detach", None, p)
<1>1. /\ todo = << >> /\ hook' = << >> /\ todo' = <<c>>
      /\ UNCHANGED <<members, playerRoom, state, managed, created, inside, disposals, facades,
                     activeRooms, activeRoomPlayers, down>>
  BY DEF Leave, Runs, seatVars, roomVars, gauges
<1>2. c \in Calls /\ c.call = "detach"
  BY CallIsCall DEF Call
<1>3. TodoInv' /\ Pending' = {c}
  BY <1>1, <1>2, OneCallBegins
<1>4. \A n : \A q : Call(n, q, None) \in Pending' => n = "detach"
  BY <1>3, CallsDiffer
<1>5. StateTypes' /\ HookType' /\ FacadesOpen'
  BY <1>1, InvParts, NoHookTyped DEF StateTypes, FacadesOpen
<1>6. Doomed' = {}
  BY <1>4 DEF Doomed
<1> QED
  BY <1>1, <1>3, <1>4, <1>5, <1>6, HandlerBegins

LEMMA JoinKeeps ==
  ASSUME IInv, NEW p \in Player, NEW r \in Room, Join(p, r)
  PROVE  IInv'
<1> DEFINE c == Call("detach", None, p)
           d == Call("addPlayer", r, p)
<1>1. /\ todo = << >> /\ hook' = << >> /\ todo' = JoinCalls(p, r)
      /\ UNCHANGED <<members, playerRoom, state, managed, created, inside, disposals, facades,
                     activeRooms, activeRoomPlayers, down>>
  BY DEF Join, Runs, seatVars, roomVars, gauges
<1>2. TodoInv' /\ Pending' \subseteq {c, d}
  <2>1. CASE playerRoom[p] \in {None, r}
    <3>1. todo' = << >> \o <<d>>
      BY <1>1, <2>1 DEF JoinCalls
    <3>2. todo' = <<d>>
      BY <3>1
    <3>3. d \in Calls /\ d.player = p /\ d.room = r
      BY CallIsCall DEF Call
    <3> QED
      BY <1>1, <2>1, <3>2, <3>3, OneCallBegins
  <2>2. CASE playerRoom[p] \notin {None, r}
    <3>1. todo' = <<c>> \o <<d>>
      BY <1>1, <2>2 DEF JoinCalls
    <3> QED
      BY <3>1, TwoCallsBegin
  <2> QED
    BY <2>1, <2>2
<1>3. \A n : \A q : Call(n, q, None) \in Pending' => n \in {"detach", "addPlayer"}
  BY <1>2, CallsDiffer
<1>4. StateTypes' /\ HookType' /\ FacadesOpen'
  BY <1>1, InvParts, NoHookTyped DEF StateTypes, FacadesOpen
<1>5. Doomed' = {}
  BY <1>3 DEF Doomed
<1> QED
  BY <1>1, <1>2, <1>3, <1>4, <1>5, HandlerBegins

\* A sequence between two elements.
LEMMA Between ==
  ASSUME NEW S, NEW b \in S, NEW e \in S, NEW s \in Seq(S)
  PROVE  LET f == <<b>> \o s \o <<e>> IN
         /\ f \in Seq(S) /\ Len(f) = Len(s) + 2 /\ f[1] = b /\ f[Len(s) + 2] = e
         /\ \A i \in 2..(Len(s) + 1) : f[i] = s[i - 1]
<1> DEFINE f == <<b>> \o s \o <<e>>
<1>1. f \in Seq(S) /\ Len(f) = Len(s) + 2
  OBVIOUS
<1>2. f[1] = b
  OBVIOUS
<1>3. f[Len(s) + 2] = e
  OBVIOUS
<1>4. \A i \in 2..(Len(s) + 1) : f[i] = s[i - 1]
  OBVIOUS
<1> QED
  BY <1>1, <1>2, <1>3, <1>4

LEMMA EvenHalf == \A a \in Int : a % 2 = 0 => a = 2 * (a \div 2) /\ a \div 2 \in Int
OBVIOUS

\* The calls of a match, one by one.
LEMMA MatchCalls ==
  ASSUME NEW group \in Groups, NEW r \in Room,
         todo' = <<Call("createRoom", r, None)>> \o SeatCalls(group, r)
                 \o <<Call("start", r, None)>>
  PROVE  /\ TodoInv'
         /\ \A c \in Pending' : \/ c \in {Call("createRoom", r, None), Call("start", r, None)}
                                \/ c.call \in {"detach", "addPlayer"}
<1> DEFINE b == Call("createRoom", r, None)
           e == Call("start", r, None)
           seats == SeatCalls(group, r)
<1>1. PICK n \in Nat : group \in [1..n -> Player]
  BY DEF Groups
<1>2. Len(group) = n
  BY <1>1
<1>3. \A i \in 1..(2 * n) : /\ (i + 1) \div 2 \in 1..n
                            /\ i % 2 \in {0, 1}
  BY <1>1
<1>4. /\ b \in Calls /\ e \in Calls /\ b.call = "createRoom" /\ e.call = "start"
  BY CallIsCall DEF RoomCalls, Call
<1>5. \A i \in 1..(2 * n) :
        /\ i % 2 = 1 => seats[i] = Call("detach", None, group[(i + 1) \div 2])
        /\ i % 2 = 0 => seats[i] = Call("addPlayer", r, group[(i + 1) \div 2])
  BY <1>2 DEF SeatCalls
<1>6. \A i \in 1..(2 * n) :
        /\ seats[i] \in Calls
        /\ seats[i].call \in {"detach", "addPlayer"}
        /\ seats[i].call = "addPlayer" => i % 2 = 0 /\ seats[i].room = r
                                          /\ seats[i].player = group[(i + 1) \div 2]
  <2> SUFFICES ASSUME NEW i \in 1..(2 * n)
               PROVE  /\ seats[i] \in Calls
                      /\ seats[i].call \in {"detach", "addPlayer"}
                      /\ seats[i].call = "addPlayer" =>
                           i % 2 = 0 /\ seats[i].room = r
                           /\ seats[i].player = group[(i + 1) \div 2]
    OBVIOUS
  <2>1. group[(i + 1) \div 2] \in Player
    BY <1>1, <1>3
  <2> DEFINE p == group[(i + 1) \div 2]
  <2> HIDE DEF p
  <2>2. CASE i % 2 = 1
    <3>1. seats[i] = Call("detach", None, p)
      BY <1>5, <2>2 DEF p
    <3>2. seats[i] \in Calls /\ seats[i].call = "detach"
      BY <2>1, <3>1, CallIsCall DEF Call, p
    <3> QED
      BY <3>2
  <2>3. CASE i % 2 = 0
    <3>1. seats[i] = Call("addPlayer", r, p)
      BY <1>5, <2>3 DEF p
    <3>2. seats[i] \in Calls /\ seats[i].call = "addPlayer" /\ seats[i].room = r /\ seats[i].player = p
      BY <2>1, <3>1, CallIsCall DEF Call, p
    <3> QED
      BY <2>3, <3>2 DEF p
  <2> QED
    BY <1>3, <2>2, <2>3
<1>7. seats \in Seq(Calls) /\ Len(seats) = 2 * n
  <2>1. seats = [i \in 1..(2 * n) |-> seats[i]]
    BY <1>2 DEF SeatCalls
  <2>2. 2 * n \in Nat
    BY <1>1
  <2> HIDE DEF seats
  <2>3. seats \in [1..(2 * n) -> Calls]
    BY <1>6, <2>1
  <2> QED
    BY <2>2, <2>3
<1> HIDE DEF b, e, seats
<1>8. /\ todo' \in Seq(Calls) /\ DOMAIN todo' = 1..(2 * n + 2)
      /\ todo'[1] = b /\ todo'[2 * n + 2] = e
      /\ \A i \in 2..(2 * n + 1) : todo'[i] = seats[i - 1]
  <2>1. todo' = <<b>> \o seats \o <<e>>
    BY DEF b, e, seats
  <2>2. 2 * n \in Nat
    BY <1>1
  <2>3. /\ todo' \in Seq(Calls) /\ Len(todo') = 2 * n + 2
        /\ todo'[1] = b /\ todo'[2 * n + 2] = e
        /\ \A i \in 2..(2 * n + 1) : todo'[i] = seats[i - 1]
    <3>1. b \in Calls /\ e \in Calls /\ seats \in Seq(Calls) /\ Len(seats) = 2 * n
      BY <1>4, <1>7
    <3>2. LET f == <<b>> \o seats \o <<e>> IN
          /\ f \in Seq(Calls) /\ Len(f) = 2 * n + 2 /\ f[1] = b /\ f[2 * n + 2] = e
          /\ \A i \in 2..(2 * n + 1) : f[i] = seats[i - 1]
      BY <3>1, Between
    <3> QED
      BY <2>1, <3>2
  <2> QED
    BY <2>3
<1>9. \A i \in 1..(2 * n + 2) : \/ i = 1
                                \/ i = 2 * n + 2
                                \/ i \in 2..(2 * n + 1) /\ i - 1 \in 1..(2 * n)
  OBVIOUS
<1>10. \A i \in 1..(2 * n + 2) :
         /\ i = 1 \/ todo'[i].call \in {"detach", "addPlayer", "start"}
         /\ todo'[i].call = "addPlayer" => i \in 2..(2 * n + 1) /\ i - 1 \in 1..(2 * n)
                                           /\ todo'[i] = seats[i - 1]
         /\ todo'[i] \in {b, e} \/ todo'[i].call \in {"detach", "addPlayer"}
  <2> TAKE i \in 1..(2 * n + 2)
  <2>1. CASE i = 1
    BY <1>4, <1>8, <2>1
  <2>2. CASE i = 2 * n + 2
    BY <1>4, <1>8, <2>2
  <2>3. CASE i \in 2..(2 * n + 1) /\ i - 1 \in 1..(2 * n)
    BY <1>6, <1>8, <2>3
  <2> QED
    BY <1>9, <2>1, <2>2, <2>3
<1>11. Ordered'
  <2> SUFFICES ASSUME NEW i \in 1..(2 * n + 2), NEW j \in 1..(2 * n + 2), j < i
               PROVE  Precedes(todo'[j], todo'[i])
    BY <1>8 DEF Ordered, Precedes
  <2>1. i # 1
    OBVIOUS
  <2>2. todo'[i].call \in {"detach", "addPlayer", "start"}
    BY <1>10, <2>1
  <2> QED
    BY <2>2 DEF Precedes
<1>12. JoinsAreFree'
  <2>1. ASSUME NEW i \in 1..(2 * n + 2), todo'[i].call = "addPlayer"
        PROVE  /\ todo'[i].room = r
               /\ i > 1 /\ todo'[i - 1] = Call("detach", None, todo'[i].player)
    <3>1. /\ i \in 2..(2 * n + 1) /\ i - 1 \in 1..(2 * n) /\ todo'[i] = seats[i - 1]
          /\ (i - 1) % 2 = 0 /\ todo'[i].room = r /\ todo'[i].player = group[i \div 2]
      <4>1. i \in 2..(2 * n + 1) /\ i - 1 \in 1..(2 * n) /\ todo'[i] = seats[i - 1]
        BY <1>10, <2>1
      <4>2. (i - 1) + 1 = i
        OBVIOUS
      <4> QED
        BY <1>6, <2>1, <4>1, <4>2
    <3>2. /\ i - 1 \in 2..(2 * n + 1) /\ i - 2 \in 1..(2 * n) /\ (i - 2) % 2 = 1
          /\ ((i - 2) + 1) \div 2 = i \div 2 /\ (i - 1) - 1 = i - 2
      <4>1. PICK k \in Int : i - 1 = 2 * k
        <5>1. i - 1 \in Int /\ (i - 1) % 2 = 0
          BY <3>1
        <5>2. (i - 1) \div 2 \in Int /\ i - 1 = 2 * ((i - 1) \div 2)
          BY <5>1, EvenHalf
        <5> QED
          BY <5>2
      <4>2. i \in 2..(2 * n + 1) /\ i - 1 \in 1..(2 * n)
        BY <3>1
      <4>3. i \in Int /\ i = 2 * k + 1 /\ k >= 1
        BY <4>1, <4>2
      <4>4. i \div 2 = k /\ ((i - 2) + 1) \div 2 = k /\ (i - 2) % 2 = 1
        BY <4>3
      <4> QED
        BY <4>2, <4>3, <4>4
    <3>3. todo'[i - 1] = seats[i - 2]
      BY <1>8, <3>2
    <3>4. seats[i - 2] = Call("detach", None, group[i \div 2])
      BY <1>5, <3>2
    <3>5. i > 1
      BY <3>1
    <3> QED
      BY <3>1, <3>3, <3>4, <3>5
  <2>2. DOMAIN todo' = 1..(2 * n + 2)
    BY <1>8
  <2>3. \A i, j \in DOMAIN todo' :
          todo'[i].call = "addPlayer" /\ todo'[j].call = "addPlayer" => todo'[i].room = todo'[j].room
    BY <2>1, <2>2
  <2>4. \A i \in DOMAIN todo' : todo'[i].call = "addPlayer" =>
          i > 1 /\ todo'[i - 1] = Call("detach", None, todo'[i].player)
    BY <2>1, <2>2
  <2> QED
    BY <2>3, <2>4 DEF JoinsAreFree
<1>13. \A c \in Pending' : c \in {b, e} \/ c.call \in {"detach", "addPlayer"}
  BY <1>8, <1>10 DEF Pending
<1> QED
  BY <1>8, <1>11, <1>12, <1>13 DEF TodoInv, b, e

LEMMA MatchKeeps ==
  ASSUME IInv, NEW group \in Groups, NEW r \in Room, Match(group, r)
  PROVE  IInv'
<1>1. /\ todo = << >> /\ hook' = << >> /\ r \notin managed
      /\ todo' = <<Call("createRoom", r, None)>> \o SeatCalls(group, r)
                 \o <<Call("start", r, None)>>
      /\ UNCHANGED <<members, playerRoom, state, managed, created, inside, disposals, facades,
                     activeRooms, activeRoomPlayers, down>>
  BY DEF Match, Runs, seatVars, roomVars, gauges
<1>2. /\ TodoInv'
      /\ \A c \in Pending' : \/ c \in {Call("createRoom", r, None), Call("start", r, None)}
                             \/ c.call \in {"detach", "addPlayer"}
  BY <1>1, MatchCalls
<1>3. \A n : \A q : Call(n, q, None) \in Pending' =>
                      /\ n \in {"createRoom", "start", "detach", "addPlayer"}
                      /\ n = "createRoom" => q = r
  <2> TAKE n
  <2> TAKE q
  <2>1. Call(n, q, None).call = n
    BY DEF Call
  <2>2. ASSUME Call(n, q, None) \in {Call("createRoom", r, None), Call("start", r, None)}
        PROVE  n \in {"createRoom", "start"} /\ q = r
    BY <2>2, CallsDiffer
  <2> QED
    BY <1>2, <2>1, <2>2
<1>4. StateTypes' /\ HookType' /\ FacadesOpen'
  BY <1>1, InvParts, NoHookTyped DEF StateTypes, FacadesOpen
<1>5. Doomed' = {}
  BY <1>3 DEF Doomed
<1> QED
  BY <1>1, <1>2, <1>3, <1>4, <1>5, HandlerBegins

\* Two sequences of the same length, one behind the other.
LEMMA OneBehindTheOther ==
  ASSUME NEW S, NEW s \in Seq(S), NEW t \in Seq(S), Len(s) = Len(t)
  PROVE  LET f == s \o t
             n == Len(s)
         IN /\ f \in Seq(S) /\ Len(f) = n + n
            /\ \A i \in 1..n : f[i] = s[i]
            /\ \A i \in (n + 1)..(n + n) : f[i] = t[i - n] /\ i - n \in 1..n
<1> DEFINE f == s \o t
           n == Len(s)
<1>1. f \in Seq(S) /\ Len(f) = n + n
  OBVIOUS
<1>2. \A i \in 1..n : f[i] = s[i]
  OBVIOUS
<1>3. \A i \in (n + 1)..(n + n) : f[i] = t[i - n] /\ i - n \in 1..n
  OBVIOUS
<1> QED
  BY <1>1, <1>2, <1>3

\* A room class is handed the input of a player who is in a room that is open.
LEMMA SeatedInOpenRoom ==
  ASSUME IInv, todo = << >>, NEW p \in Player, playerRoom[p] \in Room
  PROVE  state[playerRoom[p]] = "active" /\ playerRoom[p] \in facades
<1> DEFINE r == playerRoom[p]
<1>1. p \in inside[r] /\ inside[r] \subseteq members[r]
  BY InvParts DEF Mirrored
<1>2. state[r] \notin {"none", "destroyed"}
  BY <1>1, InvParts DEF Mirrored
<1>3. state[r] # "closing"
  BY NothingIsClosing
<1>4. state[r] = "active"
  BY <1>2, <1>3, InvParts DEF StateTypes
<1> QED
  BY <1>4, InvParts DEF FacadesOpen

LEMMA MessageKeeps ==
  ASSUME IInv, NEW p \in Player, Message(p)
  PROVE  IInv'
<1> DEFINE r == playerRoom[p]
           c == Call("destroyRoom", r, None)
<1>1. /\ todo = << >> /\ r \in Realtime /\ Hook("onMessage", r, p)
      /\ \/ todo' = << >> /\ facades' = facades
         \/ todo' = <<c>> /\ facades' = facades \cup {r}
      /\ UNCHANGED <<members, playerRoom, state, managed, created, inside, disposals,
                     activeRooms, activeRoomPlayers, down>>
  BY DEF Message, seatVars, roomVars, gauges, Facade
<1>2. r \in Room /\ r \in facades
  BY <1>1, KindAssumption, SeatedInOpenRoom
<1> HIDE DEF r
<1>3. TodoInv' /\ Pending' \subseteq {c}
  <2>1. c \in Calls /\ c.call = "destroyRoom"
    BY <1>2, CallIsCall DEF RoomCalls, Call
  <2> QED
    BY <1>1, <2>1, NoCallBegins, OneCallBegins
<1>4. \A n : \A q : Call(n, q, None) \in Pending' => n = "destroyRoom"
  BY <1>3, CallsDiffer
<1>5. StateTypes' /\ HookType' /\ FacadesOpen'
  <2>1. HookType'
    BY <1>1, <1>2, HookTyped DEF Hooks
  <2>2. facades' = facades
    BY <1>1, <1>2
  <2> QED
    BY <1>1, <2>1, <2>2, InvParts DEF StateTypes, FacadesOpen
<1>6. Doomed' = {}
  BY <1>4 DEF Doomed
<1> QED
  BY <1>1, <1>3, <1>4, <1>5, <1>6, HandlerBegins

\* A handler that is one destroy() of a room, or nothing.
LEMMA DestroyBegins ==
  ASSUME IInv, todo = << >>, NEW r \in Room, StateTypes', HookType', FacadesOpen',
         UNCHANGED <<members, playerRoom, state, managed, inside, disposals,
                     activeRooms, activeRoomPlayers, down>>,
         todo' = << >> \/ todo' = <<Call("destroy", r, None)>>
  PROVE  IInv'
<1> DEFINE c == Call("destroy", r, None)
<1>1. TodoInv' /\ Pending' \subseteq {c}
  <2>1. c \in Calls /\ c.call = "destroy"
    BY CallIsCall DEF RoomCalls, Call
  <2> QED
    BY <2>1, NoCallBegins, OneCallBegins
<1>2. \A n : \A q : Call(n, q, None) \in Pending' => n = "destroy"
  BY <1>1, CallsDiffer
<1>3. Doomed' = {}
  BY <1>2 DEF Doomed
<1> QED
  BY <1>1, <1>2, <1>3, HandlerBegins

LEMMA TurnMessageKeeps ==
  ASSUME IInv, NEW p \in Player, TurnMessage(p)
  PROVE  IInv'
<1> DEFINE r == playerRoom[p]
<1>1. /\ todo = << >> /\ r \in Room /\ Hook("onMessage", r, p)
      /\ todo' = << >> \/ todo' = <<Call("destroy", r, None)>>
      /\ UNCHANGED <<members, playerRoom, state, managed, created, inside, disposals, facades,
                     activeRooms, activeRoomPlayers, down>>
  BY DEF TurnMessage, seatVars, roomVars, gauges
<1>2. StateTypes' /\ HookType' /\ FacadesOpen'
  <2>1. HookType'
    BY <1>1, HookTyped DEF Hooks
  <2> QED
    BY <1>1, <2>1, InvParts DEF StateTypes, FacadesOpen
<1> HIDE DEF r
<1> QED
  BY <1>1, <1>2, DestroyBegins

LEMMA TickThrowsKeeps ==
  ASSUME IInv, NEW r \in Room, TickThrows(r)
  PROVE  IInv'
<1>1. /\ todo = << >> /\ hook' = << >> /\ todo' = <<Call("destroy", r, None)>>
      /\ UNCHANGED <<members, playerRoom, state, managed, created, inside, disposals, facades,
                     activeRooms, activeRoomPlayers, down>>
  BY DEF TickThrows, Runs, seatVars, roomVars, gauges
<1>2. StateTypes' /\ HookType' /\ FacadesOpen'
  BY <1>1, InvParts, NoHookTyped DEF StateTypes, FacadesOpen
<1> QED
  BY <1>1, <1>2, DestroyBegins

LEMMA CreateSettlesKeeps ==
  ASSUME IInv, NEW r \in Room, CreateSettles(r)
  PROVE  IInv'
<1>1. /\ todo = << >> /\ hook' = << >> /\ todo' = << >>
      /\ created' = [created EXCEPT ![r] = "done"]
      /\ UNCHANGED <<members, playerRoom, state, managed, inside, disposals, facades,
                     activeRooms, activeRoomPlayers, down>>
  BY DEF CreateSettles, seatVars, gauges
<1>2. StateTypes' /\ HookType' /\ FacadesOpen'
  BY <1>1, InvParts, NoHookTyped DEF StateTypes, FacadesOpen
<1> QED
  BY <1>1, <1>2, DestroyBegins

\* The rooms that clear() goes through.
LEMMA ManagedInSequence ==
  ASSUME IsFiniteSet(managed), managed \subseteq Room
  PROVE  LET rooms == SetToSeq(managed) IN
         /\ rooms \in Seq(Room)
         /\ \A r \in managed : \E i \in DOMAIN rooms : rooms[i] = r
<1> DEFINE n == Cardinality(managed)
<1>1. n \in Nat /\ ExistsBijection(1..n, managed)
  BY FS_CardinalityType
<1>2. \E f \in [1..n -> managed] : IsInjective(f)
  <2>1. PICK f : f \in Bijection(1..n, managed)
    BY <1>1, Fun_ExistsBij
  <2>2. f \in [1..n -> managed] /\ \A a, b \in 1..n : f[a] = f[b] => a = b
    BY <2>1, Fun_BijectionProperties
  <2> QED
    BY <2>2 DEF IsInjective
<1>3. SetToSeq(managed) \in [1..n -> managed] /\ IsInjective(SetToSeq(managed))
  BY <1>2 DEF SetToSeq
<1>4. SetToSeq(managed) \in Surjection(1..n, managed)
  <2>1. SetToSeq(managed) \in Injection(1..n, managed)
    BY <1>3 DEF Injection
  <2>2. Cardinality(1..n) = Cardinality(managed)
    BY <1>1, FS_Interval
  <2> QED
    BY <2>1, <2>2, FS_Injection
<1> QED
  BY <1>1, <1>3, <1>4 DEF Surjection

\* The calls of clear(): every room is destroyed, then every room deleted.
LEMMA ClearCalls ==
  ASSUME IInv, Clear
  PROVE  /\ TodoInv'
         /\ \A c \in Pending' : c.call \in {"destroy", "delete"}
         /\ \A q : Call("delete", q, None) \in Pending' => Call("destroy", q, None) \in Pending'
         /\ \A q \in managed : Call("delete", q, None) \in Pending'
<1> DEFINE rooms == SetToSeq(managed)
           n == Len(rooms)
           first == [i \in DOMAIN rooms |-> Call("destroy", rooms[i], None)]
           last == [i \in DOMAIN rooms |-> Call("delete", rooms[i], None)]
<1>1. /\ todo = << >> /\ hook' = << >> /\ down' = TRUE
      /\ todo' = first \o last
      /\ UNCHANGED <<members, playerRoom, state, managed, created, inside, disposals, facades,
                     activeRooms, activeRoomPlayers>>
  BY DEF Clear, Runs, seatVars, roomVars
<1>2. rooms \in Seq(Room) /\ \A q \in managed : \E i \in DOMAIN rooms : rooms[i] = q
  BY InvParts, ManagedInSequence DEF RoomsCounted, StateTypes
<1> HIDE DEF rooms
<1>3. n \in Nat /\ DOMAIN rooms = 1..n /\ \A i \in 1..n : rooms[i] \in Room
  BY <1>2
<1> HIDE DEF n
<1>4. \A q \in Room : /\ Call("destroy", q, None) \in Calls /\ Call("delete", q, None) \in Calls
                      /\ Call("destroy", q, None).call = "destroy"
                      /\ Call("delete", q, None).call = "delete"
  BY CallIsCall DEF RoomCalls, Call
<1>5. /\ first \in Seq(Calls) /\ Len(first) = n
      /\ last \in Seq(Calls) /\ Len(last) = n
  <2>1. first = [i \in 1..n |-> first[i]] /\ last = [i \in 1..n |-> last[i]]
    BY <1>3
  <2>2. \A i \in 1..n : first[i] \in Calls /\ last[i] \in Calls
    BY <1>3, <1>4
  <2> HIDE DEF first, last
  <2>3. first \in [1..n -> Calls] /\ last \in [1..n -> Calls]
    BY <2>1, <2>2
  <2> QED
    BY <1>3, <2>3
<1>6. \A i \in 1..n : /\ first[i] = Call("destroy", rooms[i], None)
                      /\ last[i] = Call("delete", rooms[i], None)
  BY <1>3
<1> HIDE DEF first, last
<1>7. /\ todo' \in Seq(Calls) /\ DOMAIN todo' = 1..(n + n)
      /\ \A i \in 1..n : todo'[i] = first[i]
      /\ \A i \in (n + 1)..(n + n) : todo'[i] = last[i - n] /\ i - n \in 1..n
  <2>1. LET f == first \o last IN
        /\ f \in Seq(Calls) /\ Len(f) = n + n
        /\ \A i \in 1..n : f[i] = first[i]
        /\ \A i \in (n + 1)..(n + n) : f[i] = last[i - n] /\ i - n \in 1..n
    BY <1>5, OneBehindTheOther
  <2>2. \A f \in Seq(Calls) : DOMAIN f = 1..Len(f)
    OBVIOUS
  <2> QED
    BY <1>1, <2>1, <2>2
<1>8. \A i \in 1..(n + n) : i \in 1..n \/ i \in (n + 1)..(n + n)
  BY <1>3
<1>9. /\ \A i \in 1..n : todo'[i].call = "destroy"
      /\ \A i \in (n + 1)..(n + n) : todo'[i].call = "delete"
  BY <1>3, <1>4, <1>6, <1>7
<1>10. Ordered'
  <2> SUFFICES ASSUME NEW i \in 1..(n + n), NEW j \in 1..(n + n), j < i
               PROVE  Precedes(todo'[j], todo'[i])
    BY <1>7 DEF Ordered, Precedes
  <2>1. CASE i \in 1..n
    <3>1. j \in 1..n
      BY <1>3, <2>1
    <3> QED
      BY <1>9, <2>1, <3>1 DEF Precedes, Inner
  <2>2. CASE i \in (n + 1)..(n + n)
    <3>1. todo'[j].call \in {"destroy", "delete"} /\ todo'[i].call = "delete"
      BY <1>8, <1>9, <2>2
    <3> QED
      BY <3>1 DEF Precedes, Inner
  <2> QED
    BY <1>8, <2>1, <2>2
<1>11. JoinsAreFree'
  <2>1. \A i \in DOMAIN todo' : todo'[i].call # "addPlayer"
    BY <1>7, <1>8, <1>9
  <2> QED
    BY <2>1 DEF JoinsAreFree
<1>12. \A c \in Pending' : c.call \in {"destroy", "delete"}
  BY <1>7, <1>8, <1>9 DEF Pending
<1>13. ASSUME NEW q, Call("delete", q, None) \in Pending'
       PROVE  Call("destroy", q, None) \in Pending'
  <2>1. PICK i \in 1..(n + n) : todo'[i] = Call("delete", q, None)
    BY <1>7, <1>13 DEF Pending
  <2>2. i \notin 1..n
    <3>1. todo'[i].call = "delete"
      BY <2>1 DEF Call
    <3> QED
      BY <1>9, <3>1
  <2>3. i - n \in 1..n /\ todo'[i] = Call("delete", rooms[i - n], None)
    BY <1>6, <1>7, <1>8, <2>2
  <2>4. rooms[i - n] = q
    BY <2>1, <2>3, CallsDiffer
  <2>5. todo'[i - n] = Call("destroy", q, None)
    BY <1>6, <1>7, <2>3, <2>4
  <2>6. i - n \in DOMAIN todo'
    BY <1>3, <1>7, <2>3
  <2> QED
    BY <2>5, <2>6 DEF Pending
<1>14. ASSUME NEW q \in managed
       PROVE  Call("delete", q, None) \in Pending'
  <2>1. PICK i \in 1..n : rooms[i] = q
    BY <1>2, <1>3
  <2>2. i + n \in (n + 1)..(n + n) /\ i + n \in 1..(n + n) /\ (i + n) - n = i
    BY <1>3
  <2>3. todo'[i + n] = Call("delete", q, None)
    BY <1>6, <1>7, <2>1, <2>2
  <2> QED
    BY <1>7, <2>2, <2>3 DEF Pending
<1>15. TodoInv'
  BY <1>7, <1>10, <1>11 DEF TodoInv
<1> QED
  BY <1>12, <1>13, <1>14, <1>15

LEMMA ClearKeeps ==
  ASSUME IInv, Clear
  PROVE  IInv'
<1>1. /\ todo = << >> /\ hook' = << >> /\ down' = TRUE
      /\ UNCHANGED <<members, playerRoom, state, managed, created, inside, disposals, facades,
                     activeRooms, activeRoomPlayers>>
  BY DEF Clear, Runs, seatVars, roomVars
<1>2. \A m : \A q : Call(m, q, None) \in Pending' => m \in {"destroy", "delete"}
  BY ClearCalls DEF Call
<1>3. StateTypes' /\ HookType' /\ FacadesOpen'
  BY <1>1, InvParts, NoHookTyped DEF StateTypes, FacadesOpen
<1> QED
  BY <1>1, <1>2, <1>3, ClearCalls, HandlerBegins
-------------------------------------------------------------------------------
(* The invariant, and what follows from it.                                *)

LEMMA InitEstablishes ==
  ASSUME Init
  PROVE  IInv
<1>1. /\ state = [r \in Room |-> "none"] /\ managed = {}
      /\ members = [r \in Room |-> {}] /\ playerRoom = [p \in Player |-> None]
      /\ created = [r \in Room |-> "no"] /\ inside = [r \in Room |-> {}]
      /\ disposals = [r \in Room |-> 0] /\ facades = {}
      /\ activeRooms = 0 /\ activeRoomPlayers = 0 /\ down = FALSE
      /\ hook = << >> /\ todo = << >>
  BY DEF Init
<1>2. Pending = {} /\ Occupied = {}
  BY <1>1 DEF Pending, Occupied
<1>3. StateTypes /\ HookType
  <2>1. HookType
    BY <1>1 DEF HookType
  <2>2. state \in [Room -> {"none", "active", "closing", "destroyed"}]
    BY <1>1
  <2>3. created \in [Room -> {"no", "pending", "done"}] /\ disposals \in [Room -> 0..1]
    BY <1>1
  <2>4. /\ members \in [Room -> SUBSET Player] /\ inside \in [Room -> SUBSET Player]
        /\ playerRoom \in [Player -> Room \cup {None}]
    BY <1>1
  <2> QED
    BY <1>1, <2>1, <2>2, <2>3, <2>4 DEF StateTypes
<1>4. TodoInv
  BY <1>1 DEF TodoInv, Ordered, JoinsAreFree
<1>5. ClosingIsPending /\ DisposedOnce /\ FacadesOpen /\ OpenIsManaged
  BY <1>1, <1>2 DEF ClosingIsPending, DisposedOnce, FacadesOpen, OpenIsManaged
<1>6. Mirrored
  <2>1. \A r \in Room : inside[r] = {p \in Player : playerRoom[p] = r}
    BY <1>1, NoneIsNoId
  <2> QED
    BY <1>1, <1>2, <2>1 DEF Mirrored
<1>7. RoomsCounted
  <2>1. managed \ Doomed = {} /\ IsFiniteSet(managed) /\ Cardinality(managed \ Doomed) = 0
    BY <1>1, FS_EmptySet
  <2> QED
    BY <1>1, <1>2, <2>1 DEF RoomsCounted
<1>8. PlayersCovered
  <2>1. Counted = {} /\ IsFiniteSet(Occupied) /\ Cardinality(Counted) = 0
    BY <1>2, FS_EmptySet DEF Counted
  <2>2. ~LeaveUncounted
    BY <1>2 DEF LeaveUncounted
  <2> QED
    BY <1>1, <2>1, <2>2 DEF PlayersCovered
<1> QED
  BY <1>3, <1>4, <1>5, <1>6, <1>7, <1>8, InvParts

LEMMA StutterKeeps ==
  ASSUME IInv, UNCHANGED vars
  PROVE  IInv'
<1>1. UNCHANGED <<state, managed, members, playerRoom, created, inside, disposals, facades,
                  activeRooms, activeRoomPlayers, down, hook, todo>>
  BY DEF vars, seatVars, roomVars, userVars, gauges
<1>2. Pending' = Pending
  BY <1>1 DEF Pending
<1>3. StateTypes' /\ HookType' /\ TodoInv'
  BY <1>1, InvParts DEF StateTypes, HookType, TodoInv, Ordered, JoinsAreFree
<1>4. ClosingIsPending' /\ Mirrored' /\ DisposedOnce' /\ FacadesOpen' /\ OpenIsManaged'
  BY <1>1, <1>2, InvParts DEF ClosingIsPending, Mirrored, DisposedOnce, FacadesOpen, OpenIsManaged
<1>5. RoomsCounted'
  BY <1>1, <1>2, InvParts DEF RoomsCounted, Doomed
<1>6. PlayersCovered'
  BY <1>1, <1>2, InvParts DEF PlayersCovered, Occupied, Counted, Falling, LeaveUncounted
<1> QED
  BY <1>3, <1>4, <1>5, <1>6, InvPartsNext

LEMMA StepKeeps ==
  ASSUME IInv, [Next]_vars
  PROVE  IInv'
<1>1. CASE Next
  BY <1>1, CallsKeep, LeaveKeeps, MessageKeeps, TurnMessageKeeps, JoinKeeps, TickThrowsKeeps,
     CreateSettlesKeeps, MatchKeeps, ClearKeeps
     DEF Next
<1>2. CASE UNCHANGED vars
  BY <1>2, StutterKeeps
<1> QED
  BY <1>1, <1>2

\* Whatever the hooks of room classes do, what a handler has done and what it
\* has still to do fit together.
THEOREM Invariance == Spec => []IInv
<1>1. Init => IInv
  BY InitEstablishes
<1>2. IInv /\ [Next]_vars => IInv'
  BY StepKeeps
<1> QED
  BY <1>1, <1>2, PTL DEF Spec

\* The rooms, seats, facades, gauges and calls have their types.
THEOREM TypeCorrect == Spec => []TypeOK
<1>1. IInv => TypeOK
  BY DEF IInv
<1> QED
  BY <1>1, Invariance, PTL

\* No onLeave and no onDispose is lost, whichever hooks throw: when a handler has
\* ended, the room class knows whom the server has in the room, and a room that
\* is gone has been disposed of once.
THEOREM NobodyIsForgotten == Spec => []NobodyForgotten
<1>1. IInv => NobodyForgotten
  <2> SUFFICES ASSUME IInv, todo = << >>, NEW r \in Room
               PROVE  /\ inside[r] = members[r]
                      /\ disposals[r] = IF state[r] = "destroyed" THEN 1 ELSE 0
                      /\ state[r] \in {"none", "active", "destroyed"}
    BY DEF NobodyForgotten
  <2>1. state[r] # "closing" /\ members[r] = inside[r]
    BY NothingIsClosing
  <2>2. state[r] \in {"none", "active", "closing", "destroyed"}
    BY InvParts DEF StateTypes
  <2> QED
    BY <2>1, <2>2, InvParts DEF DisposedOnce
<1> QED
  BY <1>1, Invariance, PTL

\* The adapter has one facade for each open room, and none of a room that is gone.
THEOREM FacadesFollow == Spec => []FacadesFollowRooms
<1>1. IInv => FacadesFollowRooms
  <2> SUFFICES ASSUME IInv, todo = << >>
               PROVE  facades = {r \in Room : state[r] = "active"}
    BY DEF FacadesFollowRooms
  <2>1. \A r \in Room : state[r] # "closing"
    BY NothingIsClosing
  <2> QED
    BY <2>1, InvParts DEF FacadesOpen
<1> QED
  BY <1>1, Invariance, PTL

\* The gauges of rooms and of players in rooms are never too low between two
\* handlers, and that of rooms is exact until shutdown().
THEOREM GaugesCover == Spec => []GaugesCoverRooms
<1>1. IInv => GaugesCoverRooms
  <2> SUFFICES ASSUME IInv, todo = << >>
               PROVE  /\ activeRoomPlayers >= Cardinality(Occupied)
                      /\ activeRooms >= Cardinality(managed)
                      /\ ~down => activeRooms = Cardinality(managed)
    BY DEF GaugesCoverRooms, Occupied
  <2>1. Doomed = {} /\ Counted = Occupied
    BY NothingIsClosing
  <2>2. managed \ Doomed = managed
    BY <2>1
  <2> QED
    BY <2>1, <2>2, InvParts DEF RoomsCounted, PlayersCovered
<1> QED
  BY <1>1, Invariance, PTL
-------------------------------------------------------------------------------
(* The order of the hooks.                                                 *)

\* A player whose seat is in a room is inside it and nowhere else, and the room
\* has not been disposed of.
LEMMA SeatedIsInside ==
  ASSUME IInv, NEW p \in Player, NEW r \in Room, playerRoom[p] = r
  PROVE  /\ disposals[r] = 0 /\ p \in inside[r]
         /\ \A q \in Room \ {r} : p \notin inside[q]
<1>1. p \in inside[r] /\ inside[r] \subseteq members[r]
  BY InvParts DEF Mirrored
<1>2. state[r] # "destroyed"
  BY <1>1, InvParts DEF Mirrored
<1> QED
  BY <1>1, <1>2, InvParts DEF Mirrored, DisposedOnce

\* What HooksInOrder says of a step.
HookInOrder ==
  \A r \in Room, p \in Player :
    /\ hook' = <<"onJoin", r, p>> =>
         disposals[r] = 0 /\ \A q \in Room \ {r} : p \notin inside[q]
    /\ hook' = <<"onLeave", r, p>> => disposals[r] = 0 /\ p \in inside[r]
    /\ hook' = <<"onMessage", r, p>> => disposals[r] = 0 /\ p \in inside[r]
    /\ hook' = <<"onDispose", r, None>> => disposals[r] = 0 /\ inside[r] = {}

LEMMA QuietInOrder ==
  ASSUME hook' = << >>
  PROVE  HookInOrder
BY DEF HookInOrder

LEMMA HookIs ==
  ASSUME NEW n, NEW r, NEW p, Hook(n, r, p),
         NEW m, NEW q, NEW o, hook' = <<m, q, o>>
  PROVE  n = m /\ r = q /\ p = o
BY DEF Hook

LEMMA CallInOrder ==
  ASSUME IInv, Step
  PROVE  HookInOrder
<1>1. CASE CreateRoom
  <2>1. Hook("onCreate", This.room, None)
    BY <1>1 DEF CreateRoom
  <2> QED
    BY <2>1, HookIs DEF HookInOrder
<1>2. CASE Detach
  <2>1. /\ todo # << >> /\ This.call = "detach" /\ playerRoom[This.player] # None
        /\ Hook("onLeave", playerRoom[This.player], This.player)
    BY <1>2 DEF Detach, Now, This
  <2>2. This.player \in Player /\ playerRoom[This.player] \in Room
    BY <2>1, CallNow, InvParts DEF StateTypes
  <2>3. /\ disposals[playerRoom[This.player]] = 0
        /\ This.player \in inside[playerRoom[This.player]]
    BY <2>2, SeatedIsInside
  <2> QED
    BY <2>1, <2>3, HookIs DEF HookInOrder
<1>3. CASE AddPlayer
  <2>1. /\ todo # << >> /\ This.call = "addPlayer" /\ state[This.room] = "active"
        /\ Hook("onJoin", This.room, This.player)
    BY <1>3 DEF AddPlayer, Now, This, Accepts
  <2>2. This.player \in Player /\ This.room \in Room /\ TodoInv
    BY <2>1, CallNow
  <2>3. playerRoom[This.player] \in {None, This.room}
    <3>1. 1 \in DOMAIN todo /\ This = todo[1]
      BY <2>1, <2>2 DEF This, TodoInv
    <3> QED
      BY <2>1, <2>2, <3>1 DEF TodoInv, JoinsAreFree
  <2>4. disposals[This.room] = 0
    BY <2>1, <2>2, InvParts DEF DisposedOnce
  <2>5. \A q \in Room \ {This.room} : This.player \notin inside[q]
    BY <2>2, <2>3, InvParts, NoneIsNoId DEF Mirrored
  <2> QED
    BY <2>1, <2>4, <2>5, HookIs DEF HookInOrder
<1>4. CASE Evict
  <2>1. PICK p \in Staying(This.room) :
          todo # << >> /\ This.call = "evict" /\ Hook("onLeave", This.room, p)
    BY <1>4 DEF Evict, Now, This
  <2>2. This.room \in Room
    BY <2>1, CallNow DEF RoomCalls
  <2>3. p \in Player /\ playerRoom[p] = This.room
    BY <2>1, <2>2, InvParts DEF Staying, StateTypes
  <2>4. disposals[This.room] = 0 /\ p \in inside[This.room]
    BY <2>2, <2>3, SeatedIsInside
  <2> QED
    BY <2>1, <2>4, HookIs DEF HookInOrder
<1>5. CASE OnDestroy
  <2>1. todo # << >> /\ This.call = "onDestroy" /\ Hook("onDispose", This.room, None)
    BY <1>5 DEF OnDestroy, Now, This
  <2>2. /\ This.room \in Room
        /\ Call("onDestroy", This.room, None) \in Pending
    BY <2>1, CallNow DEF RoomCalls
  <2>3. state[This.room] = "closing" /\ members[This.room] = {}
    BY <2>2, InvParts DEF ClosingIsPending, Mirrored
  <2>4. disposals[This.room] = 0 /\ inside[This.room] = {}
    BY <2>2, <2>3, InvParts DEF DisposedOnce, Mirrored
  <2> QED
    BY <2>1, <2>4, HookIs DEF HookInOrder
<1>6. CASE hook' = << >>
  BY <1>6, QuietInOrder
<1> QED
  BY <1>1, <1>2, <1>3, <1>4, <1>5, <1>6
     DEF Step, DetachNobody, AutoDisposes, AddPlayerRefused, StartRoom, DestroyRoom, Destroy,
         EvictEnds, Delete

LEMMA MessageInOrder ==
  ASSUME IInv, NEW p \in Player, Message(p) \/ TurnMessage(p)
  PROVE  HookInOrder
<1>1. /\ todo = << >> /\ playerRoom[p] \in Room /\ Hook("onMessage", playerRoom[p], p)
  BY KindAssumption DEF Message, TurnMessage
<1>2. disposals[playerRoom[p]] = 0 /\ p \in inside[playerRoom[p]]
  BY <1>1, SeatedIsInside
<1> QED
  BY <1>1, <1>2, HookIs DEF HookInOrder

LEMMA NextInOrder ==
  ASSUME IInv, Next
  PROVE  HookInOrder
<1>1. CASE Step
  BY <1>1, CallInOrder
<1>2. ASSUME NEW p \in Player, Message(p) \/ TurnMessage(p)
      PROVE  HookInOrder
  BY <1>2, MessageInOrder
<1>3. CASE hook' = << >>
  BY <1>3, QuietInOrder
<1> QED
  BY <1>1, <1>2, <1>3
     DEF Next, Leave, Join, Match, TickThrows, CreateSettles, Clear, Runs

\* The hooks of a room come in the documented order for any number of players
\* and rooms: a player is in one room at a time and leaves it before it joins
\* another, and onDispose comes once, last, when everyone has been taken leave of.
THEOREM HooksAreInOrder == Spec => HooksInOrder
<1>1. IInv /\ [Next]_vars => [HookInOrder]_vars
  BY NextInOrder
<1> QED
  BY <1>1, Invariance, PTL DEF Spec, HooksInOrder, HookInOrder
-------------------------------------------------------------------------------
(* The calls of a handler implement the seating plan of module Seating.    *)

\* The phase of a room in a state of BaseRoom.
PhaseOf(s) == CASE s = "active" -> "open" [] s = "closing" -> "closing" [] OTHER -> "closed"

\* The actions of the plan, of the mapped state.
LEMMA PlanStutters == UNCHANGED <<Phase, playerRoom>> => UNCHANGED Plan!vars
BY DEF Plan!vars

LEMMA PlanOpens ==
  ASSUME NEW r \in Room, Phase[r] = "closed", Phase' = [Phase EXCEPT ![r] = "open"],
         UNCHANGED playerRoom
  PROVE  Plan!Next
<1>1. Plan!Opens(r)
  BY DEF Plan!Opens
<1> QED
  BY <1>1 DEF Plan!Next

LEMMA PlanBeginsToClose ==
  ASSUME NEW r \in Room, Phase[r] = "open", Phase' = [Phase EXCEPT ![r] = "closing"],
         UNCHANGED playerRoom
  PROVE  Plan!Next
<1>1. Plan!BeginsToClose(r)
  BY DEF Plan!BeginsToClose
<1> QED
  BY <1>1 DEF Plan!Next

LEMMA PlanCloses ==
  ASSUME NEW r \in Room, Phase[r] = "closing", {p \in Player : playerRoom[p] = r} = {},
         Phase' = [Phase EXCEPT ![r] = "closed"], UNCHANGED playerRoom
  PROVE  Plan!Next
<1>1. Plan!Closes(r)
  BY DEF Plan!Closes, Plan!Seated
<1> QED
  BY <1>1 DEF Plan!Next

LEMMA PlanStandsUp ==
  ASSUME NEW p \in Player, playerRoom[p] # None,
         playerRoom' = [playerRoom EXCEPT ![p] = None], UNCHANGED Phase
  PROVE  Plan!Next
<1>1. Plan!StandsUp(p)
  BY DEF Plan!StandsUp
<1> QED
  BY <1>1 DEF Plan!Next

LEMMA PlanSitsDown ==
  ASSUME NEW p \in Player, NEW r \in Room, Phase[r] = "open", playerRoom[p] = None,
         Cardinality({x \in Player : playerRoom[x] = r}) < Capacity[r],
         playerRoom' = [playerRoom EXCEPT ![p] = r], UNCHANGED Phase
  PROVE  Plan!Next
<1>1. Plan!Seated(r) = {x \in Player : playerRoom[x] = r}
  BY DEF Plan!Seated
<1>2. Plan!Cardinality(Plan!Seated(r)) = Cardinality(Plan!Seated(r))
  BY DEF Plan!Cardinality, Cardinality
<1>3. Plan!SitsDown(p, r)
  BY <1>1, <1>2 DEF Plan!SitsDown
<1> QED
  BY <1>3 DEF Plan!Next

\* The state of one room changes, and its phase with it.
LEMMA PhaseChanges ==
  ASSUME state \in [Room -> {"none", "active", "closing", "destroyed"}],
         NEW r \in Room, NEW s, state' = [state EXCEPT ![r] = s]
  PROVE  /\ Phase' = [Phase EXCEPT ![r] = PhaseOf(s)]
         /\ Phase[r] = PhaseOf(state[r])
BY DEF Phase, PhaseOf

LEMMA Phases ==
  /\ PhaseOf("active") = "open" /\ PhaseOf("closing") = "closing"
  /\ PhaseOf("none") = "closed" /\ PhaseOf("destroyed") = "closed"
BY DEF PhaseOf

LEMMA NothingSeen ==
  ASSUME UNCHANGED <<state, playerRoom>>
  PROVE  UNCHANGED Plan!vars
<1>1. UNCHANGED Phase
  BY DEF Phase
<1> QED
  BY <1>1, PlanStutters

LEMMA CallSeated ==
  ASSUME IInv, Step
  PROVE  Plan!Next \/ UNCHANGED Plan!vars
<1>t. StateTypes /\ state \in [Room -> {"none", "active", "closing", "destroyed"}]
  BY InvParts DEF StateTypes
<1>1. CASE CreateRoom
  <2>1. /\ todo # << >> /\ This.call = "createRoom" /\ UNCHANGED playerRoom
        /\ state' = [state EXCEPT ![This.room] = "active"]
    BY <1>1 DEF CreateRoom, Now, This, seatVars
  <2>2. This.room \in Room /\ Call("createRoom", This.room, None) \in Pending
    BY <2>1, CallNow DEF RoomCalls
  <2>3. This.room \notin managed
    BY <2>2, InvParts DEF RoomsCounted
  <2>4. state[This.room] # "active"
    BY <2>2, <2>3, InvParts DEF OpenIsManaged
  <2>5. state[This.room] # "closing"
    BY <2>1, <2>2, NothingIsClosing DEF Outer
  <2>6. state[This.room] \in {"none", "destroyed"}
    BY <1>t, <2>2, <2>4, <2>5
  <2>7. PICK r \in Room : r = This.room
    BY <2>2
  <2>8. Phase[r] = "closed" /\ Phase' = [Phase EXCEPT ![r] = "open"]
    <3>1. state' = [state EXCEPT ![r] = "active"]
      BY <1>t, <2>1, <2>6, <2>7
    <3>2. Phase' = [Phase EXCEPT ![r] = PhaseOf("active")] /\ Phase[r] = PhaseOf(state[r])
      BY <1>t, <3>1, PhaseChanges
    <3> QED
      BY <1>t, <2>1, <2>6, <2>7, <3>2, Phases
  <2> QED
    BY <2>1, <2>8, PlanOpens
<1>2. CASE Detach
  <2>1. /\ todo # << >> /\ This.call = "detach" /\ playerRoom[This.player] # None
        /\ playerRoom' = [playerRoom EXCEPT ![This.player] = None]
        /\ UNCHANGED state
    BY <1>2 DEF Detach, Now, This, roomVars
  <2>2. This.player \in Player
    BY <2>1, CallNow
  <2>3. UNCHANGED Phase
    BY <2>1 DEF Phase
  <2> QED
    BY <2>1, <2>2, <2>3, PlanStandsUp
<1>3. CASE AddPlayer
  <2>1. /\ todo # << >> /\ This.call = "addPlayer" /\ state[This.room] = "active"
        /\ Cardinality(members[This.room]) < Capacity[This.room]
        /\ playerRoom' = [playerRoom EXCEPT ![This.player] = This.room]
        /\ UNCHANGED state
    BY <1>3 DEF AddPlayer, Now, This, roomVars, Accepts
  <2>2. This.player \in Player /\ This.room \in Room /\ TodoInv
    BY <2>1, CallNow
  <2>3. playerRoom[This.player] \in {None, This.room}
    <3>1. 1 \in DOMAIN todo /\ This = todo[1]
      BY <2>1, <2>2 DEF This, TodoInv
    <3> QED
      BY <2>1, <2>2, <3>1 DEF TodoInv, JoinsAreFree
  <2>4. UNCHANGED Phase
    BY <2>1 DEF Phase
  <2>5. CASE playerRoom[This.player] = This.room
    <3>1. playerRoom' = playerRoom
      BY <1>t, <2>1, <2>2, <2>5 DEF StateTypes
    <3> QED
      BY <2>4, <3>1, PlanStutters
  <2>6. CASE playerRoom[This.player] = None
    <3>1. Phase[This.room] = "open"
      BY <2>1, <2>2, Phases DEF Phase
    <3>2. members[This.room] = {p \in Player : playerRoom[p] = This.room}
      BY <2>1, <2>2, InvParts DEF Mirrored
    <3> QED
      BY <2>1, <2>2, <2>4, <2>6, <3>1, <3>2, PlanSitsDown
  <2> QED
    BY <2>3, <2>5, <2>6
<1>4. CASE Destroy
  <2>1. /\ todo # << >> /\ This.call = "destroy" /\ UNCHANGED playerRoom
        /\ \/ state[This.room] = "active" /\ state' = [state EXCEPT ![This.room] = "closing"]
           \/ UNCHANGED state
    BY <1>4 DEF Destroy, Now, This, seatVars, MayDestroy
  <2>2. This.room \in Room
    BY <2>1, CallNow DEF RoomCalls
  <2>3. CASE state[This.room] = "active" /\ state' = [state EXCEPT ![This.room] = "closing"]
    <3>1. PICK r \in Room : r = This.room
      BY <2>2
    <3>2. Phase[r] = "open" /\ Phase' = [Phase EXCEPT ![r] = "closing"]
        <4>1. state' = [state EXCEPT ![r] = "closing"]
          BY <1>t, <2>3, <3>1
        <4>2. Phase' = [Phase EXCEPT ![r] = PhaseOf("closing")] /\ Phase[r] = PhaseOf(state[r])
          BY <1>t, <4>1, PhaseChanges
        <4> QED
          BY <1>t, <2>3, <3>1, <4>2, Phases
    <3> QED
      BY <2>1, <3>2, PlanBeginsToClose
  <2> QED
    BY <2>1, <2>3, NothingSeen
<1>5. CASE Evict
  <2>1. PICK p \in Staying(This.room) :
          /\ todo # << >> /\ This.call = "evict" /\ UNCHANGED state
          /\ playerRoom' = [playerRoom EXCEPT ![p] = None]
    BY <1>5 DEF Evict, Now, This, roomVars
  <2>2. This.room \in Room
    BY <2>1, CallNow DEF RoomCalls
  <2>3. p \in Player /\ playerRoom[p] # None
    BY <1>t, <2>1, <2>2, NoneIsNoId DEF Staying, StateTypes
  <2>4. UNCHANGED Phase
    BY <2>1 DEF Phase
  <2> QED
    BY <2>1, <2>3, <2>4, PlanStandsUp
<1>6. CASE OnDestroy
  <2>1. /\ todo # << >> /\ This.call = "onDestroy" /\ UNCHANGED playerRoom
        /\ state' = [state EXCEPT ![This.room] = "destroyed"]
    BY <1>6 DEF OnDestroy, Now, This, seatVars
  <2>2. This.room \in Room /\ Call("onDestroy", This.room, None) \in Pending
    BY <2>1, CallNow DEF RoomCalls
  <2>3. state[This.room] = "closing" /\ members[This.room] = {}
    BY <2>2, InvParts DEF ClosingIsPending, Mirrored
  <2>4. PICK r \in Room : r = This.room
    BY <2>2
  <2>5. {p \in Player : playerRoom[p] = r} = {}
    BY <2>3, <2>4, InvParts DEF Mirrored
  <2>6. Phase[r] = "closing" /\ Phase' = [Phase EXCEPT ![r] = "closed"]
    <3>1. state' = [state EXCEPT ![r] = "destroyed"]
      BY <1>t, <2>1, <2>3, <2>4
    <3>2. Phase' = [Phase EXCEPT ![r] = PhaseOf("destroyed")] /\ Phase[r] = PhaseOf(state[r])
      BY <1>t, <3>1, PhaseChanges
    <3> QED
      BY <1>t, <2>1, <2>3, <2>4, <3>2, Phases
  <2> QED
    BY <2>1, <2>5, <2>6, PlanCloses
<1>7. CASE UNCHANGED <<state, playerRoom>>
  BY <1>7, NothingSeen
<1> QED
  BY <1>1, <1>2, <1>3, <1>4, <1>5, <1>6, <1>7
     DEF Step, DetachNobody, AutoDisposes, AddPlayerRefused, StartRoom, DestroyRoom,
         EvictEnds, Delete, NothingElse, seatVars, roomVars

\* A handler begins before anybody moves, so every step of the plan is a call.
LEMMA NextSeated ==
  ASSUME IInv, [Next]_vars
  PROVE  Plan!Next \/ UNCHANGED Plan!vars
<1>1. CASE Step
  BY <1>1, CallSeated
<1>2. CASE UNCHANGED <<state, playerRoom>>
  BY <1>2, NothingSeen
<1> QED
  BY <1>1, <1>2
     DEF Next, Leave, Join, Match, Message, TurnMessage, TickThrows, CreateSettles, Clear, Runs,
         vars, seatVars, roomVars

\* The handlers, call by call, implement the safety part of the seating plan:
\* one seat a player, nobody sits down in a room that is full or not open, and a
\* room is closed when all have left. That a room that begins to close is
\* closed in the end is left to the model checker.
THEOREM SeatingImplemented == Spec => Plan!SafeSpec
<1>1. Init => Plan!Init
  BY DEF Init, Phase, Plan!Init
<1>2. IInv /\ [Next]_vars => [Plan!Next]_(Plan!vars)
  BY NextSeated
<1> QED
  BY <1>1, <1>2, Invariance, PTL DEF Spec, Plan!SafeSpec
================================================================================
