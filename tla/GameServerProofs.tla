--------------------------- MODULE GameServerProofs ---------------------------
(***************************************************************************)
(* What GameServer keeps for any number of sessions, players, tokens,      *)
(* rooms and keys, whatever clients and hooks do.                          *)
(*                                                                         *)
(* The inductive invariant has three parts, about rooms, queues and        *)
(* identities.  Each part is kept by lemmas about the steps that touch its *)
(* variables; the lemma StepKeeps puts them together, action by action.    *)
(* Then that GameServer implements Rooms, and what it keeps in addition if *)
(* clients behave.                                                         *)
(***************************************************************************)
EXTENDS GameServer, MatchQueueProofs, FiniteSetTheorems, FunctionTheorems

RoomTypes ==
  /\ roomState \in [Room -> RoomStates]
  /\ roomKey \in [Room -> Key \cup {None}]
  /\ members \in [Room -> SUBSET Player]
  /\ playerRoom \in [Player -> Room \cup {None}]

RoomInv == RoomTypes /\ Membership

QueueInv == queues \in [Key -> Seq(Player)] /\ QueueSound

IdentityTypes ==
  /\ sessions \subseteq Session
  /\ sessionPlayer \in [Session -> Player \cup {None}]
  /\ players \subseteq Player
  /\ playerSession \in [Player -> Session \cup {None}]
  /\ tokenOf \in [Player -> Token \cup {None}]
  /\ pending \in [Token -> Player \cup {None}]
  /\ timers \subseteq Player

IdentityInv == IdentityTypes /\ SessionBinding /\ PendingSound

IInv == RoomInv /\ QueueInv /\ IdentityInv /\ down \in BOOLEAN

LEMMA NoneIsNoId ==
  None \notin Player /\ None \notin Room /\ None \notin Token /\ None \notin Session
BY NoneAssumption

LEMMA InitEstablishes == Init => IInv
<1> SUFFICES ASSUME Init PROVE IInv
  OBVIOUS
<1>1. RoomInv
  BY NoneIsNoId DEF Init, RoomInv, RoomTypes, RoomStates, Membership, RoomsInit
<1>2. \A k \in Key : queues[k] = << >> /\ DOMAIN queues[k] = {} /\ Len(queues[k]) = 0
  BY DEF Init
<1>3. QueueInv
  <2>1. queues \in [Key -> Seq(Player)]
    BY DEF Init
  <2>2. QueueSound
    BY <1>2 DEF QueueSound, Waiting
  <2> QED
    BY <2>1, <2>2 DEF QueueInv
<1>4. IdentityInv
  BY DEF Init, IdentityInv, IdentityTypes, SessionBinding, PendingSound
<1> QED
  BY <1>1, <1>3, <1>4 DEF Init, IInv
-------------------------------------------------------------------------------
(* Rooms.                                                                  *)

\* Departures keep the two records of membership in step, whichever hooks
\* throw, and nobody who departs is left anywhere.
LEMMA DepartKeeps ==
  ASSUME RoomInv, NEW L, NEW C, Depart(L, C)
  PROVE  /\ RoomTypes'
         /\ \A r \in Room, p \in Player : p \in members'[r] <=> playerRoom'[p] = r
         /\ \A r \in Room : roomState'[r] # "active" => members'[r] = {}
         /\ \A r \in Room : members'[r] \subseteq members[r] \ L
<1>1. /\ members' = MembersAfter(L, C)
      /\ playerRoom' = PlayerRoomAfter(L, C)
      /\ roomState' = RoomStateAfter(L, C)
      /\ roomKey' = RoomKeyAfter(L, C)
  BY DEF Depart
<1>2. RoomTypes'
  BY <1>1 DEF RoomInv, RoomTypes, RoomStates, MembersAfter, PlayerRoomAfter,
              RoomStateAfter, RoomKeyAfter
<1>3. \A r \in Room, p \in Player : p \in members'[r] <=> playerRoom'[p] = r
  BY <1>1, NoneIsNoId DEF RoomInv, RoomTypes, Membership, MembersAfter, PlayerRoomAfter
<1>4. \A r \in Room : members'[r] \subseteq members[r] \ L
  BY <1>1 DEF RoomInv, RoomTypes, MembersAfter, Departed
<1>5. ASSUME NEW r \in Room, roomState'[r] # "active"
      PROVE  members'[r] = {}
  <2>1. CASE r \in Disposed(L, C)
    BY <1>1, <2>1 DEF Disposed
  <2>2. CASE r \in C
    BY <1>1, <2>2 DEF MembersAfter, Departed
  <2>3. CASE r \notin Disposed(L, C) /\ r \notin C
    <3>1. roomState'[r] = roomState[r]
      BY <1>1, <2>3 DEF RoomStateAfter
    <3> QED
      BY <1>4, <1>5, <3>1 DEF RoomInv, Membership
  <2> QED
    BY <2>1, <2>2, <2>3
<1> QED
  BY <1>2, <1>3, <1>4, <1>5

\* A handler in which only departures touch the rooms.
LEMMA DepartKeepsRooms ==
  ASSUME RoomInv, NEW L, NEW C, Depart(L, C),
         \/ players' = players
         \/ players' = players \ L
  PROVE  RoomInv'
<1>1. \A r \in Room : members'[r] \subseteq players'
  BY DepartKeeps DEF RoomInv, Membership
<1> QED
  BY <1>1, DepartKeeps DEF RoomInv, Membership

LEMMA DestroyKeepsRooms ==
  ASSUME RoomInv, NEW r \in Room, NEW kept \in BOOLEAN, Destroy(r, kept),
         players' = players
  PROVE  RoomInv'
<1>1. RoomTypes'
  BY DEF RoomInv, RoomTypes, RoomStates, Destroy
<1>2. Membership'
  BY NoneIsNoId DEF RoomInv, RoomTypes, Membership, Destroy
<1> QED
  BY <1>1, <1>2 DEF RoomInv

\* A crash can only happen in a room that somebody leaves.
LEMMA CrashesAreLeft ==
  ASSUME NEW L, NEW C \in Crashes(L)
  PROVE  C \subseteq RoomsLeft(L)
BY DEF Crashes

\* Seating some of those who depart in a fresh room.
LEMMA SeatingKeepsRooms ==
  ASSUME RoomInv, NEW L, L \subseteq players, players \subseteq Player,
         NEW C, NEW r \in Room, roomState[r] = "none", NEW k \in Key,
         NEW seated, seated \subseteq L, players' = players,
         members' = [MembersAfter(L, C) EXCEPT ![r] = seated],
         playerRoom' = [q \in Player |-> IF q \in seated THEN r
                                         ELSE PlayerRoomAfter(L, C)[q]],
         roomState' = [RoomStateAfter(L, C) EXCEPT ![r] = "active"],
         roomKey' = [RoomKeyAfter(L, C) EXCEPT ![r] = k]
  PROVE  RoomInv'
<1>1. RoomTypes'
  BY DEF RoomInv, RoomTypes, RoomStates, MembersAfter, PlayerRoomAfter,
         RoomStateAfter, RoomKeyAfter
<1>2. members[r] = {}
  BY DEF RoomInv, Membership
<1>3. ASSUME NEW r1 \in Room, NEW q \in Player
      PROVE  q \in members'[r1] <=> playerRoom'[q] = r1
  <2>1. q \in members[r1] <=> playerRoom[q] = r1
    BY DEF RoomInv, Membership
  <2>2. CASE r1 = r
    BY <1>2, <2>1, <2>2, NoneIsNoId
       DEF RoomInv, RoomTypes, MembersAfter, PlayerRoomAfter
  <2>3. CASE r1 # r
    BY <2>1, <2>3, NoneIsNoId
       DEF RoomInv, RoomTypes, MembersAfter, PlayerRoomAfter, Departed
  <2> QED
    BY <2>2, <2>3
<1>4. ASSUME NEW r1 \in Room, roomState'[r1] # "active"
      PROVE  members'[r1] = {}
  <2>1. r1 # r
    BY <1>4 DEF RoomStateAfter
  <2>2. members'[r1] = MembersAfter(L, C)[r1] /\ RoomStateAfter(L, C)[r1] # "active"
    BY <1>4, <2>1 DEF RoomStateAfter, MembersAfter
  <2>3. CASE r1 \in Disposed(L, C)
    BY <2>2, <2>3 DEF Disposed
  <2>4. CASE r1 \in C
    BY <2>2, <2>4 DEF MembersAfter, Departed
  <2>5. CASE r1 \notin Disposed(L, C) /\ r1 \notin C
    BY <2>2, <2>5 DEF RoomStateAfter, MembersAfter, RoomInv, Membership
  <2> QED
    BY <2>3, <2>4, <2>5
<1>5. \A r1 \in Room : members'[r1] \subseteq players'
  BY DEF MembersAfter, RoomInv, RoomTypes, Membership
<1> QED
  BY <1>1, <1>3, <1>4, <1>5 DEF RoomInv, Membership

LEMMA RoomJoinKeepsRooms ==
  ASSUME RoomInv, IdentityTypes, NEW s \in Session, NEW r \in Room, RoomJoin(s, r)
  PROVE  RoomInv'
<1> DEFINE p == sessionPlayer[s]
           L == Leaves(p, r)
<1>1. p \in players /\ p \in Player /\ roomState[r] = "active" /\ players' = players
  BY DEF RoomJoin, Acting, Joinable, identityVars, IdentityTypes, Joins
<1>2. PICK C \in Crashes(L) :
        /\ members' = [MembersAfter(L, C) EXCEPT ![r] = members[r] \cup {p}]
        /\ playerRoom' = [PlayerRoomAfter(L, C) EXCEPT ![p] = r]
        /\ roomState' = RoomStateAfter(L, C)
        /\ roomKey' = RoomKeyAfter(L, C)
  BY DEF RoomJoin, Joins
<1>3. r \notin RoomsLeft(L) /\ r \notin C
  BY <1>2, CrashesAreLeft DEF Leaves, RoomsLeft
<1>4. L = {} => C = {}
  BY CrashesAreLeft DEF RoomsLeft
<1>5. p \in members[r] \/ L = {p} \/ playerRoom[p] = None
  BY <1>1 DEF Leaves, RoomInv, Membership
<1> HIDE DEF p
<1>6. L \subseteq {p}
  BY DEF Leaves
<1>7. ASSUME NEW r1 \in Room, r1 # r
      PROVE  p \notin MembersAfter(L, C)[r1]
  BY <1>1, <1>5, <1>7, NoneIsNoId
     DEF MembersAfter, Departed, RoomInv, RoomTypes, Membership
<1> HIDE DEF L
<1>8. RoomTypes'
  BY <1>1, <1>2 DEF RoomInv, RoomTypes, RoomStates, MembersAfter, PlayerRoomAfter,
                    RoomStateAfter, RoomKeyAfter
<1>9. \A q \in members[r] : q \in Departed(L, C) => q = p
  <2>1. C \subseteq Room
    BY <1>1, <1>6, CrashesAreLeft DEF RoomsLeft, RoomInv, RoomTypes
  <2>2. \A r1 \in C, q \in Player : ~(q \in members[r] /\ q \in members[r1])
    BY <1>3, <2>1 DEF RoomInv, Membership
  <2> QED
    BY <1>6, <2>1, <2>2 DEF Departed, RoomInv, RoomTypes
<1>10. ASSUME NEW r1 \in Room, NEW q \in Player
      PROVE  q \in members'[r1] <=> playerRoom'[q] = r1
  <2>1. q \in members[r1] <=> playerRoom[q] = r1
    BY DEF RoomInv, Membership
  <2>2. CASE q = p
    BY <1>1, <1>2, <1>7, <2>2 DEF MembersAfter, PlayerRoomAfter, RoomInv, RoomTypes
  <2>3. CASE q # p /\ r1 = r
    BY <1>1, <1>2, <1>9, <2>1, <2>3, NoneIsNoId
       DEF MembersAfter, PlayerRoomAfter, RoomInv, RoomTypes
  <2>4. CASE q # p /\ r1 # r
    BY <1>1, <1>2, <2>1, <2>4, NoneIsNoId
       DEF MembersAfter, PlayerRoomAfter, RoomInv, RoomTypes
  <2> QED
    BY <2>2, <2>3, <2>4
<1>11. ASSUME NEW r1 \in Room, roomState'[r1] # "active"
      PROVE  members'[r1] = {}
  <2>1. r1 # r
    BY <1>1, <1>2, <1>3, <1>11 DEF RoomStateAfter, Disposed
  <2>2. members'[r1] = MembersAfter(L, C)[r1] /\ RoomStateAfter(L, C)[r1] # "active"
    BY <1>2, <1>11, <2>1 DEF MembersAfter
  <2>3. CASE r1 \in Disposed(L, C)
    BY <2>2, <2>3 DEF Disposed
  <2>4. CASE r1 \in C
    BY <2>2, <2>4 DEF MembersAfter, Departed
  <2>5. CASE r1 \notin Disposed(L, C) /\ r1 \notin C
    BY <2>2, <2>5 DEF RoomStateAfter, MembersAfter, RoomInv, Membership
  <2> QED
    BY <2>3, <2>4, <2>5
<1>12. \A r1 \in Room : members'[r1] \subseteq players'
  BY <1>1, <1>2 DEF MembersAfter, RoomInv, RoomTypes, Membership
<1> QED
  BY <1>8, <1>10, <1>11, <1>12 DEF RoomInv, Membership

LEMMA RoomJoinFailsKeepsRooms ==
  ASSUME RoomInv, IdentityTypes, NEW s \in Session, NEW r \in Room, RoomJoinFails(s, r)
  PROVE  RoomInv'
<1> DEFINE p == sessionPlayer[s]
           L == Leaves(p, r)
<1>1. p \in players /\ p \in Player /\ players' = players
  BY DEF RoomJoinFails, Acting, identityVars, IdentityTypes
<1>2. PICK C \in Crashes(L) :
        /\ members' = [MembersAfter(L, C) EXCEPT ![r] = {}]
        /\ playerRoom' = [q \in Player |-> IF q \in members[r] \cup {p} THEN None
                                           ELSE PlayerRoomAfter(L, C)[q]]
        /\ roomState' = [RoomStateAfter(L, C) EXCEPT ![r] = "destroyed"]
        /\ roomKey' = RoomKeyAfter(L, C)
  BY DEF RoomJoinFails, JoinFails
<1>3. p \in members[r] \/ L = {p} \/ playerRoom[p] = None
  BY <1>1 DEF Leaves, RoomInv, Membership
<1> HIDE DEF p, L
<1>4. RoomTypes'
  BY <1>1, <1>2 DEF RoomInv, RoomTypes, RoomStates, MembersAfter, PlayerRoomAfter,
                    RoomStateAfter, RoomKeyAfter
<1>5. ASSUME NEW r1 \in Room, NEW q \in Player
      PROVE  q \in members'[r1] <=> playerRoom'[q] = r1
  <2>1. /\ q \in members[r1] <=> playerRoom[q] = r1
        /\ q \in members[r] <=> playerRoom[q] = r
    BY DEF RoomInv, Membership
  <2>2. CASE r1 = r
    BY <1>1, <1>2, <2>1, <2>2, NoneIsNoId
       DEF MembersAfter, PlayerRoomAfter, RoomInv, RoomTypes
  <2>3. CASE r1 # r /\ q # p
    BY <1>1, <1>2, <2>1, <2>3, NoneIsNoId
       DEF MembersAfter, PlayerRoomAfter, RoomInv, RoomTypes
  <2>4. CASE r1 # r /\ q = p
    <3>1. q \notin MembersAfter(L, C)[r1]
      BY <1>3, <2>1, <2>4, NoneIsNoId DEF MembersAfter, Departed
    <3> QED
      BY <1>1, <1>2, <2>4, <3>1, NoneIsNoId DEF MembersAfter
  <2> QED
    BY <2>2, <2>3, <2>4
<1>6. ASSUME NEW r1 \in Room, roomState'[r1] # "active"
      PROVE  members'[r1] = {}
  <2>1. CASE r1 = r
    BY <1>2, <2>1 DEF MembersAfter
  <2>2. CASE r1 # r
    <3>1. members'[r1] = MembersAfter(L, C)[r1] /\ RoomStateAfter(L, C)[r1] # "active"
      BY <1>2, <1>6, <2>2 DEF MembersAfter, RoomStateAfter
    <3>2. CASE r1 \in Disposed(L, C)
      BY <3>1, <3>2 DEF Disposed
    <3>3. CASE r1 \in C
      BY <3>1, <3>3 DEF MembersAfter, Departed
    <3>4. CASE r1 \notin Disposed(L, C) /\ r1 \notin C
      BY <3>1, <3>4 DEF RoomStateAfter, MembersAfter, RoomInv, Membership
    <3> QED
      BY <3>2, <3>3, <3>4
  <2> QED
    BY <2>1, <2>2
<1>7. \A r1 \in Room : members'[r1] \subseteq players'
  BY <1>1, <1>2 DEF MembersAfter, RoomInv, RoomTypes, Membership
<1> QED
  BY <1>4, <1>5, <1>6, <1>7 DEF RoomInv, Membership

LEMMA MatchFormKeepsRooms ==
  ASSUME RoomInv, QueueInv, IdentityTypes, NEW s \in Session, NEW k \in Key,
         MatchForm(s, k)
  PROVE  RoomInv'
<1> DEFINE p     == sessionPlayer[s]
           q     == QueueFor(p, k)
           group == Group(q, Required[k])
           L     == {p} \cup Waiting(group)
<1>1. /\ p \in players /\ p \in Player
      /\ players' = players /\ players \subseteq Player
      /\ Ready(q, Required[k])
  BY DEF MatchForm, Acting, identityVars, IdentityTypes
<1>2. PICK r \in Room, C \in Crashes(L), fails \in {FALSE, HooksThrow} :
       LET seated == IF fails THEN {} ELSE Seated(group, k) IN
       /\ roomState[r] = "none"
       /\ IF seated = {}
          THEN Depart(L, C)
          ELSE /\ members' = [MembersAfter(L, C) EXCEPT ![r] = seated]
               /\ playerRoom' = [x \in Player |-> IF x \in seated THEN r
                                                  ELSE PlayerRoomAfter(L, C)[x]]
               /\ roomState' = [RoomStateAfter(L, C) EXCEPT ![r] = "active"]
               /\ roomKey' = [RoomKeyAfter(L, C) EXCEPT ![r] = k]
  BY DEF MatchForm, FormsRoom
<1> HIDE DEF p
<1>3. /\ queues \in [Key -> Seq(Player)] /\ WaitsOnce(queues)
      /\ Waiting(queues[k]) \subseteq players
  BY DEF QueueInv, QueueSound, WaitsOnce
<1>4. q \in Seq(Player) /\ Distinct(q)
  BY <1>1, <1>3, EnqueuedSound, WaitsOnceByQueue DEF QueueFor
<1>5. Waiting(q) \subseteq Waiting(queues[k]) \cup {p}
  BY <1>1, <1>3, EnqueuedIsKnown DEF QueueFor
<1> HIDE DEF q
<1>6. Required[k] \in Nat /\ Required[k] <= Len(q)
  BY <1>1, ParameterAssumption DEF Ready
<1>7. L \subseteq players
  BY <1>1, <1>3, <1>4, <1>5, <1>6, SpliceSound
<1> DEFINE seated == IF fails THEN {} ELSE Seated(group, k)
<1>8. seated \subseteq L
  BY DEF Seated, Waiting
<1> HIDE DEF L, group
<1>9. CASE seated = {}
  BY <1>1, <1>2, <1>9, DepartKeepsRooms
<1>10. CASE seated # {}
  <2>1. /\ members' = [MembersAfter(L, C) EXCEPT ![r] = seated]
        /\ playerRoom' = [x \in Player |-> IF x \in seated THEN r
                                           ELSE PlayerRoomAfter(L, C)[x]]
        /\ roomState' = [RoomStateAfter(L, C) EXCEPT ![r] = "active"]
        /\ roomKey' = [RoomKeyAfter(L, C) EXCEPT ![r] = k]
    BY <1>2, <1>10
  <2>2. roomState[r] = "none"
    BY <1>2
  <2> HIDE DEF seated
  <2> QED
    BY <1>1, <1>7, <1>8, <2>1, <2>2, SeatingKeepsRooms
<1> QED
  BY <1>9, <1>10
-------------------------------------------------------------------------------
(* Queues.                                                                 *)

\* QueueInv in the words of MatchQueueProofs.
LEMMA QueueInvMeans ==
  QueueInv <=> /\ queues \in [Key -> Seq(Player)]
               /\ WaitsOnce(queues)
               /\ \A k \in Key : Waiting(queues[k]) \subseteq players
               /\ \A k \in Key : Required[k] > 0 => Len(queues[k]) < Required[k]
BY DEF QueueInv, QueueSound, WaitsOnce

\* The same of the next state.
LEMMA QueueInvNext ==
  ASSUME queues' \in [Key -> Seq(Player)],
         WaitsOnce(queues'),
         \A k \in Key : Waiting(queues'[k]) \subseteq players',
         \A k \in Key : Required[k] > 0 => Len(queues'[k]) < Required[k]
  PROVE  QueueInv'
BY DEF QueueInv, QueueSound, WaitsOnce

LEMMA CancelKeepsQueues ==
  ASSUME QueueInv, NEW p, queues' = Cancel(queues, p),
         \/ players' = players
         \/ players' = players \ {p}
  PROVE  QueueInv'
<1> DEFINE c == Cancel(queues, p)
<1>1. /\ queues \in [Key -> Seq(Player)]
      /\ WaitsOnce(queues)
      /\ \A k \in Key : Waiting(queues[k]) \subseteq players
      /\ \A k \in Key : Required[k] > 0 => Len(queues[k]) < Required[k]
  BY QueueInvMeans
<1>2. /\ c \in [Key -> Seq(Player)]
      /\ WaitsOnce(c)
      /\ \A k \in Key : Len(c[k]) <= Len(queues[k])
  BY <1>1, CancelSound
<1>3. \A k \in Key : \A x : x \in Waiting(c[k]) => x \in Waiting(queues[k]) /\ x # p
  BY <1>1, CancelWaiting
<1>4. queues' = c
  OBVIOUS
<1> HIDE DEF c
<1>5. \A k \in Key : Waiting(c[k]) \subseteq players'
  BY <1>1, <1>3
<1>6. ASSUME NEW k \in Key, Required[k] > 0
      PROVE  Len(c[k]) < Required[k]
  <2>1. Len(c[k]) \in Nat /\ Len(queues[k]) \in Nat /\ Required[k] \in Nat
    BY <1>1, <1>2, ParameterAssumption
  <2> QED
    BY <1>1, <1>2, <1>6, <2>1
<1> QED
  BY <1>2, <1>4, <1>5, <1>6, QueueInvNext

\* The queues when p has asked for k and nobody has been matched yet.
LEMMA EnqueuedKeepsQueues ==
  ASSUME QueueInv, NEW p \in Player, p \in players, NEW k \in Key
  PROVE  /\ Enqueued(queues, p, k) \in [Key -> Seq(Player)]
         /\ WaitsOnce(Enqueued(queues, p, k))
         /\ \A k1 \in Key : Waiting(Enqueued(queues, p, k)[k1]) \subseteq players
         /\ \A k1 \in Key : k1 # k /\ Required[k1] > 0 =>
              Len(Enqueued(queues, p, k)[k1]) < Required[k1]
<1> DEFINE e == Enqueued(queues, p, k)
<1>1. /\ queues \in [Key -> Seq(Player)]
      /\ WaitsOnce(queues)
      /\ \A k1 \in Key : Waiting(queues[k1]) \subseteq players
      /\ \A k1 \in Key : Required[k1] > 0 => Len(queues[k1]) < Required[k1]
  BY QueueInvMeans
<1>2. queues \in [Key -> Seq(Player)] /\ WaitsOnce(queues)
  BY <1>1
<1>3. /\ e \in [Key -> Seq(Player)]
      /\ WaitsOnce(e)
      /\ \A k1 \in Key : k1 # k => Len(e[k1]) <= Len(queues[k1])
  BY <1>1, <1>2, EnqueuedSound
<1>4. ASSUME NEW k1 \in Key, NEW x
      PROVE  x \in Waiting(Enqueued(queues, p, k)[k1]) <=>
               \/ x = p /\ k1 = k
               \/ x # p /\ x \in Waiting(queues[k1])
  BY <1>2, EnqueuedWaiting
<1> HIDE DEF e
<1>5. ASSUME NEW k1 \in Key, NEW x \in Waiting(e[k1])
      PROVE  x \in players
  <2>1. x = p \/ x \in Waiting(queues[k1])
    BY <1>4 DEF e
  <2> QED
    BY <1>1, <2>1
<1>6. ASSUME NEW k1 \in Key, k1 # k, Required[k1] > 0
      PROVE  Len(e[k1]) < Required[k1]
  <2>1. Len(e[k1]) \in Nat /\ Len(queues[k1]) \in Nat /\ Required[k1] \in Nat
    BY <1>1, <1>3, ParameterAssumption
  <2> QED
    BY <1>1, <1>3, <1>6, <2>1
<1> QED
  BY <1>3, <1>5, <1>6 DEF e

\* A request that completes no group.
LEMMA WaitKeepsQueues ==
  ASSUME QueueInv, NEW p \in Player, p \in players, NEW k \in Key,
         ~Ready(QueueFor(p, k), Required[k]),
         queues' = Enqueued(queues, p, k), players' = players
  PROVE  QueueInv'
<1> DEFINE e == Enqueued(queues, p, k)
<1>1. /\ e \in [Key -> Seq(Player)]
      /\ WaitsOnce(e)
      /\ \A k1 \in Key : Waiting(e[k1]) \subseteq players
      /\ \A k1 \in Key : k1 # k /\ Required[k1] > 0 => Len(e[k1]) < Required[k1]
  BY EnqueuedKeepsQueues
<1>2. queues' = e
  OBVIOUS
<1>3. ~(Len(e[k]) >= Required[k])
  BY DEF Ready, QueueFor
<1> HIDE DEF e
<1>4. Len(e[k]) < Required[k]
  BY <1>1, <1>3, ParameterAssumption
<1>5. \A k1 \in Key : Required[k1] > 0 => Len(e[k1]) < Required[k1]
  BY <1>1, <1>4
<1> QED
  BY <1>1, <1>2, <1>5, QueueInvNext

\* A request that completes a group, which is taken out of the queue.
LEMMA MatchKeepsQueues ==
  ASSUME QueueInv, NEW p \in Player, p \in players, NEW k \in Key,
         Ready(QueueFor(p, k), Required[k]),
         queues' = QueuesAfterMatch(p, k), players' = players
  PROVE  QueueInv'
<1> DEFINE e == Enqueued(queues, p, k)
           n == Required[k]
           a == QueuesAfterMatch(p, k)
<1>1. /\ e \in [Key -> Seq(Player)]
      /\ WaitsOnce(e)
      /\ \A k1 \in Key : Waiting(e[k1]) \subseteq players
      /\ \A k1 \in Key : k1 # k /\ Required[k1] > 0 => Len(e[k1]) < Required[k1]
  BY EnqueuedKeepsQueues
<1>2. n \in Nat /\ Len(e[k]) >= n
  BY ParameterAssumption DEF Ready, QueueFor
<1>3. Len(e[k]) <= Len(queues[k]) + 1
  <2>1. queues \in [Key -> Seq(Player)] /\ WaitsOnce(queues)
    BY QueueInvMeans
  <2> QED
    BY <2>1, EnqueuedSound
<1>4. n > 0 => Len(queues[k]) < n
  BY QueueInvMeans
<1>5. Len(queues[k]) \in Nat
  <2>1. queues \in [Key -> Seq(Player)]
    BY QueueInvMeans
  <2> QED
    BY <2>1
<1>6. a = [e EXCEPT ![k] = Rest(e[k], n)] /\ queues' = a
  BY DEF QueuesAfterMatch, QueueFor
<1>7. \A k1 \in Key : Distinct(e[k1])
  BY <1>1, WaitsOnceByQueue
<1>8. \A k1, k2 \in Key : k1 # k2 => Waiting(e[k1]) \cap Waiting(e[k2]) = {}
  BY <1>1, WaitsOnceByQueue
<1> HIDE DEF e, n, a
<1>9. /\ Rest(e[k], n) \in Seq(Player) /\ Len(Rest(e[k], n)) = Len(e[k]) - n
      /\ Distinct(Rest(e[k], n))
      /\ Waiting(Rest(e[k], n)) \subseteq Waiting(e[k])
  <2> DEFINE q == e[k]
  <2>1. q \in Seq(Player) /\ Distinct(q) /\ n <= Len(q)
    BY <1>1, <1>2, <1>7
  <2> HIDE DEF q
  <2>2. /\ Rest(q, n) \in Seq(Player) /\ Len(Rest(q, n)) = Len(q) - n
        /\ Distinct(Rest(q, n))
    BY <1>2, <2>1, SpliceSound
  <2>3. Waiting(Rest(q, n)) = Waiting(q) \ Waiting(Group(q, n))
    BY <1>2, <2>1, SpliceSound
  <2> QED
    BY <2>2, <2>3 DEF q
<1>10. /\ a \in [Key -> Seq(Player)]
       /\ a[k] = Rest(e[k], n)
       /\ \A k1 \in Key : k1 # k => a[k1] = e[k1]
  BY <1>1, <1>6, <1>9
<1>11. \A k1 \in Key : Distinct(a[k1]) /\ Waiting(a[k1]) \subseteq Waiting(e[k1])
  BY <1>7, <1>9, <1>10
<1>12. \A k1, k2 \in Key : k1 # k2 => Waiting(a[k1]) \cap Waiting(a[k2]) = {}
  BY <1>8, <1>11
<1>13. WaitsOnce(a)
  BY <1>10, <1>11, <1>12, WaitsOnceByQueue
<1>14. \A k1 \in Key : Waiting(a[k1]) \subseteq players'
  BY <1>1, <1>11
<1>15. n > 0 => Len(a[k]) < n
  <2>1. Len(e[k]) \in Nat
    BY <1>1
  <2> QED
    BY <1>2, <1>3, <1>4, <1>5, <1>9, <1>10, <2>1
<1>16. \A k1 \in Key : Required[k1] > 0 => Len(a[k1]) < Required[k1]
  BY <1>1, <1>10, <1>15 DEF n
<1> QED
  BY <1>6, <1>10, <1>13, <1>14, <1>16, QueueInvNext
-------------------------------------------------------------------------------
(* Identities.                                                             *)

\* The player an AUTH revives is off line, because a grace timer runs for it.
LEMMA PendingIsOffLine ==
  ASSUME IdentityInv, NEW t \in Token, pending[t] # None
  PROVE  /\ pending[t] \in players /\ pending[t] \in Player
         /\ \A s \in Session : sessionPlayer[s] # pending[t]
BY DEF IdentityInv, IdentityTypes, PendingSound, SessionBinding

LEMMA AuthKeepsIdentities ==
  ASSUME IdentityInv, NEW s \in Session, NEW t \in Token \cup {None}, Auth(s, t)
  PROVE  IdentityInv'
<1> DEFINE known == IF t = None THEN None ELSE pending[t]
<1>1. /\ s \in sessions /\ sessions' = sessions
      /\ timers' = timers \ {known}
      /\ pending' = IF t = None THEN pending ELSE [pending EXCEPT ![t] = None]
  BY DEF Auth, Cleared, Resumes
<1>2. PICK p \in Player :
        /\ IF known \in players THEN p = known ELSE Fresh(p)
        /\ players' = players \cup {p}
        /\ sessionPlayer' = [sessionPlayer EXCEPT ![s] = p]
        /\ playerSession' = [playerSession EXCEPT ![p] = s]
        /\ tokenOf' = [tokenOf EXCEPT ![p] = t]
  BY DEF Auth, Cleared, Resumes
<1>3. IdentityTypes'
  BY <1>1, <1>2 DEF IdentityInv, IdentityTypes
<1>4. \A s1 \in Session : sessionPlayer[s1] # p
  <2>1. CASE known \in players
    <3>1. t \in Token /\ p = pending[t] /\ pending[t] # None
      BY <1>2, <2>1, NoneIsNoId DEF IdentityInv, IdentityTypes
    <3> QED
      BY <3>1, PendingIsOffLine
  <2>2. CASE known \notin players
    BY <1>2, <2>2, NoneIsNoId DEF Fresh, IdentityInv, SessionBinding
  <2> QED
    BY <2>1, <2>2
<1>5. p \notin timers'
  BY <1>1, <1>2 DEF Fresh, IdentityInv, PendingSound
<1>6. SessionBinding'
  <2> SUFFICES ASSUME NEW s1 \in Session, sessionPlayer'[s1] # None
               PROVE  /\ s1 \in sessions'
                      /\ sessionPlayer'[s1] \in players' \ timers'
                      /\ playerSession'[sessionPlayer'[s1]] = s1
    BY DEF SessionBinding
  <2>1. CASE s1 = s
    BY <1>1, <1>2, <1>5, <2>1 DEF IdentityInv, IdentityTypes
  <2>2. CASE s1 # s
    <3>1. sessionPlayer'[s1] = sessionPlayer[s1] /\ sessionPlayer[s1] # p
      BY <1>2, <1>4, <2>2 DEF IdentityInv, IdentityTypes
    <3> QED
      BY <1>1, <1>2, <3>1 DEF IdentityInv, IdentityTypes, SessionBinding
  <2> QED
    BY <2>1, <2>2
<1>7. PendingSound'
  <2>1. ASSUME NEW t1 \in Token, pending'[t1] # None
        PROVE  pending'[t1] \in timers' /\ tokenOf'[pending'[t1]] = t1
    <3>1. /\ t1 # t /\ pending'[t1] = pending[t1] /\ pending[t1] # None
          /\ pending[t1] \in timers /\ tokenOf[pending[t1]] = t1
      BY <1>1, <2>1 DEF IdentityInv, IdentityTypes, PendingSound
    <3>2. pending[t1] # known
      BY <3>1, NoneIsNoId DEF IdentityInv, PendingSound
    <3>3. pending[t1] # p
      BY <1>2, <3>1, <3>2 DEF Fresh, IdentityInv, PendingSound
    <3> QED
      BY <1>1, <1>2, <3>1, <3>2, <3>3 DEF IdentityInv, IdentityTypes
  <2>2. timers' \subseteq {x \in players' : tokenOf'[x] # None}
    BY <1>1, <1>2, <1>5 DEF IdentityInv, IdentityTypes, PendingSound
  <2> QED
    BY <2>1, <2>2 DEF PendingSound
<1> QED
  BY <1>3, <1>6, <1>7 DEF IdentityInv

\* A player that is off line and whose timer has run out or never ran can go.
LEMMA FinalizeKeepsIdentities ==
  ASSUME IdentityInv, NEW p \in players,
         Finalize(p),
         timers' = timers \ {p},
         sessions' \subseteq Session, sessions' \subseteq sessions,
         sessionPlayer' \in [Session -> Player \cup {None}],
         playerSession' \in [Player -> Session \cup {None}],
         \A s \in Session : sessionPlayer'[s] # None =>
           /\ s \in sessions' /\ sessionPlayer'[s] = sessionPlayer[s]
           /\ sessionPlayer[s] # p
           /\ playerSession'[sessionPlayer[s]] = playerSession[sessionPlayer[s]]
  PROVE  IdentityInv'
<1>1. /\ players' = players \ {p}
      /\ tokenOf' = [tokenOf EXCEPT ![p] = None]
      /\ pending' = IF tokenOf[p] = None THEN pending
                                         ELSE [pending EXCEPT ![tokenOf[p]] = None]
  BY DEF Finalize, Unregistered
<1>2. p \in Player
  BY DEF IdentityInv, IdentityTypes
<1>3. IdentityTypes'
  BY <1>1, <1>2 DEF IdentityInv, IdentityTypes
<1>4. SessionBinding'
  BY <1>1, <1>2 DEF IdentityInv, IdentityTypes, SessionBinding
<1>5. ASSUME NEW t \in Token, pending'[t] # None
      PROVE  pending'[t] \in timers' /\ tokenOf'[pending'[t]] = t
  <2>1. pending'[t] = pending[t] /\ tokenOf[p] # t
    BY <1>1, <1>2, <1>5, NoneIsNoId DEF IdentityInv, IdentityTypes
  <2>2. /\ pending[t] \in timers /\ tokenOf[pending[t]] = t
    BY <1>5, <2>1 DEF IdentityInv, PendingSound
  <2>3. pending[t] # p
    BY <2>1, <2>2
  <2> QED
    BY <1>1, <1>2, <2>1, <2>2, <2>3 DEF IdentityInv, IdentityTypes
<1>6. timers' \subseteq {x \in players' : tokenOf'[x] # None}
  BY <1>1, <1>2 DEF IdentityInv, IdentityTypes, PendingSound
<1> QED
  BY <1>3, <1>4, <1>5, <1>6 DEF IdentityInv, PendingSound

LEMMA DisconnectKeepsIdentities ==
  ASSUME IdentityInv, NEW s \in Session, Disconnect(s)
  PROVE  IdentityInv'
<1> DEFINE p == sessionPlayer[s]
<1>1. /\ s \in sessions
      /\ sessions' = sessions \ {s}
      /\ sessionPlayer' = [sessionPlayer EXCEPT ![s] = None]
      /\ playerSession' = [q \in Player |-> IF playerSession[q] = s THEN None
                                                                    ELSE playerSession[q]]
  BY DEF Disconnect
<1>2. /\ sessionPlayer' \in [Session -> Player \cup {None}]
      /\ playerSession' \in [Player -> Session \cup {None}]
      /\ sessions' \subseteq Session
  BY <1>1 DEF IdentityInv, IdentityTypes
\* Whoever stays on line is somebody else, and is still sent to.
<1>3. \A s1 \in Session : sessionPlayer'[s1] # None =>
        /\ s1 \in sessions' /\ sessionPlayer'[s1] = sessionPlayer[s1]
        /\ sessionPlayer[s1] # p
        /\ playerSession'[sessionPlayer[s1]] = playerSession[sessionPlayer[s1]]
  BY <1>1, NoneIsNoId DEF IdentityInv, IdentityTypes, SessionBinding
<1>4. CASE p \notin players
  <2>1. UNCHANGED identityVars
    BY <1>4 DEF Disconnect
  <2> QED
    BY <1>2, <1>3, <2>1
       DEF IdentityInv, IdentityTypes, SessionBinding, PendingSound, identityVars
<1>5. CASE p \in players /\ tokenOf[p] # None
  <2>1. /\ timers' = timers \cup {p}
        /\ pending' = [pending EXCEPT ![tokenOf[p]] = p]
        /\ players' = players /\ tokenOf' = tokenOf
    BY <1>5 DEF Disconnect, Armed
  <2>2. p \in Player /\ tokenOf[p] \in Token
    BY <1>5 DEF IdentityInv, IdentityTypes
  <2> HIDE DEF p
  <2>3. IdentityTypes'
    BY <1>2, <2>1, <2>2 DEF IdentityInv, IdentityTypes
  <2>4. SessionBinding'
    BY <1>3, <2>1 DEF IdentityInv, SessionBinding
  <2>5. PendingSound'
    BY <1>5, <2>1, <2>2 DEF IdentityInv, IdentityTypes, PendingSound
  <2> QED
    BY <2>3, <2>4, <2>5 DEF IdentityInv
<1>6. CASE p \in players /\ tokenOf[p] = None
  <2>1. Finalize(p) /\ timers' = timers
    BY <1>6 DEF Disconnect
  <2>2. timers' = timers \ {p}
    BY <1>6, <2>1 DEF IdentityInv, PendingSound
  <2>3. sessions' \subseteq sessions
    BY <1>1
  <2> HIDE DEF p
  <2> QED
    BY <1>2, <1>3, <1>6, <2>1, <2>2, <2>3, FinalizeKeepsIdentities
<1> QED
  BY <1>4, <1>5, <1>6

LEMMA GraceExpiresKeepsIdentities ==
  ASSUME IdentityInv, NEW p \in Player, GraceExpires(p)
  PROVE  IdentityInv'
<1>1. p \in players /\ p \in timers
  BY DEF GraceExpires, IdentityInv, PendingSound
<1>2. /\ Finalize(p) /\ timers' = timers \ {p}
      /\ sessions' = sessions /\ sessionPlayer' = sessionPlayer
      /\ playerSession' = [playerSession EXCEPT ![p] = None]
  BY <1>1 DEF GraceExpires
<1>3. \A s \in Session : sessionPlayer[s] # None =>
        s \in sessions /\ sessionPlayer[s] # p
  BY <1>1 DEF IdentityInv, SessionBinding
<1>4. /\ sessions' \subseteq Session /\ sessions' \subseteq sessions
      /\ sessionPlayer' \in [Session -> Player \cup {None}]
      /\ playerSession' \in [Player -> Session \cup {None}]
  BY <1>2 DEF IdentityInv, IdentityTypes
<1>5. \A s \in Session : sessionPlayer'[s] # None =>
        /\ s \in sessions' /\ sessionPlayer'[s] = sessionPlayer[s]
        /\ sessionPlayer[s] # p
        /\ playerSession'[sessionPlayer[s]] = playerSession[sessionPlayer[s]]
  BY <1>2, <1>3 DEF IdentityInv, IdentityTypes
<1> QED
  BY <1>1, <1>2, <1>4, <1>5, FinalizeKeepsIdentities

LEMMA ShutdownKeepsIdentities ==
  ASSUME IdentityInv, Shutdown
  PROVE  IdentityInv'
<1>1. /\ timers' = timers \ {pending[t] : t \in Token}
      /\ pending' = [t \in Token |-> None]
      /\ UNCHANGED <<sessions, sessionPlayer, playerSession, players, tokenOf>>
  BY DEF Shutdown, clientVars
<1>2. IdentityTypes'
  BY <1>1 DEF IdentityInv, IdentityTypes
<1>3. SessionBinding'
  BY <1>1 DEF IdentityInv, SessionBinding
<1>4. PendingSound'
  BY <1>1 DEF IdentityInv, PendingSound
<1> QED
  BY <1>2, <1>3, <1>4 DEF IdentityInv
-------------------------------------------------------------------------------
(* All of it together.                                                     *)

\* Handlers that leave a part of the state alone keep what is said of it.
LEMMA UnchangedKeeps ==
  /\ RoomInv /\ UNCHANGED <<roomVars, players>> => RoomInv'
  /\ QueueInv /\ UNCHANGED <<queues, players>> => QueueInv'
  /\ IdentityInv /\ UNCHANGED <<clientVars, identityVars>> => IdentityInv'
<1>1. ASSUME RoomInv, UNCHANGED <<roomVars, players>>
      PROVE  RoomInv'
  BY <1>1 DEF RoomInv, RoomTypes, Membership, roomVars
<1>2. ASSUME QueueInv, UNCHANGED <<queues, players>>
      PROVE  QueueInv'
  BY <1>2 DEF QueueInv, QueueSound
<1>3. ASSUME IdentityInv, UNCHANGED <<clientVars, identityVars>>
      PROVE  IdentityInv'
  BY <1>3 DEF IdentityInv, IdentityTypes, SessionBinding, PendingSound, clientVars,
              identityVars
<1> QED
  BY <1>1, <1>2, <1>3

\* A player that acts.
LEMMA ActingIsPlayer ==
  ASSUME IdentityInv, NEW s \in Session, Acting(s)
  PROVE  sessionPlayer[s] \in Player /\ sessionPlayer[s] \in players
BY DEF Acting, IdentityInv, IdentityTypes

\* New players have no seat and wait nowhere, so they disturb nothing.
LEMMA MorePlayersKeep ==
  ASSUME players \subseteq players', UNCHANGED <<roomVars, queues>>
  PROVE  /\ RoomInv => RoomInv'
         /\ QueueInv => QueueInv'
<1>1. ASSUME RoomInv
      PROVE  RoomInv'
  BY <1>1 DEF RoomInv, RoomTypes, Membership, roomVars
<1>2. ASSUME QueueInv
      PROVE  QueueInv'
  BY <1>2 DEF QueueInv, QueueSound
<1> QED
  BY <1>1, <1>2

\* A player that goes is out of its room and out of the queues.
LEMMA FinalizeKeepsRest ==
  ASSUME RoomInv, QueueInv, NEW p, Finalize(p)
  PROVE  RoomInv' /\ QueueInv'
<1>1. PICK C \in Crashes({p}) : Depart({p}, C)
  BY DEF Finalize, Detaches
<1>2. players' = players \ {p} /\ queues' = Cancel(queues, p)
  BY DEF Finalize
<1>3. RoomInv'
  BY <1>1, <1>2, DepartKeepsRooms
<1>4. QueueInv'
  BY <1>2, CancelKeepsQueues
<1> QED
  BY <1>3, <1>4

\* Connections, disconnections and expired timers.
LEMMA ConnectionsKeep ==
  ASSUME IInv, NEW s \in Session, Connect(s) \/ Disconnect(s)
  PROVE  IInv'
<1>1. CASE Connect(s)
  <2>1. /\ sessions' = sessions \cup {s}
        /\ UNCHANGED <<sessionPlayer, playerSession, identityVars, queues, roomVars, down>>
    BY <1>1 DEF Connect
  <2>2. IdentityInv'
    BY <2>1 DEF IInv, IdentityInv, IdentityTypes, SessionBinding, PendingSound,
                identityVars
  <2>3. players' = players
    BY <2>1 DEF identityVars
  <2> QED
    BY <2>1, <2>2, <2>3, UnchangedKeeps DEF IInv
<1>2. CASE Disconnect(s)
  <2>1. IdentityInv'
    BY <1>2, DisconnectKeepsIdentities DEF IInv
  <2>2. RoomInv' /\ QueueInv'
    <3>1. CASE UNCHANGED <<roomVars, queues, players>>
      BY <3>1, UnchangedKeeps DEF IInv
    <3>2. CASE \E p \in Player \cup {None} : Finalize(p)
      BY <3>2, FinalizeKeepsRest DEF IInv
    <3>3. \/ UNCHANGED <<roomVars, queues, players>>
          \/ \E p \in Player \cup {None} : Finalize(p)
      BY <1>2 DEF Disconnect, IInv, IdentityInv, IdentityTypes, identityVars
    <3> QED
      BY <3>1, <3>2, <3>3
  <2>3. down' = down
    BY <1>2 DEF Disconnect
  <2> QED
    BY <2>1, <2>2, <2>3 DEF IInv
<1> QED
  BY <1>1, <1>2

LEMMA TimersKeep ==
  ASSUME IInv, NEW p \in Player, GraceExpires(p)
  PROVE  IInv'
<1>1. IdentityInv'
  BY GraceExpiresKeepsIdentities DEF IInv
<1>2. p \in players
  BY DEF GraceExpires, IInv, IdentityInv, PendingSound
<1>3. Finalize(p) /\ down' = down
  BY <1>2 DEF GraceExpires
<1>4. RoomInv' /\ QueueInv'
  BY <1>3, FinalizeKeepsRest DEF IInv
<1> QED
  BY <1>1, <1>3, <1>4 DEF IInv

\* MATCH_JOIN.
LEMMA MatchmakingKeeps ==
  ASSUME IInv, NEW s \in Session, NEW k \in Key,
         MatchWait(s, k) \/ MatchForm(s, k) \/ MatchLost(s, k)
  PROVE  IInv'
<1> DEFINE p == sessionPlayer[s]
<1>1. UNCHANGED <<clientVars, identityVars, down>>
  BY DEF MatchWait, MatchForm, MatchLost
<1>2. IdentityInv' /\ players' = players /\ down' = down
  BY <1>1, UnchangedKeeps DEF IInv, identityVars
<1>3. CASE MatchWait(s, k)
  <2>1. p \in Player /\ p \in players
    BY <1>3, ActingIsPlayer DEF MatchWait, IInv
  <2>2. /\ ~Ready(QueueFor(p, k), Required[k])
        /\ queues' = Enqueued(queues, p, k)
    BY <1>3 DEF MatchWait
  <2>3. PICK C \in Crashes({p}) : Depart({p}, C)
    BY <1>3 DEF MatchWait, Detaches
  <2> HIDE DEF p
  <2>4. QueueInv'
    BY <1>2, <2>1, <2>2, WaitKeepsQueues DEF IInv
  <2>5. RoomInv'
    BY <1>2, <2>3, DepartKeepsRooms DEF IInv
  <2> QED
    BY <1>2, <2>4, <2>5 DEF IInv
<1>4. CASE MatchForm(s, k)
  <2>1. p \in Player /\ p \in players
    BY <1>4, ActingIsPlayer DEF MatchForm, IInv
  <2>2. /\ Ready(QueueFor(p, k), Required[k])
        /\ queues' = QueuesAfterMatch(p, k)
    BY <1>4 DEF MatchForm
  <2> HIDE DEF p
  <2>3. QueueInv'
    BY <1>2, <2>1, <2>2, MatchKeepsQueues DEF IInv
  <2>4. RoomInv'
    BY <1>4, MatchFormKeepsRooms DEF IInv, IdentityInv
  <2> QED
    BY <1>2, <2>3, <2>4 DEF IInv
<1>5. CASE MatchLost(s, k)
  <2>1. p \in Player /\ p \in players
    BY <1>5, ActingIsPlayer DEF MatchLost, IInv
  <2>2. /\ Ready(QueueFor(p, k), Required[k])
        /\ queues' = QueuesAfterMatch(p, k)
    BY <1>5 DEF MatchLost
  <2>3. PICK C \in Crashes({p}) : Depart({p}, C)
    BY <1>5 DEF MatchLost, Detaches
  <2> HIDE DEF p
  <2>4. QueueInv'
    BY <1>2, <2>1, <2>2, MatchKeepsQueues DEF IInv
  <2>5. RoomInv'
    BY <1>2, <2>3, DepartKeepsRooms DEF IInv
  <2> QED
    BY <1>2, <2>4, <2>5 DEF IInv
<1> QED
  BY <1>3, <1>4, <1>5

\* MATCH_CANCEL.
LEMMA MatchCancelKeeps ==
  ASSUME IInv, NEW s \in Session, MatchCancel(s)
  PROVE  IInv'
<1>1. /\ queues' = Cancel(queues, sessionPlayer[s])
      /\ UNCHANGED <<clientVars, identityVars, roomVars, down>>
  BY DEF MatchCancel
<1>2. players' = players
  BY <1>1 DEF identityVars
<1> QED
  BY <1>1, <1>2, CancelKeepsQueues, UnchangedKeeps DEF IInv

\* The handlers of rooms, and the hooks that fail in them.
LEMMA RoomHandlersKeep ==
  ASSUME IInv, NEW s \in Session,
         \/ \E r \in Room : RoomJoin(s, r) \/ RoomJoinRefused(s, r) \/ RoomJoinFails(s, r)
         \/ RoomLeave(s) \/ InputFails(s) \/ TurnFails(s)
  PROVE  IInv'
<1>1. UNCHANGED <<clientVars, identityVars, queues, down>>
  BY DEF RoomJoin, RoomJoinRefused, RoomJoinFails, RoomLeave, InputFails, TurnFails
<1>2. IdentityInv' /\ QueueInv' /\ players' = players /\ down' = down
  BY <1>1, UnchangedKeeps DEF IInv, identityVars
<1>3. RoomInv'
  <2>1. CASE \E r \in Room : RoomJoin(s, r)
    BY <2>1, RoomJoinKeepsRooms DEF IInv, IdentityInv
  <2>2. CASE \E r \in Room : RoomJoinFails(s, r)
    BY <2>2, RoomJoinFailsKeepsRooms DEF IInv, IdentityInv
  <2>3. CASE (\E r \in Room : RoomJoinRefused(s, r)) \/ RoomLeave(s)
    <3>1. PICK L, C : Depart(L, C)
      BY <2>3 DEF RoomJoinRefused, RoomLeave, Detaches, JoinRefused
    <3> QED
      BY <1>2, <3>1, DepartKeepsRooms DEF IInv
  <2>4. CASE InputFails(s) \/ TurnFails(s)
    <3> DEFINE r == playerRoom[sessionPlayer[s]]
    <3>1. sessionPlayer[s] \in Player
      BY <2>4, ActingIsPlayer DEF InputFails, TurnFails, IInv
    <3>2. r \in Room /\ (Destroy(r, TRUE) \/ Destroy(r, FALSE))
      BY <2>4, <3>1 DEF InputFails, TurnFails, IInv, RoomInv, RoomTypes
    <3> HIDE DEF r
    <3> QED
      BY <1>2, <3>2, DestroyKeepsRooms DEF IInv
  <2> QED
    BY <2>1, <2>2, <2>3, <2>4
<1> QED
  BY <1>2, <1>3 DEF IInv

\* A tick that throws.
LEMMA TickFailsKeeps ==
  ASSUME IInv, NEW r \in Room, TickFails(r)
  PROVE  IInv'
<1>1. UNCHANGED <<clientVars, identityVars, queues, down>> /\ Destroy(r, TRUE)
  BY DEF TickFails
<1>2. players' = players
  BY <1>1 DEF identityVars
<1>3. RoomInv'
  BY <1>1, <1>2, DestroyKeepsRooms DEF IInv
<1> QED
  BY <1>1, <1>2, <1>3, UnchangedKeeps DEF IInv

LEMMA ShutdownKeeps ==
  ASSUME IInv, Shutdown
  PROVE  IInv'
<1>1. IdentityInv' /\ down' = TRUE
  BY ShutdownKeepsIdentities DEF Shutdown, IInv
<1>2. QueueInv'
  BY UnchangedKeeps DEF Shutdown, IInv
<1>3. RoomInv'
  BY NoneIsNoId DEF Shutdown, RoomInv, RoomTypes, RoomStates, Membership, Clears
<1> QED
  BY <1>1, <1>2, <1>3 DEF IInv

LEMMA StepKeeps ==
  ASSUME IInv, [Next]_vars
  PROVE  IInv'
<1>1. CASE UNCHANGED vars
  BY <1>1, UnchangedKeeps DEF vars, IInv, identityVars
<1>2. ASSUME NEW s \in Session, NEW t \in Token \cup {None}, Auth(s, t)
      PROVE  IInv'
  <2>1. IdentityInv'
    BY <1>2, AuthKeepsIdentities DEF IInv
  <2>2. players \subseteq players' /\ UNCHANGED <<roomVars, queues, down>>
    BY <1>2 DEF Auth
  <2> QED
    BY <2>1, <2>2, MorePlayersKeep DEF IInv
<1>3. ASSUME NEW s \in Session, Packet(s)
      PROVE  IInv'
  <2>1. CASE \E k \in Key : MatchWait(s, k) \/ MatchForm(s, k) \/ MatchLost(s, k)
    BY <2>1, MatchmakingKeeps
  <2>2. CASE MatchCancel(s)
    BY <2>2, MatchCancelKeeps
  <2>3. CASE \/ \E r \in Room : RoomJoin(s, r) \/ RoomJoinRefused(s, r)
                                               \/ RoomJoinFails(s, r)
             \/ RoomLeave(s) \/ InputFails(s) \/ TurnFails(s)
    BY <2>3, RoomHandlersKeep
  <2> QED
    BY <1>2, <1>3, <2>1, <2>2, <2>3 DEF Packet
<1>4. CASE \E s \in Session : Connect(s) \/ Disconnect(s)
  BY <1>4, ConnectionsKeep
<1>5. CASE \E p \in Player : GraceExpires(p)
  BY <1>5, TimersKeep
<1>6. CASE \E r \in Room : TickFails(r)
  BY <1>6, TickFailsKeeps
<1>7. CASE Shutdown
  BY <1>7, ShutdownKeeps
<1> QED
  BY <1>1, <1>3, <1>4, <1>5, <1>6, <1>7 DEF Next
-------------------------------------------------------------------------------
THEOREM Invariance == Spec => []IInv
<1>1. Init => IInv
  BY InitEstablishes
<1>2. IInv /\ [Next]_vars => IInv'
  BY StepKeeps
<1> QED
  BY <1>1, <1>2, PTL DEF Spec

\* Every variable of the server keeps its type.
THEOREM TypeCorrect == Spec => []TypeOK
<1>1. IInv => TypeOK
  BY DEF IInv, RoomInv, RoomTypes, QueueInv, IdentityInv, IdentityTypes, TypeOK
<1> QED
  BY <1>1, Invariance, PTL

\* A player is in one room at most, and the two records of it agree.
THEOREM MembershipHolds == Spec => []Membership
<1>1. IInv => Membership
  BY DEF IInv, RoomInv
<1> QED
  BY <1>1, Invariance, PTL

\* Matchmaking stays consistent with the players the server knows.
THEOREM QueuesAreSound == Spec => []QueueSound
<1>1. IInv => QueueSound
  BY DEF IInv, QueueInv
<1> QED
  BY <1>1, Invariance, PTL

\* A client on line acts as a player that exists and that no timer will remove.
THEOREM SessionsAreBound == Spec => []SessionBinding
<1>1. IInv => SessionBinding
  BY DEF IInv, IdentityInv
<1> QED
  BY <1>1, Invariance, PTL

\* Every pending reconnect can be honoured.
THEOREM PendingIsSound == Spec => []PendingSound
<1>1. IInv => PendingSound
  BY DEF IInv, IdentityInv
<1> QED
  BY <1>1, Invariance, PTL
-------------------------------------------------------------------------------
(* How full rooms are.                                                     *)

\* Rooms are finite, and an active one was created for some request.
OccupancyInv ==
  /\ RoomOccupancy
  /\ \A r \in Room :
       /\ IsFiniteSet(members[r])
       /\ roomState[r] = "active" => roomKey[r] \in Key

\* What room r is like when it has the members M and was created for k.
Occupied(r, state, k, M) ==
  /\ IsFiniteSet(M)
  /\ state = "active" => /\ k \in Key
                         /\ Cardinality(M) <= Capacity[k]
                         /\ k \in AutoDispose => M # {}

LEMMA OccupancyMeans ==
  /\ OccupancyInv <=> \A r \in Room : Occupied(r, roomState[r], roomKey[r], members[r])
  /\ OccupancyInv' <=> \A r \in Room : Occupied(r, roomState'[r], roomKey'[r], members'[r])
BY DEF OccupancyInv, RoomOccupancy, Occupied

\* Fewer members are no more.
LEMMA SmallerFits ==
  ASSUME NEW M, IsFiniteSet(M), NEW N, N \subseteq M, NEW n \in Nat, Cardinality(M) <= n
  PROVE  IsFiniteSet(N) /\ Cardinality(N) <= n
<1>1. /\ IsFiniteSet(N) /\ Cardinality(N) <= Cardinality(M)
  BY FS_Subset
<1>2. Cardinality(N) \in Nat /\ Cardinality(M) \in Nat
  BY <1>1, FS_CardinalityType
<1> QED
  BY <1>1, <1>2

\* A room stays within its limits when players depart: it only gets emptier, and
\* if it got empty it was left, so that an autoDispose room is removed.
LEMMA DepartKeepsOccupancy ==
  ASSUME RoomInv, OccupancyInv, NEW L, L \subseteq Player, NEW C \in Crashes(L), NEW r \in Room
  PROVE  Occupied(r, RoomStateAfter(L, C)[r], RoomKeyAfter(L, C)[r], MembersAfter(L, C)[r])
<1>1. MembersAfter(L, C)[r] \subseteq members[r]
  BY DEF MembersAfter
<1>2. IsFiniteSet(MembersAfter(L, C)[r])
  BY <1>1, FS_Subset DEF OccupancyInv
<1>3. ASSUME RoomStateAfter(L, C)[r] = "active"
      PROVE  /\ RoomKeyAfter(L, C)[r] \in Key
             /\ Cardinality(MembersAfter(L, C)[r]) <= Capacity[RoomKeyAfter(L, C)[r]]
             /\ RoomKeyAfter(L, C)[r] \in AutoDispose => MembersAfter(L, C)[r] # {}
  <2>1. r \notin Disposed(L, C) /\ r \notin C /\ roomState[r] = "active"
    BY <1>3 DEF RoomStateAfter
  <2>2. RoomKeyAfter(L, C)[r] = roomKey[r] /\ roomKey[r] \in Key
    BY <2>1 DEF RoomKeyAfter, OccupancyInv
  <2>3. Cardinality(members[r]) <= Capacity[roomKey[r]] /\ Capacity[roomKey[r]] \in Nat
    BY <2>1, <2>2, ParameterAssumption DEF OccupancyInv, RoomOccupancy
  <2>4. Cardinality(MembersAfter(L, C)[r]) <= Capacity[roomKey[r]]
    BY <1>1, <2>3, SmallerFits DEF OccupancyInv
  <2>5. ASSUME roomKey[r] \in AutoDispose, MembersAfter(L, C)[r] = {}
        PROVE  FALSE
    <3>1. r \notin RoomsLeft(L)
      BY <2>1, <2>5 DEF Disposed
    <3>2. PICK q : q \in members[r] /\ q \in Departed(L, C)
      <4>1. members[r] # {}
        BY <2>1, <2>5 DEF OccupancyInv, RoomOccupancy
      <4> QED
        BY <2>5, <4>1 DEF MembersAfter
    <3>3. q \in Player /\ playerRoom[q] = r
      BY <3>2 DEF RoomInv, RoomTypes, Membership
    <3>4. q \notin L
      BY <3>1, <3>3, NoneIsNoId DEF RoomsLeft
    <3>5. PICK c \in C : q \in members[c]
      BY <3>2, <3>4 DEF Departed
    <3>6. c \in Room
      BY <3>5, CrashesAreLeft DEF RoomsLeft, RoomInv, RoomTypes
    <3>7. c = r
      BY <3>3, <3>5, <3>6 DEF RoomInv, Membership
    <3> QED
      BY <2>1, <3>5, <3>7
  <2> QED
    BY <2>2, <2>4, <2>5
<1> QED
  BY <1>2, <1>3 DEF Occupied

LEMMA DepartsWithin ==
  ASSUME RoomInv, OccupancyInv, NEW L, L \subseteq Player, NEW C \in Crashes(L), Depart(L, C)
  PROVE  OccupancyInv'
<1>1. \A r \in Room : Occupied(r, roomState'[r], roomKey'[r], members'[r])
  BY DepartKeepsOccupancy DEF Depart
<1> QED
  BY <1>1, OccupancyMeans

LEMMA DestroyedIsWithin ==
  ASSUME RoomInv, OccupancyInv, NEW r \in Room, NEW kept \in BOOLEAN, Destroy(r, kept)
  PROVE  OccupancyInv'
<1> SUFFICES ASSUME NEW x \in Room
             PROVE  Occupied(x, roomState'[x], roomKey'[x], members'[x])
  BY OccupancyMeans
<1>1. CASE x = r
  <2>1. members'[x] = {} /\ roomState'[x] # "active"
    BY <1>1 DEF Destroy, RoomInv, RoomTypes
  <2> QED
    BY <2>1, FS_EmptySet DEF Occupied
<1>2. CASE x # r
  <2>1. UNCHANGED <<members[x], roomState[x], roomKey[x]>>
    BY <1>2 DEF Destroy, RoomInv, RoomTypes
  <2> QED
    BY <2>1, OccupancyMeans
<1> QED
  BY <1>1, <1>2

\* addPlayer() refuses a player that would be one too many.
LEMMA RoomJoinIsWithin ==
  ASSUME RoomInv, IdentityTypes, OccupancyInv, NEW s \in Session, NEW r \in Room,
         RoomJoin(s, r)
  PROVE  OccupancyInv'
<1> DEFINE p == sessionPlayer[s]
           L == Leaves(p, r)
<1>1. p \in Player /\ roomState[r] = "active" /\ Cardinality(members[r]) < Capacity[roomKey[r]]
  BY DEF RoomJoin, Acting, Joinable, HasSeat, IdentityTypes, Joins
<1>2. PICK C \in Crashes(L) :
        /\ members' = [MembersAfter(L, C) EXCEPT ![r] = members[r] \cup {p}]
        /\ roomState' = RoomStateAfter(L, C)
        /\ roomKey' = RoomKeyAfter(L, C)
  BY DEF RoomJoin, Joins
<1>3. L \subseteq Player
  BY <1>1 DEF Leaves
<1>4. r \notin RoomsLeft(L)
  BY DEF Leaves, RoomsLeft
<1> HIDE DEF p, L
<1> SUFFICES ASSUME NEW x \in Room
             PROVE  Occupied(x, roomState'[x], roomKey'[x], members'[x])
  BY OccupancyMeans
<1>5. CASE x # r
  <2>1. members'[x] = MembersAfter(L, C)[x]
    BY <1>2, <1>5 DEF MembersAfter
  <2> QED
    BY <1>2, <1>3, <2>1, DepartKeepsOccupancy
<1>6. CASE x = r
  <2>1. members'[x] = members[r] \cup {p}
    BY <1>2, <1>6 DEF MembersAfter
  <2>2. roomKey'[x] = roomKey[r] /\ roomKey[r] \in Key
    BY <1>1, <1>2, <1>4, <1>6 DEF RoomKeyAfter, Disposed, OccupancyInv
  <2>3. /\ IsFiniteSet(members[r]) /\ Cardinality(members[r]) \in Nat
        /\ Capacity[roomKey[r]] \in Nat
    BY <2>2, FS_CardinalityType, ParameterAssumption DEF OccupancyInv
  <2>4. /\ IsFiniteSet(members[r] \cup {p})
        /\ Cardinality(members[r] \cup {p}) \in {Cardinality(members[r]), Cardinality(members[r]) + 1}
    BY <2>3, FS_AddElement
  <2>5. Cardinality(members[r] \cup {p}) <= Capacity[roomKey[r]]
    BY <1>1, <2>3, <2>4
  <2> QED
    BY <2>1, <2>2, <2>4, <2>5 DEF Occupied
<1> QED
  BY <1>5, <1>6

LEMMA RoomJoinFailsIsWithin ==
  ASSUME RoomInv, IdentityTypes, OccupancyInv, NEW s \in Session, NEW r \in Room,
         RoomJoinFails(s, r)
  PROVE  OccupancyInv'
<1> DEFINE p == sessionPlayer[s]
           L == Leaves(p, r)
<1>1. p \in Player
  BY DEF RoomJoinFails, Acting, IdentityTypes
<1>2. PICK C \in Crashes(L) :
        /\ members' = [MembersAfter(L, C) EXCEPT ![r] = {}]
        /\ roomState' = [RoomStateAfter(L, C) EXCEPT ![r] = "destroyed"]
        /\ roomKey' = RoomKeyAfter(L, C)
  BY DEF RoomJoinFails, JoinFails
<1>3. L \subseteq Player
  BY <1>1 DEF Leaves
<1> HIDE DEF p, L
<1> SUFFICES ASSUME NEW x \in Room
             PROVE  Occupied(x, roomState'[x], roomKey'[x], members'[x])
  BY OccupancyMeans
<1>4. CASE x # r
  <2>1. members'[x] = MembersAfter(L, C)[x] /\ roomState'[x] = RoomStateAfter(L, C)[x]
    BY <1>2, <1>4 DEF MembersAfter, RoomStateAfter
  <2> QED
    BY <1>2, <1>3, <2>1, DepartKeepsOccupancy
<1>5. CASE x = r
  <2>1. members'[x] = {} /\ roomState'[x] = "destroyed"
    BY <1>2, <1>5 DEF MembersAfter, RoomStateAfter
  <2> QED
    BY <2>1, FS_EmptySet DEF Occupied
<1> QED
  BY <1>4, <1>5

\* A group is seated up to the number of seats.
LEMMA SeatedFits ==
  ASSUME NEW S, NEW group \in Seq(S), NEW k \in Key
  PROVE  IsFiniteSet(Seated(group, k)) /\ Cardinality(Seated(group, k)) <= Capacity[k]
<1> DEFINE J == {j \in DOMAIN group : j <= Capacity[k]}
           T == Seated(group, k)
           f == [j \in J |-> group[j]]
<1>1. Capacity[k] \in Nat /\ DOMAIN group = 1..Len(group)
  BY ParameterAssumption
<1>2. J \subseteq 1..Capacity[k]
  BY <1>1
<1>3. IsFiniteSet(1..Capacity[k]) /\ Cardinality(1..Capacity[k]) = Capacity[k]
  <2> DEFINE n == Capacity[k]
  <2>1. 1 \in Int /\ n \in Int /\ n \in Nat
    BY <1>1
  <2> HIDE DEF n
  <2>2. /\ IsFiniteSet(1..n)
        /\ Cardinality(1..n) = IF 1 > n THEN 0 ELSE n - 1 + 1
    BY <2>1, FS_Interval
  <2>3. Cardinality(1..n) = n
    BY <2>1, <2>2
  <2> QED
    BY <2>2, <2>3 DEF n
<1>4. IsFiniteSet(J) /\ Cardinality(J) <= Capacity[k]
  BY <1>1, <1>2, <1>3, SmallerFits
<1>5. f \in Surjection(J, T)
  BY DEF Seated, Surjection
<1> HIDE DEF J, T, f
<1>6. IsFiniteSet(T) /\ Cardinality(T) <= Cardinality(J)
  BY <1>4, <1>5, FS_Surjection
<1>7. Cardinality(T) \in Nat /\ Cardinality(J) \in Nat
  BY <1>4, <1>6, FS_CardinalityType
<1> QED
  BY <1>1, <1>4, <1>6, <1>7 DEF T

\* The players a match takes out of their rooms, and the group.
LEMMA GroupIsKnown ==
  ASSUME QueueInv, players \subseteq Player, NEW p \in Player, p \in players, NEW k \in Key,
         Ready(QueueFor(p, k), Required[k]),
         NEW g, g = Group(QueueFor(p, k), Required[k])
  PROVE  g \in Seq(Player) /\ {p} \cup Waiting(g) \subseteq Player
<1> DEFINE q == QueueFor(p, k)
<1>1. queues \in [Key -> Seq(Player)] /\ WaitsOnce(queues)
  BY QueueInvMeans
<1>2. q \in Seq(Player) /\ Distinct(q)
  BY <1>1, EnqueuedSound, WaitsOnceByQueue DEF QueueFor
<1>3. Required[k] \in Nat /\ Required[k] <= Len(q)
  BY ParameterAssumption DEF Ready
<1> HIDE DEF q
<1>4. g \in Seq(Player)
  BY <1>2, <1>3, SpliceSound DEF q
<1> QED
  BY <1>4 DEF Waiting

LEMMA MatchFormIsWithin ==
  ASSUME RoomInv, QueueInv, IdentityTypes, OccupancyInv, NEW s \in Session, NEW k \in Key,
         MatchForm(s, k)
  PROVE  OccupancyInv'
<1> DEFINE p     == sessionPlayer[s]
           group == Group(QueueFor(p, k), Required[k])
           L     == {p} \cup Waiting(group)
<1>1. PICK r \in Room, C \in Crashes(L), fails \in {FALSE, HooksThrow} :
       LET seated == IF fails THEN {} ELSE Seated(group, k) IN
       /\ roomState[r] = "none"
       /\ IF seated = {}
          THEN Depart(L, C)
          ELSE /\ members' = [MembersAfter(L, C) EXCEPT ![r] = seated]
               /\ playerRoom' = [x \in Player |-> IF x \in seated THEN r
                                                  ELSE PlayerRoomAfter(L, C)[x]]
               /\ roomState' = [RoomStateAfter(L, C) EXCEPT ![r] = "active"]
               /\ roomKey' = [RoomKeyAfter(L, C) EXCEPT ![r] = k]
  BY DEF MatchForm, FormsRoom
<1>2. p \in Player /\ p \in players /\ players \subseteq Player /\ Ready(QueueFor(p, k), Required[k])
  BY DEF MatchForm, Acting, IdentityTypes
<1> HIDE DEF p
<1>3. group \in Seq(Player) /\ L \subseteq Player
  BY <1>2, GroupIsKnown
<1> HIDE DEF group, L
<1> DEFINE seated == IF fails THEN {} ELSE Seated(group, k)
<1>4. CASE seated = {}
  BY <1>1, <1>3, <1>4, DepartsWithin
<1>5. CASE seated # {}
  <2>1. /\ members' = [MembersAfter(L, C) EXCEPT ![r] = seated]
        /\ roomState' = [RoomStateAfter(L, C) EXCEPT ![r] = "active"]
        /\ roomKey' = [RoomKeyAfter(L, C) EXCEPT ![r] = k]
    BY <1>1, <1>5
  <2>2. IsFiniteSet(seated) /\ Cardinality(seated) <= Capacity[k]
    BY <1>3, <1>5, SeatedFits
  <2> HIDE DEF seated
  <2> SUFFICES ASSUME NEW x \in Room
               PROVE  Occupied(x, roomState'[x], roomKey'[x], members'[x])
    BY OccupancyMeans
  <2>3. CASE x = r
    <3>1. members'[x] = seated /\ roomKey'[x] = k
      BY <2>1, <2>3 DEF MembersAfter, RoomKeyAfter
    <3> QED
      BY <1>5, <2>2, <3>1 DEF Occupied
  <2>4. CASE x # r
    <3>1. /\ members'[x] = MembersAfter(L, C)[x] /\ roomState'[x] = RoomStateAfter(L, C)[x]
          /\ roomKey'[x] = RoomKeyAfter(L, C)[x]
      BY <2>1, <2>4 DEF MembersAfter, RoomStateAfter, RoomKeyAfter
    <3> QED
      BY <1>3, <3>1, DepartKeepsOccupancy
  <2> QED
    BY <2>3, <2>4
<1> QED
  BY <1>4, <1>5

\* A handler in which one player departs.
LEMMA OneDepartsWithin ==
  ASSUME RoomInv, OccupancyInv, NEW p \in Player, \E C \in Crashes({p}) : Depart({p}, C)
  PROVE  OccupancyInv'
<1>1. {p} \subseteq Player
  OBVIOUS
<1> QED
  BY <1>1, DepartsWithin

LEMMA StepIsWithin ==
  ASSUME IInv, OccupancyInv, [Next]_vars
  PROVE  OccupancyInv'
<1> USE DEF IInv, IdentityInv
<1>1. ASSUME UNCHANGED <<members, roomState, roomKey>>
      PROVE  OccupancyInv'
  BY <1>1 DEF OccupancyInv, RoomOccupancy
<1>2. ASSUME NEW p \in Player \cup {None}, p \in players, Finalize(p)
      PROVE  OccupancyInv'
  BY <1>2, OneDepartsWithin, NoneIsNoId DEF Finalize, IdentityTypes, Detaches
<1>3. ASSUME NEW s \in Session, Connect(s) \/ Disconnect(s)
      PROVE  OccupancyInv'
  <2>1. \/ UNCHANGED <<members, roomState, roomKey>>
        \/ sessionPlayer[s] \in players /\ Finalize(sessionPlayer[s])
    BY <1>3 DEF Connect, Disconnect, roomVars
  <2>2. sessionPlayer[s] \in Player \cup {None}
    BY DEF IdentityTypes
  <2> QED
    BY <1>1, <1>2, <2>1, <2>2
<1>4. ASSUME NEW s \in Session, Packet(s)
      PROVE  OccupancyInv'
  <2>1. CASE MatchCancel(s) \/ \E t \in Token \cup {None} : Auth(s, t)
    BY <1>1, <2>1 DEF MatchCancel, Auth, roomVars
  <2>2. ASSUME NEW k \in Key, MatchWait(s, k) \/ MatchLost(s, k)
        PROVE  OccupancyInv'
    <3>1. sessionPlayer[s] \in Player
      BY <2>2, ActingIsPlayer DEF MatchWait, MatchLost
    <3>2. \E C \in Crashes({sessionPlayer[s]}) : Depart({sessionPlayer[s]}, C)
      BY <2>2 DEF MatchWait, MatchLost, Detaches
    <3> QED
      BY <3>1, <3>2, OneDepartsWithin
  <2>3. ASSUME NEW k \in Key, MatchForm(s, k)
        PROVE  OccupancyInv'
    BY <2>3, MatchFormIsWithin
  <2>4. ASSUME NEW r \in Room, RoomJoin(s, r) \/ RoomJoinFails(s, r)
        PROVE  OccupancyInv'
    BY <2>4, RoomJoinIsWithin, RoomJoinFailsIsWithin
  <2>5. CASE RoomLeave(s) \/ \E r \in Room : RoomJoinRefused(s, r)
    <3>1. sessionPlayer[s] \in Player
      BY <2>5, ActingIsPlayer DEF RoomLeave, RoomJoinRefused
    <3>2. PICK L \in {{}, {sessionPlayer[s]}} : \E C \in Crashes(L) : Depart(L, C)
      BY <2>5 DEF RoomLeave, RoomJoinRefused, Leaves, Detaches, JoinRefused
    <3>3. L \subseteq Player
      BY <3>1
    <3> QED
      BY <3>2, <3>3, DepartsWithin
  <2>6. CASE InputFails(s) \/ TurnFails(s)
    <3> DEFINE r == playerRoom[sessionPlayer[s]]
    <3>1. sessionPlayer[s] \in Player
      BY <2>6, ActingIsPlayer DEF InputFails, TurnFails
    <3>2. r \in Room /\ (Destroy(r, TRUE) \/ Destroy(r, FALSE))
      BY <2>6, <3>1 DEF InputFails, TurnFails, RoomInv, RoomTypes
    <3> HIDE DEF r
    <3> QED
      BY <3>2, DestroyedIsWithin
  <2> QED
    BY <1>4, <2>1, <2>2, <2>3, <2>4, <2>5, <2>6 DEF Packet
<1>5. ASSUME NEW p \in Player, GraceExpires(p)
      PROVE  OccupancyInv'
  <2>1. p \in players /\ Finalize(p)
    BY <1>5 DEF GraceExpires, PendingSound
  <2> QED
    BY <1>2, <2>1
<1>6. ASSUME NEW r \in Room, TickFails(r)
      PROVE  OccupancyInv'
  BY <1>6, DestroyedIsWithin DEF TickFails
<1>7. CASE Shutdown
  <2>1. \A r \in Room : members'[r] = {} /\ roomState'[r] = "none"
    BY <1>7 DEF Shutdown, Clears
  <2> QED
    BY <2>1, FS_EmptySet, OccupancyMeans DEF Occupied
<1> QED
  BY <1>1, <1>3, <1>4, <1>5, <1>6, <1>7 DEF Next, vars, roomVars

\* No room ever holds more players than it has seats, whoever joins, migrates or
\* is matched into it and whichever hooks throw; no empty autoDispose room is kept.
THEOREM RoomsAreWithinLimits == Spec => []RoomOccupancy
<1>1. Init => OccupancyInv
  BY FS_EmptySet DEF Init, OccupancyInv, RoomOccupancy, RoomsInit
<1>2. IInv /\ OccupancyInv /\ [Next]_vars => OccupancyInv'
  BY StepIsWithin
<1>3. OccupancyInv => RoomOccupancy
  BY DEF OccupancyInv
<1> QED
  BY <1>1, <1>2, <1>3, Invariance, PTL DEF Spec
-------------------------------------------------------------------------------
(* What a step may do to those who wait.                                   *)

\* What FirstComeFirstSeated says of a step.
SeatsInOrder ==
  \A k \in Key : \A i, j \in DOMAIN queues[k] :
    LET a == queues[k][i]
        b == queues[k][j]
    IN  /\ i < j
        /\ b \notin Waiting(queues'[k])
        /\ playerRoom'[b] \notin {None, playerRoom[b]}
        /\ roomKey'[playerRoom'[b]] = k
        => playerRoom'[a] = playerRoom'[b]

\* Whoever departs has no new room.
LEMMA NobodySeated ==
  ASSUME \A q \in Player : playerRoom'[q] \in {None, playerRoom[q]}, QueueInv
  PROVE  SeatsInOrder
<1>1. \A k \in Key : \A j \in DOMAIN queues[k] : queues[k][j] \in Player
  BY DEF QueueInv
<1> QED
  BY <1>1 DEF SeatsInOrder

LEMMA NobodyLeavesQueues ==
  ASSUME queues' = queues
  PROVE  SeatsInOrder
BY DEF SeatsInOrder, Waiting

LEMMA DepartSeatsNobody ==
  ASSUME NEW L, NEW C, Depart(L, C), QueueInv
  PROVE  SeatsInOrder
<1>1. \A q \in Player : playerRoom'[q] \in {None, playerRoom[q]}
  BY DEF Depart, PlayerRoomAfter
<1> QED
  BY <1>1, NobodySeated

\* The group of a match is the whole queue and the player that asks: those ahead
\* of a player that gets a seat are seated with it.
LEMMA MatchFormInOrder ==
  ASSUME RoomInv, QueueInv, IdentityTypes, NEW s \in Session, NEW k0 \in Key,
         MatchForm(s, k0)
  PROVE  SeatsInOrder
<1> DEFINE p     == sessionPlayer[s]
           q     == QueueFor(p, k0)
           n     == Required[k0]
           g     == Group(q, n)
           L     == {p} \cup Waiting(g)
<1>1. PICK r \in Room, C \in Crashes(L), fails \in {FALSE, HooksThrow} :
       LET seated == IF fails THEN {} ELSE Seated(g, k0) IN
       /\ roomState[r] = "none"
       /\ IF seated = {}
          THEN Depart(L, C)
          ELSE /\ members' = [MembersAfter(L, C) EXCEPT ![r] = seated]
               /\ playerRoom' = [x \in Player |-> IF x \in seated THEN r
                                                  ELSE PlayerRoomAfter(L, C)[x]]
               /\ roomState' = [RoomStateAfter(L, C) EXCEPT ![r] = "active"]
               /\ roomKey' = [RoomKeyAfter(L, C) EXCEPT ![r] = k0]
  BY DEF MatchForm, FormsRoom
<1>2. /\ p \in Player /\ Ready(q, n) /\ n \in Nat /\ Capacity[k0] \in Nat
      /\ queues \in [Key -> Seq(Player)] /\ WaitsOnce(queues)
      /\ n > 0 => Len(queues[k0]) < n
  BY QueueInvMeans, ParameterAssumption DEF MatchForm, Acting, IdentityTypes
<1> DEFINE seated == IF fails THEN {} ELSE Seated(g, k0)
<1>3. CASE seated = {}
  BY <1>1, <1>3, DepartSeatsNobody
<1>4. CASE seated # {} /\ n = 0
  <2>1. g = << >>
    BY <1>4 DEF Group
  <2> QED
    BY <1>4, <2>1 DEF Seated
<1>5. CASE seated # {} /\ n > 0
  <2>1. /\ p \notin Waiting(queues[k0])
        /\ Len(queues[k0]) = n - 1
        /\ g \in Seq(Player) /\ Len(g) = n /\ Distinct(g)
        /\ \A i \in 1..(n - 1) : g[i] = queues[k0][i]
        /\ g[n] = p
    BY <1>2, <1>5, GroupIsQueueAndPlayer DEF QueueFor
  <2>2. /\ playerRoom' = [x \in Player |-> IF x \in seated THEN r
                                           ELSE PlayerRoomAfter(L, C)[x]]
        /\ roomKey' = [RoomKeyAfter(L, C) EXCEPT ![r] = k0]
        /\ seated = Seated(g, k0)
    BY <1>1, <1>5
  <2> HIDE DEF p, q, n, g, L, seated
  <2> SUFFICES ASSUME NEW k \in Key, NEW i \in DOMAIN queues[k], NEW j \in DOMAIN queues[k],
                      i < j,
                      playerRoom'[queues[k][j]] \notin {None, playerRoom[queues[k][j]]},
                      roomKey'[playerRoom'[queues[k][j]]] = k
               PROVE  playerRoom'[queues[k][i]] = playerRoom'[queues[k][j]]
    BY DEF SeatsInOrder
  <2>3. queues[k][i] \in Player /\ queues[k][j] \in Player
    BY <1>2
  <2>4. queues[k][j] \in seated /\ playerRoom'[queues[k][j]] = r
    BY <2>2, <2>3 DEF PlayerRoomAfter
  <2>5. k = k0
    BY <2>2, <2>4 DEF RoomKeyAfter
  <2>6. i \in 1..(n - 1) /\ j \in 1..(n - 1) /\ DOMAIN g = 1..n
    BY <1>2, <2>1, <2>5
  <2>7. g[i] = queues[k][i] /\ g[j] = queues[k][j]
    BY <2>1, <2>5, <2>6
  <2>8. PICK m \in DOMAIN g : g[m] = queues[k][j] /\ m <= Capacity[k0]
    BY <2>2, <2>4 DEF Seated
  <2>9. m = j
    BY <2>1, <2>6, <2>7, <2>8 DEF Distinct
  <2>10. i \in DOMAIN g /\ i <= Capacity[k0]
    BY <1>2, <2>6, <2>8, <2>9
  <2>11. queues[k][i] \in seated
    BY <2>2, <2>7, <2>10 DEF Seated
  <2> QED
    BY <2>2, <2>3, <2>4, <2>11
<1> QED
  BY <1>2, <1>3, <1>4, <1>5

LEMMA StepInOrder ==
  ASSUME IInv, Next
  PROVE  SeatsInOrder
<1> USE DEF IInv, IdentityInv
<1>1. ASSUME playerRoom' = playerRoom PROVE SeatsInOrder
  BY <1>1, NobodySeated
<1>2. ASSUME NEW p, Finalize(p) PROVE SeatsInOrder
  BY <1>2, DepartSeatsNobody DEF Finalize, Detaches
<1>3. ASSUME NEW s \in Session, Connect(s) \/ Disconnect(s) PROVE SeatsInOrder
  <2>1. queues' = queues \/ Finalize(sessionPlayer[s])
    BY <1>3 DEF Connect, Disconnect
  <2> QED
    BY <1>2, <2>1, NobodyLeavesQueues
<1>4. ASSUME NEW s \in Session, Packet(s) PROVE SeatsInOrder
  <2>1. CASE MatchCancel(s)
    BY <1>1, <2>1 DEF MatchCancel, roomVars
  <2>2. ASSUME NEW k \in Key, MatchWait(s, k) \/ MatchLost(s, k) PROVE SeatsInOrder
    <3>1. \E C \in Crashes({sessionPlayer[s]}) : Depart({sessionPlayer[s]}, C)
      BY <2>2 DEF MatchWait, MatchLost, Detaches
    <3> QED
      BY <3>1, DepartSeatsNobody
  <2>3. ASSUME NEW k \in Key, MatchForm(s, k) PROVE SeatsInOrder
    BY <2>3, MatchFormInOrder
  <2>4. CASE \/ \E t \in Token \cup {None} : Auth(s, t)
             \/ \E r \in Room : RoomJoin(s, r) \/ RoomJoinRefused(s, r) \/ RoomJoinFails(s, r)
             \/ RoomLeave(s) \/ InputFails(s) \/ TurnFails(s)
    <3>1. queues' = queues
      BY <2>4 DEF Auth, RoomJoin, RoomJoinRefused, RoomJoinFails, RoomLeave, InputFails, TurnFails
    <3> QED
      BY <3>1, NobodyLeavesQueues
  <2> QED
    BY <1>4, <2>1, <2>2, <2>3, <2>4 DEF Packet
<1>5. ASSUME NEW p \in Player, GraceExpires(p) PROVE SeatsInOrder
  <2>1. p \in players /\ Finalize(p)
    BY <1>5 DEF GraceExpires, PendingSound
  <2> QED
    BY <1>2, <2>1
<1>6. CASE Shutdown \/ \E r \in Room : TickFails(r)
  BY <1>6, NobodyLeavesQueues DEF Shutdown, TickFails
<1> QED
  BY <1>3, <1>4, <1>5, <1>6 DEF Next

\* Seats go in the order of the queue, also when the room has fewer of them than
\* the group has players, for any such numbers.
THEOREM SeatingIsFair == Spec => FirstComeFirstSeated
<1>1. IInv /\ [Next]_vars => [SeatsInOrder]_vars
  BY StepInOrder
<1> QED
  BY <1>1, Invariance, PTL DEF Spec, FirstComeFirstSeated, SeatsInOrder
-------------------------------------------------------------------------------
\* What ReconnectRestores says of a step.
GraceEndsWell ==
  \A p \in timers : p \notin timers' /\ ~down' =>
    \/ /\ p \in players'
       /\ playerRoom'[p] = playerRoom[p]
       /\ queues' = queues
       /\ \E s \in sessions : sessionPlayer'[s] = p /\ playerSession'[p] = s
    \/ /\ p \notin players'
       /\ playerRoom'[p] = None
       /\ \A k \in Key : p \notin Waiting(queues'[k])

\* A removed player is nowhere any more.
LEMMA FinalizeForgets ==
  ASSUME IInv, NEW p \in Player, Finalize(p)
  PROVE  /\ p \notin players' /\ playerRoom'[p] = None
         /\ \A k \in Key : p \notin Waiting(queues'[k])
<1>1. queues \in [Key -> Seq(Player)] /\ WaitsOnce(queues)
  BY QueueInvMeans DEF IInv
<1>2. \A k \in Key : p \notin Waiting(Cancel(queues, p)[k])
  BY <1>1, CancelWaiting
<1>3. playerRoom'[p] = None
  BY DEF Finalize, Depart, PlayerRoomAfter, Departed, Detaches
<1> QED
  BY <1>2, <1>3 DEF Finalize

LEMMA AuthEndsWell ==
  ASSUME IInv, NEW s \in Session, NEW t \in Token \cup {None}, Auth(s, t)
  PROVE  GraceEndsWell
<1> DEFINE known == IF t = None THEN None ELSE pending[t]
<1>1. /\ s \in sessions /\ timers' = timers \ {known}
      /\ queues' = queues /\ playerRoom' = playerRoom
  BY DEF Auth, Cleared, roomVars
<1>2. PICK x \in Player :
        /\ IF known \in players THEN x = known ELSE Fresh(x)
        /\ players' = players \cup {x}
        /\ sessionPlayer' = [sessionPlayer EXCEPT ![s] = x]
        /\ playerSession' = [playerSession EXCEPT ![x] = s]
  BY DEF Auth, Resumes
<1> HIDE DEF known
<1> SUFFICES ASSUME NEW p \in timers, p \notin timers'
             PROVE  /\ p \in players'
                    /\ playerRoom'[p] = playerRoom[p]
                    /\ queues' = queues
                    /\ \E z \in sessions : sessionPlayer'[z] = p /\ playerSession'[p] = z
  BY DEF GraceEndsWell
<1>3. p = known /\ p \in players /\ p \in Player
  BY <1>1 DEF IInv, IdentityInv, IdentityTypes, PendingSound
<1>4. x = p
  BY <1>2, <1>3
<1>5. sessionPlayer'[s] = p /\ playerSession'[p] = s
  BY <1>1, <1>2, <1>3, <1>4 DEF IInv, IdentityInv, IdentityTypes
<1> QED
  BY <1>1, <1>2, <1>4, <1>5

LEMMA StepEndsWell ==
  ASSUME IInv, Next
  PROVE  GraceEndsWell
<1>1. ASSUME timers \subseteq timers' PROVE GraceEndsWell
  BY <1>1 DEF GraceEndsWell
<1>2. ASSUME NEW s \in Session, Connect(s) \/ Disconnect(s) PROVE GraceEndsWell
  <2>1. timers \subseteq timers'
    BY <1>2 DEF Connect, Disconnect, Armed, identityVars
  <2> QED
    BY <1>1, <2>1
<1>3. ASSUME NEW s \in Session, Packet(s) PROVE GraceEndsWell
  <2>1. CASE \E t \in Token \cup {None} : Auth(s, t)
    BY <2>1, AuthEndsWell
  <2>2. ASSUME ~\E t \in Token \cup {None} : Auth(s, t)
        PROVE  timers' = timers
    BY <1>3, <2>2 DEF Packet, MatchWait, MatchForm, MatchLost, MatchCancel, RoomJoin,
                      RoomJoinRefused, RoomJoinFails, RoomLeave, InputFails, TurnFails,
                      identityVars
  <2> QED
    BY <1>1, <2>1, <2>2
<1>4. ASSUME NEW q \in Player, GraceExpires(q) PROVE GraceEndsWell
  <2>1. q \in players /\ Finalize(q) /\ timers' = timers \ {q}
    BY <1>4 DEF GraceExpires, IInv, IdentityInv, PendingSound
  <2>2. /\ q \notin players' /\ playerRoom'[q] = None
        /\ \A k \in Key : q \notin Waiting(queues'[k])
    BY <2>1, FinalizeForgets
  <2> QED
    BY <2>1, <2>2 DEF GraceEndsWell
<1>5. CASE \E r \in Room : TickFails(r)
  BY <1>1, <1>5 DEF TickFails, identityVars
<1>6. CASE Shutdown
  BY <1>6 DEF Shutdown, GraceEndsWell
<1> QED
  BY <1>2, <1>3, <1>4, <1>5, <1>6 DEF Next

\* A grace period ends in one of two ways only, whatever timers, clients and hooks
\* do: the player is back with its seat and its places, or it is nowhere any more.
THEOREM GracePeriodsEndWell == Spec => ReconnectRestores
<1>1. IInv /\ [Next]_vars => [GraceEndsWell]_vars
  BY StepEndsWell
<1> QED
  BY <1>1, Invariance, PTL DEF Spec, ReconnectRestores, GraceEndsWell
-------------------------------------------------------------------------------
(* The handlers keep to the steps of Rooms: a match, which is the hard     *)
(* case, seats as many of the group as there are seats.                    *)

\* The players at some places of a group are as many as the places.
LEMMA PlacesArePlayers ==
  ASSUME NEW S, NEW g \in Seq(S), Distinct(g), NEW n \in Nat, n <= Len(g)
  PROVE  Cardinality({g[i] : i \in 1..n}) = n
<1> DEFINE T == {g[i] : i \in 1..n}
           f == [i \in 1..n |-> g[i]]
<1>1. 1..n \subseteq DOMAIN g
  OBVIOUS
<1>2. \A i, j \in 1..n : g[i] = g[j] => i = j
  BY <1>1 DEF Distinct
<1>3. f \in Bijection(1..n, T)
  <2>1. f \in [1..n -> T] /\ \A i \in 1..n : f[i] = g[i]
    OBVIOUS
  <2>2. \A t \in T : \E i \in 1..n : f[i] = t
    OBVIOUS
  <2> HIDE DEF f, T
  <2>3. DOMAIN f = 1..n
    BY <2>1
  <2>4. f \in Injection(1..n, T)
    BY <1>2, <2>1, <2>3 DEF Injection, IsInjective
  <2>5. f \in Surjection(1..n, T)
    BY <2>1, <2>2 DEF Surjection
  <2> QED
    BY <2>4, <2>5 DEF Bijection
<1>4. IsFiniteSet(1..n) /\ Cardinality(1..n) = n
  <2>1. 1 \in Int /\ n \in Int
    OBVIOUS
  <2>2. /\ IsFiniteSet(1..n)
        /\ Cardinality(1..n) = IF 1 > n THEN 0 ELSE n - 1 + 1
    BY <2>1, FS_Interval
  <2>3. Cardinality(1..n) = n
    BY <2>2
  <2> QED
    BY <2>2, <2>3
<1> HIDE DEF T, f
<1>5. ExistsBijection(1..n, T)
  BY <1>3 DEF ExistsBijection
<1>6. Cardinality(T) = Cardinality(1..n)
  BY <1>4, <1>5, FS_Bijection
<1> QED
  BY <1>4, <1>6 DEF T

\* The seats of a match are a seating of its group.
LEMMA SeatedIsSeating ==
  ASSUME NEW g \in Seq(Player), Distinct(g), NEW k \in Key
  PROVE  Seated(g, k) \in Seatings(Waiting(g), k)
<1> DEFINE c == Capacity[k]
           l == Len(g)
           m == IF l < c THEN l ELSE c
<1>1. c \in Nat /\ l \in Nat /\ m \in Nat /\ m <= l /\ DOMAIN g = 1..l
  BY ParameterAssumption
<1>2. Waiting(g) = {g[i] : i \in 1..l}
  BY <1>1 DEF Waiting
<1>3. {j \in DOMAIN g : j <= c} = 1..m
  BY <1>1
<1>4. Seated(g, k) = {g[i] : i \in 1..m}
  BY <1>3 DEF Seated
<1>5. Seated(g, k) \subseteq Waiting(g)
  BY <1>1, <1>2, <1>4
<1> HIDE DEF c, m
<1>6. Cardinality(Seated(g, k)) = m
  BY <1>1, <1>4, PlacesArePlayers
<1>7. Cardinality(Waiting(g)) = l
  BY <1>1, <1>2, PlacesArePlayers
<1> QED
  BY <1>5, <1>6, <1>7 DEF Seatings, m, c

\* A match is a match of Rooms; one that needs nobody only takes its player out of
\* its room.
LEMMA MatchFormIsWhole ==
  ASSUME QueueInv, IdentityTypes, NEW s \in Session, NEW k \in Key, MatchForm(s, k)
  PROVE  \/ Detaches(sessionPlayer[s])
         \/ \E L \in SUBSET Player : \E S \in Seatings(L, k) : FormsRoom(L, S, k)
<1> DEFINE p == sessionPlayer[s]
           n == Required[k]
           g == Group(QueueFor(p, k), n)
           L == {p} \cup Waiting(g)
<1>1. p \in Player /\ p \in players /\ players \subseteq Player /\ Ready(QueueFor(p, k), n)
  BY DEF MatchForm, Acting, IdentityTypes
<1>2. PICK fails \in {FALSE, HooksThrow} :
        FormsRoom(L, IF fails THEN {} ELSE Seated(g, k), k)
  BY DEF MatchForm
<1>3. n \in Nat /\ queues \in [Key -> Seq(Player)] /\ WaitsOnce(queues)
  BY QueueInvMeans, ParameterAssumption
<1> HIDE DEF p, n
<1>4. CASE n > 0
  <2>1. /\ g \in Seq(Player) /\ Len(g) = n /\ Distinct(g) /\ g[n] = p
    <3>1. Len(queues[k]) < n
      BY <1>4, QueueInvMeans DEF n
    <3> QED
      BY <1>1, <1>3, <1>4, <3>1, GroupIsQueueAndPlayer DEF QueueFor
  <2> HIDE DEF g
  <2>2. p \in Waiting(g) /\ Waiting(g) \subseteq Player
    <3>1. n \in DOMAIN g /\ \A i \in DOMAIN g : g[i] \in Player
      BY <1>3, <1>4, <2>1
    <3> QED
      BY <2>1, <3>1 DEF Waiting
  <2>3. L = Waiting(g) /\ L \in SUBSET Player
    BY <2>2
  <2>4. Seated(g, k) \in Seatings(L, k)
    BY <2>1, <2>3, SeatedIsSeating
  <2>5. HooksThrow => {} \in Seatings(L, k)
    BY DEF Seatings
  <2> HIDE DEF L
  <2>6. (IF fails THEN {} ELSE Seated(g, k)) \in Seatings(L, k)
    <3>1. CASE fails
      BY <1>2, <2>5, <3>1
    <3>2. CASE ~fails
      BY <2>4, <3>2
    <3> QED
      BY <3>1, <3>2
  <2> QED
    BY <1>2, <2>3, <2>6
<1>5. CASE n = 0
  <2>1. g = << >>
    BY <1>5 DEF Group
  <2>2. Waiting(g) = {} /\ Seated(g, k) = {}
    BY <2>1 DEF Waiting, Seated
  <2>3. FormsRoom({p}, {}, k)
    BY <1>2, <2>2
  <2> QED
    BY <2>3 DEF FormsRoom, Detaches, p
<1> QED
  BY <1>3, <1>4, <1>5

\* A hook throws in a room that a player acts in.
LEMMA ActingRoomBreaks ==
  ASSUME RoomInv, IdentityInv, NEW s \in Session, InputFails(s) \/ TurnFails(s)
  PROVE  \E r \in Room, kept \in BOOLEAN : Breaks(r, kept)
<1> DEFINE p == sessionPlayer[s]
           r == playerRoom[p]
<1>1. p \in Player
  BY ActingIsPlayer DEF InputFails, TurnFails
<1>2. r \in Room /\ r # None
  BY <1>1 DEF RoomInv, RoomTypes, InputFails, TurnFails
<1>3. roomState[r] = "active"
  BY <1>1, <1>2 DEF RoomInv, Membership
<1>4. \/ roomKey[r] \in Realtime /\ Destroy(r, FALSE)
      \/ Destroy(r, TRUE)
  BY DEF InputFails, TurnFails
<1>5. HooksThrow
  BY DEF InputFails, TurnFails
<1> HIDE DEF p, r
<1>6. Breaks(r, FALSE) \/ Breaks(r, TRUE)
  BY <1>3, <1>4, <1>5 DEF Breaks
<1> QED
  BY <1>2, <1>6

LEMMA StepIsWhole ==
  ASSUME IInv, [Next]_vars
  PROVE  [RoomsNext]_roomVars
<1>1. RoomInv /\ QueueInv /\ IdentityInv /\ IdentityTypes
  BY DEF IInv, IdentityInv
<1>2. CASE UNCHANGED vars
  BY <1>2 DEF vars
<1>3. ASSUME NEW p \in Player, Finalize(p) PROVE RoomsNext
  BY <1>3 DEF Finalize, RoomsNext
<1>4. ASSUME NEW s \in Session, Connect(s) \/ Disconnect(s)
      PROVE  [RoomsNext]_roomVars
  <2>1. \/ UNCHANGED roomVars
        \/ sessionPlayer[s] \in players /\ Finalize(sessionPlayer[s])
    BY <1>4 DEF Connect, Disconnect
  <2>2. sessionPlayer[s] \in players => sessionPlayer[s] \in Player
    BY <1>1 DEF IdentityTypes
  <2> QED
    BY <1>3, <2>1, <2>2
<1>5. ASSUME NEW s \in Session, Packet(s)
      PROVE  [RoomsNext]_roomVars
  <2>1. CASE MatchCancel(s) \/ \E t \in Token \cup {None} : Auth(s, t)
    BY <2>1 DEF MatchCancel, Auth
  <2>2. ASSUME NEW k \in Key, MatchWait(s, k) \/ MatchForm(s, k) \/ MatchLost(s, k)
        PROVE  RoomsNext
    <3>1. sessionPlayer[s] \in Player
      BY <1>1, <2>2, ActingIsPlayer DEF MatchWait, MatchForm, MatchLost
    <3>2. \/ Detaches(sessionPlayer[s])
          \/ \E L \in SUBSET Player : \E S \in Seatings(L, k) : FormsRoom(L, S, k)
      BY <1>1, <2>2, MatchFormIsWhole DEF MatchWait, MatchLost
    <3> QED
      BY <3>1, <3>2 DEF RoomsNext
  <2>3. ASSUME NEW r \in Room, RoomJoin(s, r) \/ RoomJoinRefused(s, r) \/ RoomJoinFails(s, r)
        PROVE  RoomsNext
    <3>1. sessionPlayer[s] \in Player
      BY <1>1, <2>3, ActingIsPlayer DEF RoomJoin, RoomJoinRefused, RoomJoinFails
    <3> QED
      BY <2>3, <3>1 DEF RoomJoin, RoomJoinRefused, RoomJoinFails, RoomsNext
  <2>4. CASE RoomLeave(s)
    <3>1. sessionPlayer[s] \in Player
      BY <1>1, <2>4, ActingIsPlayer DEF RoomLeave
    <3> QED
      BY <2>4, <3>1 DEF RoomLeave, RoomsNext
  <2>5. CASE InputFails(s) \/ TurnFails(s)
    BY <1>1, <2>5, ActingRoomBreaks DEF RoomsNext
  <2> QED
    BY <1>5, <2>1, <2>2, <2>3, <2>4, <2>5 DEF Packet
<1>6. ASSUME NEW p \in Player, GraceExpires(p)
      PROVE  [RoomsNext]_roomVars
  BY <1>3, <1>6 DEF GraceExpires
<1>7. ASSUME NEW r \in Room, TickFails(r)
      PROVE  RoomsNext
  <2>1. Breaks(r, TRUE)
    BY <1>7 DEF TickFails, Breaks
  <2> QED
    BY <2>1 DEF RoomsNext
<1>8. CASE Shutdown
  BY <1>8 DEF Shutdown, RoomsNext
<1> QED
  BY <1>2, <1>4, <1>5, <1>6, <1>7, <1>8 DEF Next

\* Everything the server does to rooms and seats, from whatever socket, packet or
\* timer, is one of the steps of Rooms: departures, a join, a match whose room
\* seats the group or as many as fit, a room that breaks, or the shutdown.
THEOREM RoomsInServer == Spec => RoomsSpec
<1>1. Init => RoomsInit
  BY DEF Init
<1>2. IInv /\ [Next]_vars => [RoomsNext]_roomVars
  BY StepIsWhole
<1> QED
  BY <1>1, <1>2, Invariance, PTL DEF Spec, RoomsSpec
-------------------------------------------------------------------------------
(* The three promises that need an assumption about clients, hooks or      *)
(* operators, each proved from no more than that assumption.               *)

\* Only these handlers touch sessions, identities and timers.
LEMMA StepKinds ==
  ASSUME [Next]_vars
  PROVE  \/ \E s \in Session : \/ Connect(s) \/ Disconnect(s)
                               \/ \E t \in Token \cup {None} : Auth(s, t)
         \/ \E p \in Player : GraceExpires(p)
         \/ Shutdown
         \/ UNCHANGED <<clientVars, identityVars>>
<1>1. CASE UNCHANGED vars
  BY <1>1 DEF vars
<1>2. ASSUME NEW s \in Session, Packet(s)
      PROVE  \/ \E t \in Token \cup {None} : Auth(s, t)
             \/ UNCHANGED <<clientVars, identityVars>>
  <2>1. ASSUME NEW k \in Key, MatchWait(s, k) \/ MatchForm(s, k) \/ MatchLost(s, k)
        PROVE  UNCHANGED <<clientVars, identityVars>>
    BY <2>1 DEF MatchWait, MatchForm, MatchLost
  <2>2. ASSUME NEW r \in Room, RoomJoin(s, r) \/ RoomJoinRefused(s, r) \/ RoomJoinFails(s, r)
        PROVE  UNCHANGED <<clientVars, identityVars>>
    BY <2>2 DEF RoomJoin, RoomJoinRefused, RoomJoinFails
  <2>3. CASE MatchCancel(s) \/ RoomLeave(s) \/ InputFails(s) \/ TurnFails(s)
    BY <2>3 DEF MatchCancel, RoomLeave, InputFails, TurnFails
  <2> QED
    BY <1>2, <2>1, <2>2, <2>3 DEF Packet
<1>3. ASSUME NEW r \in Room, TickFails(r)
      PROVE  UNCHANGED <<clientVars, identityVars>>
  BY <1>3 DEF TickFails
<1> QED
  BY <1>1, <1>2, <1>3 DEF Next
-------------------------------------------------------------------------------
(* Identities, after a handler that changes them: who is on line then was  *)
(* on line before, but for the player of an AUTH.                          *)

LEMMA ConnectBinds ==
  ASSUME IdentityInv, NEW s \in Session, Connect(s)
  PROVE  /\ UNCHANGED identityVars
         /\ \A p \in Player : Bound(p)' <=> Bound(p)
<1>1. /\ sessions' = sessions \cup {s} /\ sessionPlayer' = sessionPlayer
      /\ UNCHANGED identityVars
  BY DEF Connect
<1>2. sessionPlayer[s] = None
  BY DEF Connect, IdentityInv, SessionBinding
<1> QED
  BY <1>1, <1>2, NoneIsNoId DEF Bound

LEMMA AuthBinds ==
  ASSUME IdentityInv, NEW s \in Session, NEW t \in Token \cup {None}, Auth(s, t)
  PROVE  \E p \in Player :
           /\ IF t # None /\ pending[t] # None THEN p = pending[t] ELSE p \notin players
           /\ Bound(p)'
           /\ \A q \in Player \ {p} : Bound(q)' => Bound(q)
           /\ \A q \in Player \ {p} : sessionPlayer[s] = None => (Bound(q) => Bound(q)')
           /\ players' = players \cup {p}
           /\ tokenOf' = [tokenOf EXCEPT ![p] = t]
           /\ timers' = timers \ {p}
           /\ pending' = IF t = None THEN pending ELSE [pending EXCEPT ![t] = None]
<1> DEFINE known == IF t = None THEN None ELSE pending[t]
<1>1. /\ s \in sessions /\ sessions' = sessions
      /\ timers' = timers \ {known}
      /\ pending' = IF t = None THEN pending ELSE [pending EXCEPT ![t] = None]
  BY DEF Auth, Cleared
<1>2. PICK p \in Player :
        /\ IF known \in players THEN p = known ELSE p \notin players
        /\ players' = players \cup {p}
        /\ sessionPlayer' = [sessionPlayer EXCEPT ![s] = p]
        /\ tokenOf' = [tokenOf EXCEPT ![p] = t]
  BY DEF Auth, Resumes, Fresh
<1>3. /\ sessionPlayer \in [Session -> Player \cup {None}]
      /\ sessions \subseteq Session /\ timers \subseteq players
      /\ players \subseteq Player
      /\ known # None => known \in players /\ t # None /\ pending[t] = known
  BY DEF IdentityInv, IdentityTypes, PendingSound
<1>4. timers' = timers \ {p}
  BY <1>1, <1>2, <1>3, NoneIsNoId
<1>5. sessionPlayer'[s] = p /\ \A x \in Session \ {s} : sessionPlayer'[x] = sessionPlayer[x]
  BY <1>2, <1>3
<1>6. /\ Bound(p)'
      /\ \A q \in Player \ {p} : Bound(q)' => Bound(q)
      /\ \A q \in Player \ {p} : sessionPlayer[s] = None => (Bound(q) => Bound(q)')
  BY <1>1, <1>3, <1>5, NoneIsNoId DEF Bound
<1>7. IF t # None /\ pending[t] # None THEN p = pending[t] ELSE p \notin players
  BY <1>2, <1>3, NoneIsNoId
<1> HIDE DEF known
<1> QED
  BY <1>1, <1>2, <1>4, <1>6, <1>7

LEMMA DisconnectBinds ==
  ASSUME IdentityInv, NEW s \in Session, Disconnect(s)
  PROVE  \/ /\ UNCHANGED identityVars
            /\ \A q \in Player : Bound(q)' <=> Bound(q)
         \/ \E p \in players :
              /\ Bound(p)
              /\ \A q \in Player \ {p} : Bound(q)' <=> Bound(q)
              /\ \/ /\ tokenOf[p] # None
                    /\ timers' = timers \cup {p}
                    /\ pending' = [pending EXCEPT ![tokenOf[p]] = p]
                    /\ UNCHANGED <<players, tokenOf>>
                 \/ /\ tokenOf[p] = None
                    /\ players' = players \ {p}
                    /\ tokenOf' = [tokenOf EXCEPT ![p] = None]
                    /\ UNCHANGED <<timers, pending>>
<1> DEFINE p == sessionPlayer[s]
<1>1. /\ s \in sessions
      /\ sessions' = sessions \ {s}
      /\ sessionPlayer' = [sessionPlayer EXCEPT ![s] = None]
      /\ sessionPlayer \in [Session -> Player \cup {None}]
      /\ sessions \subseteq Session
  BY DEF Disconnect, IdentityInv, IdentityTypes
<1>2. \A q \in Player \ {p} : Bound(q)' <=> Bound(q)
  <2>1. \A x \in Session \ {s} : sessionPlayer'[x] = sessionPlayer[x]
    BY <1>1
  <2> QED
    BY <1>1, <2>1, NoneIsNoId DEF Bound
<1>3. CASE p \notin players
  <2>1. UNCHANGED identityVars
    BY <1>3 DEF Disconnect
  <2>2. p = None
    BY <1>1, <1>3 DEF IdentityInv, SessionBinding
  <2> QED
    BY <1>2, <2>1, <2>2, NoneIsNoId
<1>4. CASE p \in players
  <2>1. Bound(p)
    BY <1>1 DEF Bound
  <2>2. \/ /\ tokenOf[p] # None
           /\ timers' = timers \cup {p}
           /\ pending' = [pending EXCEPT ![tokenOf[p]] = p]
           /\ UNCHANGED <<players, tokenOf>>
        \/ /\ tokenOf[p] = None
           /\ players' = players \ {p}
           /\ tokenOf' = [tokenOf EXCEPT ![p] = None]
           /\ UNCHANGED <<timers, pending>>
    BY <1>4 DEF Disconnect, Armed, Finalize, Unregistered
  <2> HIDE DEF p
  <2> QED
    BY <1>2, <1>4, <2>1, <2>2
<1> QED
  BY <1>3, <1>4

LEMMA GraceExpiresBinds ==
  ASSUME IdentityInv, NEW p \in Player, GraceExpires(p)
  PROVE  /\ p \in players /\ p \in timers /\ tokenOf[p] \in Token
         /\ \A q \in Player : Bound(q)' <=> Bound(q)
         /\ timers' = timers \ {p}
         /\ players' = players \ {p}
         /\ tokenOf' = [tokenOf EXCEPT ![p] = None]
         /\ pending' = [pending EXCEPT ![tokenOf[p]] = None]
<1>1. p \in players /\ p \in timers /\ tokenOf[p] \in Token
  BY DEF GraceExpires, IdentityInv, IdentityTypes, PendingSound
<1>2. sessions' = sessions /\ sessionPlayer' = sessionPlayer
  BY DEF GraceExpires
<1> QED
  BY <1>1, <1>2, NoneIsNoId DEF GraceExpires, Finalize, Unregistered, Bound
-------------------------------------------------------------------------------
(* Ghosts.                                                                 *)

LEMMA UnchangedBinds ==
  UNCHANGED <<clientVars, identityVars>> =>
    UNCHANGED identityVars /\ \A q \in Player : Bound(q)' <=> Bound(q)
BY DEF clientVars, Bound

LEMMA StepLeavesNoGhost ==
  ASSUME ReAuth = FALSE, MayShutdown = FALSE, IInv, NoGhostPlayers, [Next]_vars
  PROVE  NoGhostPlayers'
<1>1. IdentityInv /\ players \subseteq Player
  BY DEF IInv, IdentityInv, IdentityTypes
<1>2. CASE UNCHANGED <<clientVars, identityVars>>
  BY <1>1, <1>2, UnchangedBinds DEF NoGhostPlayers, identityVars
<1>3. ASSUME NEW s \in Session, Connect(s)
      PROVE  NoGhostPlayers'
  BY <1>1, <1>3, ConnectBinds DEF NoGhostPlayers, identityVars
<1>4. ASSUME NEW s \in Session, NEW t \in Token \cup {None}, Auth(s, t)
      PROVE  NoGhostPlayers'
  <2>1. sessionPlayer[s] = None
    BY <1>4 DEF Auth, ClientSends
  <2>2. PICK p \in Player :
          /\ Bound(p)'
          /\ \A q \in Player \ {p} : sessionPlayer[s] = None => (Bound(q) => Bound(q)')
          /\ players' = players \cup {p}
          /\ timers' = timers \ {p}
    BY <1>1, <1>4, AuthBinds
  <2>3. ASSUME NEW q \in players'
        PROVE  Bound(q)' \/ q \in timers'
    BY <1>1, <2>1, <2>2 DEF NoGhostPlayers
  <2> QED
    BY <2>3 DEF NoGhostPlayers
<1>5. ASSUME NEW s \in Session, Disconnect(s)
      PROVE  NoGhostPlayers'
  <2>1. CASE UNCHANGED identityVars /\ \A q \in Player : Bound(q)' <=> Bound(q)
    BY <1>1, <2>1 DEF NoGhostPlayers, identityVars
  <2>2. ASSUME NEW p \in players,
               \A q \in Player \ {p} : Bound(q)' <=> Bound(q),
               \/ timers' = timers \cup {p} /\ players' = players
               \/ timers' = timers /\ players' = players \ {p}
        PROVE  NoGhostPlayers'
    BY <1>1, <2>2 DEF NoGhostPlayers
  <2> QED
    BY <1>1, <1>5, <2>1, <2>2, DisconnectBinds
<1>6. ASSUME NEW p \in Player, GraceExpires(p)
      PROVE  NoGhostPlayers'
  BY <1>1, <1>6, GraceExpiresBinds DEF NoGhostPlayers
<1> QED
  BY <1>2, <1>3, <1>4, <1>5, <1>6, StepKinds DEF Shutdown

\* If no client authenticates twice and the server is not shut down, every
\* player is on line or about to be finalized.
THEOREM NoGhostsIfAuthOnce ==
  ASSUME ReAuth = FALSE, MayShutdown = FALSE
  PROVE  Spec => []NoGhostPlayers
<1>1. Init => NoGhostPlayers
  BY DEF Init, NoGhostPlayers
<1>2. IInv /\ NoGhostPlayers /\ [Next]_vars => NoGhostPlayers'
  BY StepLeavesNoGhost
<1> QED
  BY <1>1, <1>2, Invariance, PTL DEF Spec
-------------------------------------------------------------------------------
(* Grace windows.  The pending entry of a token can only be lost to another *)
(* player that has the same token and is on line or timed itself.          *)

Live(p) == Bound(p) \/ p \in timers

OneLivePlayerPerToken ==
  \A p, q \in players :
    Live(p) /\ Live(q) /\ tokenOf[p] = tokenOf[q] /\ tokenOf[p] # None => p = q

GraceInv == GraceWindowHonoured /\ OneLivePlayerPerToken

LEMMA AuthKeepsGrace ==
  ASSUME SharedToken = FALSE, IdentityInv, GraceInv,
         NEW s \in Session, NEW t \in Token \cup {None}, Auth(s, t)
  PROVE  GraceInv'
<1>1. /\ players \subseteq Player /\ timers \subseteq players
      /\ tokenOf \in [Player -> Token \cup {None}]
      /\ pending \in [Token -> Player \cup {None}]
      /\ \A q \in timers : tokenOf[q] \in Token
  BY DEF IdentityInv, IdentityTypes, PendingSound
<1>2. PICK p \in Player :
        /\ IF t # None /\ pending[t] # None THEN p = pending[t] ELSE p \notin players
        /\ \A q \in Player \ {p} : Bound(q)' => Bound(q)
        /\ players' = players \cup {p}
        /\ tokenOf' = [tokenOf EXCEPT ![p] = t]
        /\ timers' = timers \ {p}
        /\ pending' = IF t = None THEN pending ELSE [pending EXCEPT ![t] = None]
  BY AuthBinds
\* Nobody else that is on line or timed has this token.
<1>3. ASSUME NEW q \in players, q # p, Live(q), t # None
      PROVE  tokenOf[q] # t
  <2>1. tokenOf[q] = t => ~Bound(q)
    BY <1>3 DEF Auth, ClientSends
  <2>2. q \in timers /\ tokenOf[q] = t => pending[t] = q
    BY DEF GraceInv, GraceWindowHonoured
  <2>3. q \in timers /\ tokenOf[q] = t => FALSE
    BY <1>2, <1>3, <2>2, NoneIsNoId, <1>1
  <2> QED
    BY <1>3, <2>1, <2>3 DEF Live
<1>4. \A q \in Player \ {p} : Live(q)' => Live(q)
  BY <1>2 DEF Live
<1>5. tokenOf'[p] = t /\ \A q \in Player \ {p} : tokenOf'[q] = tokenOf[q]
  BY <1>1, <1>2
<1>6. ASSUME NEW q \in timers'
      PROVE  pending'[tokenOf'[q]] = q
  <2>1. q \in timers /\ q # p /\ q \in players /\ Live(q)
    BY <1>1, <1>2 DEF Live
  <2>2. pending[tokenOf[q]] = q /\ tokenOf'[q] = tokenOf[q] /\ tokenOf[q] \in Token
    BY <1>1, <1>5, <2>1 DEF GraceInv, GraceWindowHonoured
  <2>3. t # None => tokenOf[q] # t
    BY <1>3, <2>1
  <2> QED
    BY <1>1, <1>2, <2>2, <2>3
<1>7. ASSUME NEW a \in players', NEW b \in players', Live(a)', Live(b)',
             tokenOf'[a] = tokenOf'[b], tokenOf'[a] # None
      PROVE  a = b
  <2>1. CASE a # p /\ b # p
    <3>1. /\ a \in players /\ b \in players /\ Live(a) /\ Live(b)
          /\ tokenOf[a] = tokenOf[b] /\ tokenOf[a] # None
      BY <1>1, <1>2, <1>4, <1>5, <1>7, <2>1
    <3> QED
      BY <3>1 DEF GraceInv, OneLivePlayerPerToken
  <2>2. CASE a = p /\ b # p
    BY <1>1, <1>2, <1>3, <1>4, <1>5, <1>7, <2>2
  <2>3. CASE a # p /\ b = p
    BY <1>1, <1>2, <1>3, <1>4, <1>5, <1>7, <2>3
  <2> QED
    BY <2>1, <2>2, <2>3
<1>8. GraceWindowHonoured'
  BY <1>6 DEF GraceWindowHonoured
<1>9. OneLivePlayerPerToken'
  BY <1>7 DEF OneLivePlayerPerToken
<1> QED
  BY <1>8, <1>9 DEF GraceInv

LEMMA DisconnectKeepsGrace ==
  ASSUME IdentityInv, GraceInv, NEW s \in Session, Disconnect(s)
  PROVE  GraceInv'
<1>1. /\ players \subseteq Player /\ timers \subseteq players
      /\ tokenOf \in [Player -> Token \cup {None}]
      /\ pending \in [Token -> Player \cup {None}]
      /\ \A q \in timers : tokenOf[q] \in Token
  BY DEF IdentityInv, IdentityTypes, PendingSound
<1>2. CASE UNCHANGED identityVars /\ \A q \in Player : Bound(q)' <=> Bound(q)
  BY <1>1, <1>2
     DEF GraceInv, GraceWindowHonoured, OneLivePlayerPerToken, Live, identityVars
<1>3. ASSUME NEW p \in players, Bound(p),
             \A q \in Player \ {p} : Bound(q)' <=> Bound(q),
             tokenOf[p] # None, timers' = timers \cup {p},
             pending' = [pending EXCEPT ![tokenOf[p]] = p],
             UNCHANGED <<players, tokenOf>>
      PROVE  GraceInv'
  <2>1. \A q \in players : Live(q)' => Live(q)
    BY <1>1, <1>3 DEF Live
  <2>2. OneLivePlayerPerToken'
    BY <1>3, <2>1 DEF GraceInv, OneLivePlayerPerToken
  <2>3. ASSUME NEW q \in timers'
        PROVE  pending'[tokenOf'[q]] = q
    <3>1. CASE q = p
      BY <1>1, <1>3, <3>1
    <3>2. CASE q # p
      <4>1. q \in timers /\ q \in players /\ Live(q) /\ Live(p)
        BY <1>1, <1>3, <3>2 DEF Live
      <4>2. tokenOf[q] # tokenOf[p]
        BY <1>3, <3>2, <4>1 DEF GraceInv, OneLivePlayerPerToken
      <4>3. pending[tokenOf[q]] = q /\ tokenOf[q] \in Token
        BY <1>1, <4>1 DEF GraceInv, GraceWindowHonoured
      <4> QED
        BY <1>1, <1>3, <4>2, <4>3
    <3> QED
      BY <3>1, <3>2
  <2> QED
    BY <2>2, <2>3 DEF GraceInv, GraceWindowHonoured
<1>4. ASSUME NEW p \in players,
             \A q \in Player \ {p} : Bound(q)' <=> Bound(q),
             tokenOf[p] = None, players' = players \ {p},
             tokenOf' = [tokenOf EXCEPT ![p] = None],
             UNCHANGED <<timers, pending>>
      PROVE  GraceInv'
  <2>1. \A q \in players' : q # p /\ q \in Player /\ tokenOf'[q] = tokenOf[q] /\ (Live(q)' => Live(q))
    BY <1>1, <1>4 DEF Live
  <2>2. OneLivePlayerPerToken'
    BY <1>4, <2>1 DEF GraceInv, OneLivePlayerPerToken
  <2>3. \A q \in timers' : q \in players' /\ pending[tokenOf[q]] = q
    BY <1>1, <1>4, NoneIsNoId DEF GraceInv, GraceWindowHonoured
  <2> QED
    BY <1>4, <2>1, <2>2, <2>3 DEF GraceInv, GraceWindowHonoured
<1> QED
  BY <1>2, <1>3, <1>4, DisconnectBinds

LEMMA GraceExpiresKeepsGrace ==
  ASSUME IdentityInv, GraceInv, NEW p \in Player, GraceExpires(p)
  PROVE  GraceInv'
<1>1. /\ players \subseteq Player /\ timers \subseteq players
      /\ tokenOf \in [Player -> Token \cup {None}]
      /\ pending \in [Token -> Player \cup {None}]
      /\ \A q \in timers : tokenOf[q] \in Token
  BY DEF IdentityInv, IdentityTypes, PendingSound
<1>2. /\ p \in players /\ p \in timers /\ tokenOf[p] \in Token
      /\ \A q \in Player : Bound(q)' <=> Bound(q)
      /\ timers' = timers \ {p}
      /\ players' = players \ {p}
      /\ tokenOf' = [tokenOf EXCEPT ![p] = None]
      /\ pending' = [pending EXCEPT ![tokenOf[p]] = None]
  BY GraceExpiresBinds
<1>3. \A q \in players' : q # p /\ q \in players /\ tokenOf'[q] = tokenOf[q] /\ (Live(q)' => Live(q))
  BY <1>1, <1>2 DEF Live
<1>4. OneLivePlayerPerToken'
  BY <1>3 DEF GraceInv, OneLivePlayerPerToken
<1>5. ASSUME NEW q \in timers'
      PROVE  pending'[tokenOf'[q]] = q
  <2>1. q \in timers /\ q # p /\ q \in players /\ Live(q) /\ Live(p)
    BY <1>1, <1>2 DEF Live
  <2>2. tokenOf[q] # tokenOf[p]
    BY <1>2, <2>1, NoneIsNoId DEF GraceInv, OneLivePlayerPerToken
  <2>3. pending[tokenOf[q]] = q /\ tokenOf[q] \in Token /\ tokenOf'[q] = tokenOf[q]
    BY <1>1, <1>2, <2>1 DEF GraceInv, GraceWindowHonoured
  <2> QED
    BY <1>1, <1>2, <2>2, <2>3
<1> QED
  BY <1>4, <1>5 DEF GraceInv, GraceWindowHonoured

LEMMA ShutdownKeepsGrace ==
  ASSUME IdentityInv, GraceInv, Shutdown
  PROVE  GraceInv'
<1>1. /\ timers' = timers \ {pending[t] : t \in Token}
      /\ UNCHANGED <<clientVars, players, tokenOf>>
  BY DEF Shutdown
<1>2. \A q \in timers : tokenOf[q] \in Token /\ pending[tokenOf[q]] = q
  BY DEF GraceInv, GraceWindowHonoured, IdentityInv, IdentityTypes, PendingSound
<1>3. timers' = {}
  BY <1>1, <1>2
<1>4. \A q \in players : Live(q)' => Live(q)
  BY <1>1, <1>3 DEF Live, Bound, clientVars
<1> QED
  BY <1>1, <1>3, <1>4 DEF GraceInv, GraceWindowHonoured, OneLivePlayerPerToken

LEMMA StepKeepsGrace ==
  ASSUME SharedToken = FALSE, IInv, GraceInv, [Next]_vars
  PROVE  GraceInv'
<1>1. IdentityInv /\ players \subseteq Player /\ timers \subseteq players
  BY DEF IInv, IdentityInv, IdentityTypes, PendingSound
<1>2. ASSUME UNCHANGED identityVars, \A q \in Player : Bound(q)' <=> Bound(q)
      PROVE  GraceInv'
  BY <1>1, <1>2
     DEF GraceInv, GraceWindowHonoured, OneLivePlayerPerToken, Live, identityVars
<1>3. ASSUME NEW s \in Session, Connect(s)
      PROVE  GraceInv'
  BY <1>1, <1>2, <1>3, ConnectBinds
<1>4. CASE UNCHANGED <<clientVars, identityVars>>
  BY <1>2, <1>4, UnchangedBinds
<1> QED
  BY <1>1, <1>3, <1>4, AuthKeepsGrace, DisconnectKeepsGrace, GraceExpiresKeepsGrace,
     ShutdownKeepsGrace, StepKinds

\* If no client uses the token of a live session, every running grace window
\* can be used: the token of a player whose timer runs restores that player.
THEOREM GraceHonouredIfTokensAreOwn ==
  ASSUME SharedToken = FALSE
  PROVE  Spec => []GraceWindowHonoured
<1>1. Init => GraceInv
  BY DEF Init, GraceInv, GraceWindowHonoured, OneLivePlayerPerToken
<1>2. IInv /\ GraceInv /\ [Next]_vars => GraceInv'
  BY StepKeepsGrace
<1>3. GraceInv => GraceWindowHonoured
  BY DEF GraceInv
<1> QED
  BY <1>1, <1>2, <1>3, Invariance, PTL DEF Spec
================================================================================
