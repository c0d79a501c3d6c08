---------------------------- MODULE TurnRoomProofs ----------------------------
(***************************************************************************)
(* A turn room of any size, with any number of players, never loses the    *)
(* turn.  TypeOK and HolderIsMember are inductive together: the holder that *)
(* leaves is replaced by a member because the keys of room.players are     *)
(* distinct, so that whoever is first when it has gone is somebody else.   *)
(***************************************************************************)
EXTENDS TurnRoom, MatchQueueProofs

IInv == TypeOK /\ HolderIsMember

LEMMA InitEstablishes == Init => IInv
  BY NoneAssumption DEF Init, IInv, TypeOK, HolderIsMember, Waiting, Members

\* A member is at one of the places of the order, and the order is not empty.
LEMMA MembersHavePlaces ==
  ASSUME TypeOK, NEW p \in Members
  PROVE  Len(order) > 0 /\ Position(order, p) \in 1..Len(order)
<1>1. order \in Seq(Player) /\ p \in Waiting(order)
  BY DEF TypeOK, Members
<1> QED
  BY <1>1, PositionIsPlace DEF Waiting

LEMMA JoinKeeps ==
  ASSUME IInv, NEW p \in Player, Join(p)
  PROVE  IInv'
<1> USE DEF IInv, TypeOK, HolderIsMember, Members, Waiting
<1>1. order' \in Seq(Player) /\ current' \in Player \cup {None}
  BY DEF Join, Added
<1>2. \A i, j \in DOMAIN order' : order'[i] = order'[j] => i = j
  BY DEF Join, Added
<1>3. order' # << >> /\ Members \subseteq Members' /\ p \in Members'
  <2>1. CASE p \in Members
    BY <2>1 DEF Join, Added
  <2>2. CASE p \notin Members
    <3>1. order' = Append(order, p)
      BY <2>2 DEF Join, Added
    <3>2. /\ Len(order') = Len(order) + 1 /\ order'[Len(order) + 1] = p
          /\ \A i \in DOMAIN order : i \in DOMAIN order' /\ order'[i] = order[i]
      BY <3>1
    <3> QED
      BY <3>2
  <2> QED
    BY <2>1, <2>2
<1>4. HolderIsMember'
  BY <1>3, NoneAssumption DEF Join
<1> QED
  BY <1>1, <1>2, <1>4 DEF Join

LEMMA LeaveKeeps ==
  ASSUME IInv, NEW p \in Player, Leave(p)
  PROVE  IInv'
<1> DEFINE rest == Without(order, p)
<1>1. /\ order \in Seq(Player) /\ p \in Waiting(order) /\ current \in Waiting(order)
      /\ \A i, j \in DOMAIN order : order[i] = order[j] => i = j
      /\ order' = rest /\ active' = active /\ current' = HolderAfterLeave(p)
  BY DEF IInv, TypeOK, HolderIsMember, Members, Leave, Waiting
<1>2. rest \in Seq(Player) /\ Distinct(rest)
  BY <1>1, WithoutIsQueue, WithoutRemoves DEF Distinct
<1>3. Waiting(rest) = Waiting(order) \ {p}
  BY <1>1, WithoutRemoves DEF Distinct
<1> HIDE DEF rest
<1>4. CASE current = p
  <2>1. current' = IF rest = << >> THEN None ELSE rest[1]
    BY <1>1, <1>4 DEF HolderAfterLeave, FirstOf, rest
  <2>2. rest # << >> => rest[1] \in Player /\ rest[1] \in Waiting(rest)
    BY <1>2 DEF Waiting
  <2> QED
    BY <1>1, <1>2, <2>1, <2>2
    DEF IInv, TypeOK, HolderIsMember, Members, Distinct
<1>5. CASE current # p
  <2>1. current' = current /\ current \in Waiting(rest)
    BY <1>1, <1>3, <1>5 DEF HolderAfterLeave
  <2>2. rest # << >>
    BY <2>1 DEF Waiting
  <2> QED
    BY <1>1, <1>2, <2>1, <2>2
    DEF IInv, TypeOK, HolderIsMember, Members, Distinct
<1> QED
  BY <1>4, <1>5

LEMMA TakeTurnKeeps ==
  ASSUME IInv, NEW p \in Player, TakeTurn(p)
  PROVE  IInv'
<1>1. TypeOK /\ p \in Members /\ active' = active /\ order' = order
  BY DEF TakeTurn, IInv
<1>2. Len(order) > 0 /\ Position(order, p) \in 1..Len(order)
  BY <1>1, MembersHavePlaces
<1>3. current' \in Members /\ current' \in Player
  <2> DEFINE i == Position(order, p)
  <2>1. i \in 1..Len(order) /\ current' = IF i = Len(order) THEN order[1] ELSE order[i + 1]
    BY <1>2 DEF TakeTurn, NextOf
  <2> HIDE DEF i
  <2>2. order \in Seq(Player)
    BY <1>1 DEF TypeOK
  <2> QED
    BY <2>1, <2>2 DEF Members, Waiting
<1> QED
  BY <1>1, <1>2, <1>3 DEF IInv, TypeOK, HolderIsMember, Members

LEMMA StepKeeps == IInv /\ [Next]_vars => IInv'
<1> SUFFICES ASSUME IInv, [Next]_vars PROVE IInv'
  OBVIOUS
<1>1. CASE Next
  <2>1. ASSUME NEW p \in Player, Join(p) \/ Leave(p) \/ TakeTurn(p) PROVE IInv'
    BY <2>1, JoinKeeps, LeaveKeeps, TakeTurnKeeps
  <2>2. CASE Destroy
    <3>1. active' = FALSE /\ order' = << >> /\ current' \in Player \cup {None}
      BY <2>2 DEF Destroy
    <3>2. order' \in Seq(Player) /\ \A i \in DOMAIN order' : FALSE
      BY <3>1
    <3>3. TypeOK'
      BY <3>1, <3>2 DEF TypeOK
    <3> QED
      BY <3>1, <3>3 DEF IInv, HolderIsMember
  <2> QED
    BY <1>1, <2>1, <2>2 DEF Next
<1>2. CASE UNCHANGED vars
  BY <1>2 DEF vars, IInv, TypeOK, HolderIsMember, Members
<1> QED
  BY <1>1, <1>2

\* The state of a turn room is always what its types say, its members being
\* distinct.
THEOREM TypeCorrect == Spec => []TypeOK
<1>1. IInv => TypeOK
  BY DEF IInv
<1> QED
  BY InitEstablishes, StepKeeps, <1>1, PTL DEF Spec

\* In a turn room with members the turn is always held by one of them.
THEOREM TurnIsNeverLost == Spec => []HolderIsMember
<1>1. IInv => HolderIsMember
  BY DEF IInv
<1> QED
  BY InitEstablishes, StepKeeps, <1>1, PTL DEF Spec
===============================================================================
