------------------------- MODULE SocketGroupProofs -------------------------
(***************************************************************************)
(* Proofs about SocketGroup, for every number of sockets and groups and    *)
(* every limit.                                                            *)
(***************************************************************************)
EXTENDS SocketGroup, SequenceTheorems, FiniteSetTheorems, WellFoundedInduction, TLAPS

\* What the group under way has moved and nobody has charged yet.
Uncharged == IF frame.pc = "process" THEN frame.given - frame.left ELSE 0

\* A processLimited may move no more than the allowances that it will be charged to.
FrameIsCovered ==
    /\ frame.pc # "none" => at < Done
    /\ at < Done => num_ready > 0
    /\ cap => num_ready > 0
    /\ frame.pc = "unlimited" => ~cap /\ Group \notin Limited /\ frame.itr > 0
    /\ frame.left <= frame.given
    /\ frame.pc = "process" => /\ frame.slot > 0
                               /\ cap => frame.given <= allowance
                               /\ Group \in Limited => frame.given <= group_allowance[Group]

HistoryOK ==
    /\ budget \in Nat /\ moved \in Nat
    /\ group_budget \in [Range(Groups) -> Nat] /\ group_moved \in [Range(Groups) -> Nat]

\* The allowance is what is left of the one this update began with.
CapCounted == cap => allowance + moved = budget + Uncharged

GroupsCounted ==
    \A g \in Limited :
        IF num_ready > 0
        THEN group_allowance[g] + group_moved[g]
                = group_budget[g] + (IF frame.pc # "none" /\ Group = g THEN Uncharged ELSE 0)
        ELSE group_moved[g] = 0

IInv ==
    /\ TypeOK
    /\ HistoryOK
    /\ FrameIsCovered
    /\ CapCounted
    /\ GroupsCounted

-----------------------------------------------------------------------------
(* Lists *)

\* The sockets, and the lists that groups keep of them.
Socket == Range(Sockets)
Lists == [Range(Groups) -> Seq(Socket)]

\* f adds the ready sockets up to each place of the monitor's list to their groups.
Fills(f) == f = [n \in 0..Len(Sockets) |->
                    IF n = 0 THEN NoSockets
                    ELSE IF Ready(Sockets[n])
                    THEN [f[n - 1] EXCEPT ![GroupOf[Sockets[n]]] = Append(@, Sockets[n])]
                    ELSE f[n - 1]]

LEMMA ListsOfSockets ==
    /\ Len(Sockets) \in Nat /\ NoSockets \in Lists
    /\ \A n \in 1..Len(Sockets) : Sockets[n] \in Socket
    /\ \A s \in Socket : GroupOf[s] \in Range(Groups)
<1>1. Sockets \in Seq(DOMAIN GroupOf)
  BY GroupsAssumption
<1>2. \A n \in 1..Len(Sockets) : Sockets[n] \in Socket
  BY <1>1 DEF Socket, Range
<1>3. \A s \in Socket : s \in DOMAIN GroupOf
  BY <1>1 DEF Socket, Range
<1>4. \A s \in Socket : GroupOf[s] \in Range(Groups)
  BY <1>3, GroupsAssumption
<1>5. NoSockets \in Lists
  BY DEF NoSockets, Lists
<1> QED
  BY <1>1, <1>2, <1>4, <1>5

\* One socket more.
LEMMA OneMore ==
    ASSUME NEW l \in Lists, NEW s \in Socket
    PROVE  [l EXCEPT ![GroupOf[s]] = Append(@, s)] \in Lists
<1> DEFINE g == GroupOf[s]
<1>1. g \in Range(Groups)
  BY ListsOfSockets
<1>2. l[g] \in Seq(Socket)
  BY <1>1 DEF Lists
<1>3. Append(l[g], s) \in Seq(Socket)
  BY <1>2
<1> QED
  BY <1>1, <1>3 DEF Lists

\* Such an f exists,
LEMMA FillsExists == \E f : Fills(f)
<1> DEFINE Val(f, n) == IF n = 0 THEN NoSockets
                        ELSE IF Ready(Sockets[n])
                        THEN [f[n - 1] EXCEPT ![GroupOf[Sockets[n]]] = Append(@, Sockets[n])]
                        ELSE f[n - 1]
           Upto(m) == \E f : f = [n \in 0..m |-> Val(f, n)]
           Bad == {m \in 0..Len(Sockets) : ~Upto(m)}
<1>0. Len(Sockets) \in Nat
  BY ListsOfSockets
<1>1. Bad \subseteq Nat
  BY <1>0
<1>2. ASSUME Bad # {} PROVE FALSE
  <2> HIDE DEF Bad
  <2>1. PICK m \in Bad : \A y \in Bad : <<y, m>> \notin OpToRel(<, Nat)
    BY <1>1, <1>2, NatLessThanWellFounded, WFMin, Zenon
  <2>2. \A y \in Bad : ~(y < m)
    BY <1>1, <2>1, Zenon DEF OpToRel
  <2> USE <1>0 DEF Bad
  <2>3. CASE m = 0
    <3> DEFINE f == [n \in 0..0 |-> NoSockets]
    <3>1. f = [n \in 0..0 |-> Val(f, n)]
      OBVIOUS
    <3>2. Upto(0)
      <4> HIDE DEF f
      <4> QED BY <3>1, SMTT(30)
    <3> QED
      BY <2>3, <3>2
  <2>4. CASE m # 0
    <3>1. m - 1 \in 0..Len(Sockets) /\ m - 1 < m /\ m \in Nat
      BY <2>4
    <3>2. Upto(m - 1)
      <4> HIDE DEF Upto
      <4> QED BY <2>2, <3>1, SMTT(30)
    <3>3. PICK g : g = [n \in 0..(m - 1) |-> Val(g, n)]
      BY <3>2, ZenonT(60)
    <3> DEFINE f == [n \in 0..m |-> IF n = m THEN Val(g, m) ELSE g[n]]
    <3>4. \A n \in 0..(m - 1) : f[n] = g[n] /\ g[n] = Val(g, n)
      <4>1. \A n \in 0..(m - 1) : f[n] = g[n]
        BY <3>1, SMTT(30)
      <4> HIDE DEF f
      <4>2. \A n \in 0..(m - 1) : g[n] = Val(g, n)
        BY <3>3, Zenon
      <4> QED BY <4>1, <4>2
    <3>5. \A n \in 0..m : f[n] = Val(f, n)
      <4> SUFFICES ASSUME NEW n \in 0..m PROVE f[n] = Val(f, n)
        BY Zenon
      <4>1. n # 0 => n - 1 \in 0..(m - 1) /\ f[n - 1] = g[n - 1]
        <5> HIDE DEF f, Val
        <5>1. n # 0 => n - 1 \in 0..(m - 1)
          BY <3>1
        <5> QED
          BY <3>4, <5>1
      <4>2. f[n] = IF n = m THEN Val(g, m) ELSE g[n]
        OBVIOUS
      <4>3. f[n] = Val(g, n)
        <5> HIDE DEF f, Val
        <5>1. n # m => n \in 0..(m - 1)
          BY <3>1
        <5> QED
          BY <4>2, <5>1, <3>4
      <4> HIDE DEF f
      <4>4. CASE n = 0
        BY <4>3, <4>4, SMTT(30)
      <4>5. CASE n # 0
        BY <4>1, <4>3, <4>5
      <4> QED BY <4>4, <4>5, SMTT(30)
    <3>6. f = [n \in 0..m |-> f[n]]
      OBVIOUS
    <3> HIDE DEF f
    <3>7. f = [n \in 0..m |-> Val(f, n)]
      BY <3>5, <3>6, ZenonT(60)
    <3>8. Upto(m)
      BY <3>7, Zenon
    <3> QED
      BY <3>8
  <2> QED
    BY <2>3, <2>4
<1>3. Upto(Len(Sockets))
  <2>1. Len(Sockets) \in 0..Len(Sockets)
    BY <1>0
  <2>2. Bad = {}
    <3> HIDE DEF Bad
    <3> QED BY <1>2
  <2> HIDE DEF Upto
  <2> QED
    BY <2>1, <2>2
<1> QED
  BY <1>3 DEF Fills

\* and what it ends with are lists of sockets.
LEMMA ListedSound == Listed \in Lists
<1> DEFINE u == CHOOSE f : Fills(f)
           Bad == {m \in 0..Len(Sockets) : u[m] \notin Lists}
<1>1. Fills(u)
  BY FillsExists, Zenon
<1>2. Listed = u[Len(Sockets)]
  BY SMTT(30) DEF Listed, Fills
<1> HIDE DEF u
<1>3. \A n \in 0..Len(Sockets) :
        u[n] = IF n = 0 THEN NoSockets
               ELSE IF Ready(Sockets[n])
               THEN [u[n - 1] EXCEPT ![GroupOf[Sockets[n]]] = Append(@, Sockets[n])]
               ELSE u[n - 1]
  BY <1>1, Zenon DEF Fills
<1>4. ASSUME Bad # {} PROVE FALSE
  <2>0. Bad \subseteq Nat
    BY ListsOfSockets
  <2> HIDE DEF Bad
  <2>1. PICK m \in Bad : \A y \in Bad : <<y, m>> \notin OpToRel(<, Nat)
    BY <2>0, <1>4, NatLessThanWellFounded, WFMin, Zenon
  <2>2. \A y \in Bad : ~(y < m)
    BY <2>0, <2>1, Zenon DEF OpToRel
  <2> USE DEF Bad
  <2>3. m # 0
    BY <1>3, ListsOfSockets
  <2>4. m \in 1..Len(Sockets) /\ m - 1 \in 0..Len(Sockets) /\ m - 1 < m
    BY <2>3, ListsOfSockets
  <2>5. u[m - 1] \in Lists
    BY <2>2, <2>4
  <2> DEFINE l == u[m - 1]
             s == Sockets[m]
  <2>6. u[m] = [l EXCEPT ![GroupOf[s]] = Append(@, s)] \/ u[m] = l
    BY <1>3, <2>3
  <2>7. s \in Socket /\ l \in Lists
    BY <2>4, <2>5, ListsOfSockets
  <2> HIDE DEF l, s
  <2> DEFINE t == [l EXCEPT ![GroupOf[s]] = Append(@, s)]
  <2>9. t \in Lists
    BY <2>7, OneMore
  <2>10. u[m] = t \/ u[m] = l
    BY <2>6
  <2> HIDE DEF t
  <2>8. u[m] \in Lists
    BY <2>7, <2>9, <2>10
  <2> QED
    BY <2>8
<1> QED
  BY <1>2, <1>4, ListsOfSockets

\* Erasing an element from a list.
LEMMA RemoveAtSound ==
    ASSUME NEW T, NEW s \in Seq(T), NEW i \in 1..Len(s)
    PROVE  RemoveAt(s, i) \in Seq(T) /\ Len(RemoveAt(s, i)) = Len(s) - 1
<1> DEFINE l == SubSeq(s, 1, i - 1)
           r == SubSeq(s, i + 1, Len(s))
<1>1. l \in Seq(T) /\ Len(l) = i - 1
  BY SubSeqProperties
<1>2. r \in Seq(T) /\ Len(r) = Len(s) - i
  BY SubSeqProperties
<1>3. RemoveAt(s, i) = l \o r
  BY DEF RemoveAt
<1> HIDE DEF l, r
<1>4. l \o r \in Seq(T) /\ Len(l \o r) = Len(l) + Len(r)
  BY <1>1, <1>2, ConcatProperties
<1> QED
  BY <1>1, <1>2, <1>3, <1>4

-----------------------------------------------------------------------------
(* Shares *)

LEMMA ShareIsANumber ==
    ASSUME NEW a \in Nat, NEW b \in Nat \ {0}
    PROVE  CeilDiv(a, b) \in Nat
<1> DEFINE c == a + b - 1
<1>1. c \in Nat
  OBVIOUS
<1>2. c \div b \in Int /\ c \div b >= 0
  <2> HIDE DEF c
  <2> QED
    BY <1>1
<1> QED
  BY <1>2 DEF CeilDiv

\* The group at hand has a place in every table.
LEMMA GroupInRange ==
    ASSUME at \in 1..Done, at < Done
    PROVE  Group \in Range(Groups) /\ at \in 1..Len(Groups)
BY GroupsAssumption DEF Done, Group, Range

\* A group is offered some, and no more than is left.
LEMMA PortionIsThere ==
    ASSUME IInv, at < Done, cap, allowance > 0
    PROVE  Portion \in 1..allowance
<1>1. allowance \in Nat /\ allowance > 0 /\ num_ready \in Nat \ {0}
  BY DEF IInv, TypeOK, FrameIsCovered
<1>2. Len(sockets[Group]) \in Nat
  BY GroupInRange DEF IInv, TypeOK
<1>3. Len(sockets[Group]) * allowance \in Nat
  BY <1>1, <1>2
<1> DEFINE share == CeilDiv(Len(sockets[Group]) * allowance, num_ready)
<1>4. share \in Nat
  BY <1>1, <1>3, ShareIsANumber
<1>5. Portion = IF share > allowance \/ share = 0 THEN allowance ELSE share
  BY DEF Portion
<1> HIDE DEF share
<1> QED
  BY <1>1, <1>4, <1>5

\* What a group may move is covered by both allowances it is charged to.
LEMMA EnteredIsCovered ==
    ASSUME IInv, at < Done, NEW p, p \in Nat, cap => p \in 1..allowance
    PROVE  /\ Entered(p) \in Nat
           /\ cap => Entered(p) <= allowance
           /\ Group \in Limited => Entered(p) <= group_allowance[Group]
<1>1. group_allowance[Group] \in Nat /\ allowance \in Nat
  BY GroupInRange, BoundsAssumption DEF IInv, TypeOK
<1> QED
  BY <1>1 DEF Entered

-----------------------------------------------------------------------------
(* Steps *)

Frame == [pc : {"none", "process", "unlimited"}, itr : Nat, left : Nat, given : Nat, slot : Nat]

LEMMA ArriveKeeps ==
    ASSUME IInv, NEW s \in Socket, Arrive(s) \/ RemoteCloses(s)
    PROVE  IInv'
<1>1. avail' \in [Socket -> 0..MaxAvail]
  <2>1. avail \in [Socket -> 0..MaxAvail]
    BY DEF IInv, TypeOK, Socket
  <2> QED
    BY <2>1, BoundsAssumption DEF Arrive, RemoteCloses
<1>2. UNCHANGED <<up, cap, sockets, group_allowance, allowance, num_ready, num_still_ready, at,
                  frame, history>>
  BY DEF Arrive, RemoteCloses
<1>3. TypeOK'
  BY <1>1, <1>2 DEF IInv, TypeOK, Socket, Group
<1> QED
  BY <1>2, <1>3 DEF IInv, HistoryOK, FrameIsCovered, CapCounted, GroupsCounted, Uncharged, Group,
     history

LEMMA UpdateKeeps == ASSUME IInv, Update PROVE IInv'
<1>1. /\ at' = 1 /\ num_still_ready' = 0 /\ moved' = 0
      /\ budget' = allowance' /\ group_budget' = group_allowance'
      /\ group_moved' = [g \in Range(Groups) |-> 0]
      /\ UNCHANGED <<up, frame, avail>>
      /\ cap' \in BOOLEAN
  BY DEF Update, kernel
<1>2. sockets' \in [Range(Groups) -> Seq(Range(Sockets))]
  BY ListedSound DEF Update, Lists, Socket
<1>3. allowance' \in 0..MaxAllowance
  BY BoundsAssumption DEF Update
<1>4. group_allowance' \in [Range(Groups) -> 0..MaxAllowance]
  BY BoundsAssumption DEF Update
<1>5. num_ready' \in Nat /\ num_ready' > 0
  <2> DEFINE R == {s \in Range(Sockets) : Ready(s)}
  <2>1. IsFiniteSet(Range(Sockets))
    <3>1. DOMAIN Sockets = 1..Len(Sockets)
      BY GroupsAssumption
    <3>2. IsFiniteSet(1..Len(Sockets))
      BY ListsOfSockets, FS_Interval
    <3>3. Sockets \in [DOMAIN Sockets -> Range(Sockets)]
      BY GroupsAssumption DEF Range
    <3>4. Sockets \in Surjection(1..Len(Sockets), Range(Sockets))
      BY <3>1, <3>3 DEF Surjection, Range
    <3> QED
      BY <3>2, <3>4, FS_Surjection, Zenon
  <2>2. IsFiniteSet(R) /\ R # {}
    BY <2>1, FS_Subset DEF Update
  <2>3. num_ready' = Cardinality(R)
    BY DEF Update
  <2> HIDE DEF R
  <2>4. Cardinality(R) \in Nat /\ Cardinality(R) # 0
    BY <2>2, FS_CardinalityType, FS_EmptySet
  <2> QED
    BY <2>3, <2>4
<1>6. frame.pc = "none"
  BY DEF Update, IInv, FrameIsCovered, TypeOK, Done
<1>7. Len(Groups) \in Nat
  BY GroupsAssumption
<1>8. TypeOK'
  BY <1>1, <1>2, <1>3, <1>4, <1>5, <1>6, <1>7 DEF IInv, TypeOK, Done
<1>9. HistoryOK'
  BY <1>1, <1>3, <1>4, BoundsAssumption DEF HistoryOK
<1>10. FrameIsCovered'
  BY <1>1, <1>5, <1>6 DEF IInv, FrameIsCovered
<1>11. CapCounted'
  BY <1>1, <1>3, <1>6, BoundsAssumption DEF CapCounted, Uncharged
<1>12. GroupsCounted'
  <2> SUFFICES ASSUME NEW g \in Limited
               PROVE  group_allowance'[g] + group_moved'[g] = group_budget'[g] + 0
    BY <1>1, <1>5, <1>6 DEF GroupsCounted
  <2>1. g \in Range(Groups)
    BY GroupsAssumption
  <2> QED
    BY <1>1, <1>4, <2>1, BoundsAssumption
<1> QED
  BY <1>8, <1>9, <1>10, <1>11, <1>12 DEF IInv

LEMMA EnterGroupKeeps == ASSUME IInv, EnterGroup PROVE IInv'
<1> DEFINE portion == IF cap THEN Portion ELSE 0
           given == Entered(portion)
           slot == given \div Len(sockets[Group]) + 1
<1>1. /\ frame.pc = "none" /\ at < Done /\ (cap => allowance > 0) /\ sockets[Group] # <<>>
      /\ frame' = (IF ~cap /\ Group \notin Limited
                   THEN [NoFrame EXCEPT !.pc = "unlimited", !.itr = 1]
                   ELSE Begin(given, slot))
      /\ UNCHANGED <<up, cap, sockets, group_allowance, allowance, num_ready, num_still_ready, at,
                     kernel, history>>
  BY DEF EnterGroup
<1>2. Group \in Range(Groups) /\ sockets[Group] \in Seq(Range(Sockets))
  BY <1>1, GroupInRange DEF IInv, TypeOK
<1>3. portion \in Nat /\ (cap => portion \in 1..allowance)
  <2>1. CASE cap
    <3>1. Portion \in 1..allowance
      BY <1>1, <2>1, PortionIsThere
    <3> HIDE DEF portion
    <3>2. portion = Portion
      BY <2>1 DEF portion
    <3> QED
      BY <3>1, <3>2
  <2>2. CASE ~cap
    BY <2>2
  <2> QED
    BY <2>1, <2>2
<1> HIDE DEF portion
<1>4. /\ given \in Nat
      /\ cap => given <= allowance
      /\ Group \in Limited => given <= group_allowance[Group]
  BY <1>1, <1>3, EnteredIsCovered
<1> HIDE DEF given
<1>5. slot \in Nat /\ slot > 0
  <2> DEFINE l == Len(sockets[Group])
  <2>1. l \in Nat \ {0}
    BY <1>1, <1>2, EmptySeq
  <2> HIDE DEF l
  <2>2. given \div l \in Int /\ given \div l >= 0
    BY <1>4, <2>1
  <2>3. given \div l + 1 \in Nat /\ given \div l + 1 > 0
    BY <2>2
  <2> QED
    BY <2>3 DEF l
<1> HIDE DEF slot
<1>6. 1 \in DOMAIN sockets[Group]
  BY <1>1, <1>2, EmptySeq
<1>7. \/ /\ frame' = [pc |-> "unlimited", itr |-> 1, left |-> 0, given |-> 0, slot |-> 0]
         /\ ~cap /\ Group \notin Limited
      \/ frame' = [pc |-> "process", itr |-> 1, left |-> given, given |-> given, slot |-> slot]
  BY <1>1 DEF NoFrame, Begin
<1>8. TypeOK'
  <2>1. frame' \in Frame
    BY <1>4, <1>5, <1>7 DEF Frame
  <2>2. frame'.itr = 1
    BY <1>7
  <2> QED
    BY <1>1, <1>6, <2>1, <2>2 DEF IInv, TypeOK, Frame, kernel, Group
<1>9. FrameIsCovered'
  <2>1. Group' = Group
    BY <1>1 DEF Group
  <2>2. frame'.left <= frame'.given
    BY <1>4, <1>7
  <2>3. frame'.pc = "unlimited" => ~cap /\ Group \notin Limited /\ frame'.itr > 0
    BY <1>7
  <2>4. frame'.pc = "process" => frame'.slot = slot /\ frame'.given = given
    BY <1>7
  <2> QED
    BY <1>1, <1>4, <1>5, <2>1, <2>2, <2>3, <2>4 DEF IInv, FrameIsCovered
<1>10. Uncharged = 0 /\ Uncharged' = 0
  BY <1>1, <1>4, <1>7 DEF Uncharged
<1>11. CapCounted' /\ HistoryOK'
  BY <1>1, <1>10 DEF IInv, CapCounted, HistoryOK, history
<1>12. GroupsCounted'
  BY <1>1, <1>10 DEF IInv, GroupsCounted, history
<1> QED
  BY <1>8, <1>9, <1>11, <1>12 DEF IInv

\* Steps between the groups: no frame is open and only the place in the list changes.
LEMMA BetweenGroupsKeeps == ASSUME IInv, SkipGroup \/ NextPass PROVE IInv'
<1>1. /\ frame.pc = "none"
      /\ UNCHANGED <<up, cap, sockets, group_allowance, allowance, frame, kernel, history>>
      /\ num_ready' \in Nat /\ num_still_ready' \in Nat /\ num_ready > 0 /\ num_ready' > 0
      /\ at' \in 1..Done
  <2>1. CASE SkipGroup
    <3>1. at \in 1..Done /\ at < Done /\ at' = at + 1 /\ Done \in Nat
      BY <2>1, GroupsAssumption DEF SkipGroup, IInv, TypeOK, Done
    <3>2. at' \in 1..Done
      BY <3>1
    <3> QED
      BY <2>1, <3>1, <3>2 DEF SkipGroup, IInv, TypeOK, FrameIsCovered
  <2>2. CASE NextPass
    <3>1. Done \in Nat /\ Done >= 1
      BY GroupsAssumption DEF Done
    <3> QED
      BY <2>2, <3>1 DEF NextPass, PassDone, IInv, TypeOK
  <2> QED
    BY <2>1, <2>2
<1>2. TypeOK'
  BY <1>1 DEF IInv, TypeOK, kernel
<1>3. FrameIsCovered'
  BY <1>1 DEF IInv, FrameIsCovered
<1>4. HistoryOK' /\ CapCounted'
  BY <1>1 DEF IInv, HistoryOK, CapCounted, Uncharged, history
<1>5. GroupsCounted'
  BY <1>1 DEF IInv, GroupsCounted, Uncharged, history
<1> QED
  BY <1>2, <1>3, <1>4, <1>5 DEF IInv

LEMMA ReturnKeeps == ASSUME IInv, Return PROVE IInv'
<1>1. /\ frame.pc = "none" /\ frame' = frame
      /\ sockets' = NoSockets /\ num_ready' = 0 /\ num_still_ready' = 0 /\ at' = Done
      /\ cap' = FALSE /\ allowance' = 0 /\ budget' = 0 /\ moved' = 0
      /\ group_budget' = [g \in Range(Groups) |-> 0]
      /\ group_moved' = [g \in Range(Groups) |-> 0]
      /\ UNCHANGED <<up, group_allowance, avail>>
  BY DEF Return, PassDone, kernel
<1>2. sockets' \in [Range(Groups) -> Seq(Range(Sockets))]
  BY <1>1, ListsOfSockets DEF Lists, Socket
<1>3. Done \in Nat /\ Done >= 1
  BY GroupsAssumption DEF Done
<1>4. 0 \in 0..MaxAllowance /\ cap' \in BOOLEAN
  <2>1. 0 \in 0..MaxAllowance
    BY BoundsAssumption
  <2>2. cap' \in BOOLEAN
    BY <1>1
  <2> QED
    BY <2>1, <2>2
<1>5. TypeOK'
  BY <1>1, <1>2, <1>3, <1>4 DEF IInv, TypeOK
<1>6. HistoryOK' /\ CapCounted'
  BY <1>1 DEF HistoryOK, CapCounted
<1>7. FrameIsCovered'
  BY <1>1, <1>3 DEF IInv, FrameIsCovered
<1>8. GroupsCounted'
  BY <1>1, GroupsAssumption DEF GroupsCounted
<1> QED
  BY <1>5, <1>6, <1>7, <1>8 DEF IInv

\* m bytes are moved for the group at hand.
LEMMA TransferKeeps ==
    ASSUME IInv, NEW s \in Socket, NEW m \in Nat, m <= avail[s], at < Done, Transfer(s, m)
    PROVE  /\ avail' \in [Socket -> 0..MaxAvail]
           /\ HistoryOK'
           /\ moved' = moved + m /\ UNCHANGED <<budget, group_budget>>
           /\ group_moved'[Group] = group_moved[Group] + m
           /\ \A g \in Range(Groups) \ {Group} : group_moved'[g] = group_moved[g]
<1>1. avail \in [Socket -> 0..MaxAvail] /\ avail[s] \in 0..MaxAvail
  BY DEF IInv, TypeOK, Socket
<1>2. avail[s] - m \in 0..MaxAvail
  BY <1>1, BoundsAssumption
<1>3. avail' = [avail EXCEPT ![s] = avail[s] - m]
  BY DEF Transfer
<1>4. avail' \in [Socket -> 0..MaxAvail]
  BY <1>1, <1>2, <1>3
<1>5. Group \in Range(Groups)
  BY GroupInRange DEF IInv, TypeOK
<1>6. group_moved \in [Range(Groups) -> Nat] /\ moved \in Nat
  BY DEF IInv, HistoryOK
<1>7. group_moved' \in [Range(Groups) -> Nat] /\ moved' \in Nat
  BY <1>5, <1>6 DEF Transfer
<1> QED
  BY <1>4, <1>5, <1>6, <1>7 DEF Transfer, IInv, HistoryOK

\* A limited call moves no more than is there and no more than it may.
LEMMA MovesAreBounded ==
    ASSUME NEW s, NEW max \in Nat \ {0}, avail[s] \in Nat, NEW m \in Moves(s, max)
    PROVE  m \in Nat /\ m <= avail[s] /\ m <= max
<1> DEFINE a == avail[s]
           most == Least(a, max)
<1>1. m \in 0..most \/ m = most
  BY DEF Moves
<1>2. a \in Nat
  OBVIOUS
<1> HIDE DEF a
<1>3. most \in Nat /\ most <= a /\ most <= max
  BY <1>2 DEF Least
<1> HIDE DEF most
<1>4. m \in Nat /\ m <= a /\ m <= max
  BY <1>1, <1>2, <1>3
<1> QED
  BY <1>4 DEF a

LEMMA LeftOver ==
    ASSUME NEW left \in Nat, NEW given \in Nat, NEW want \in Nat, NEW n \in Nat,
           n <= want, want <= left, left <= given
    PROVE  left - n \in Nat /\ left - n <= given
OBVIOUS

LEMMA processUnlimitedKeeps == ASSUME IInv, processUnlimited PROVE IInv'
<1> DEFINE s == sockets[Group][frame.itr]
<1>1. /\ frame.pc = "unlimited" /\ frame.itr <= Len(sockets[Group])
      /\ frame' = [frame EXCEPT !.itr = @ + 1]
      /\ UNCHANGED <<up, cap, sockets, group_allowance, allowance, num_ready, num_still_ready, at>>
  BY DEF processUnlimited
<1>2. PICK m \in Moves(s, 0) : Transfer(s, m)
  BY DEF processUnlimited
<1>3. at < Done /\ ~cap /\ Group \notin Limited
  BY <1>1 DEF IInv, FrameIsCovered
<1>4. /\ frame.itr \in Nat /\ frame.itr > 0 /\ frame \in Frame
      /\ Group \in Range(Groups) /\ sockets[Group] \in Seq(Socket)
  BY <1>1, <1>3, GroupInRange DEF IInv, TypeOK, FrameIsCovered, Frame, Socket
<1>5. s \in Socket
  BY <1>1, <1>4
<1> HIDE DEF s
<1>6. avail[s] \in Nat
  BY <1>5, BoundsAssumption DEF IInv, TypeOK, Socket
<1>7. m \in Nat /\ m <= avail[s]
  BY <1>2, <1>6 DEF Moves
<1>8. /\ avail' \in [Socket -> 0..MaxAvail]
      /\ HistoryOK'
      /\ UNCHANGED group_budget
      /\ \A g \in Range(Groups) \ {Group} : group_moved'[g] = group_moved[g]
  BY <1>2, <1>3, <1>5, <1>7, TransferKeeps
<1>9. /\ frame' \in Frame /\ frame'.pc = "unlimited" /\ frame'.itr > 0
  BY <1>1, <1>4 DEF Frame
<1>10. TypeOK'
  BY <1>1, <1>8, <1>9 DEF IInv, TypeOK, Frame, Socket, Transfer
<1>11. FrameIsCovered'
  BY <1>1, <1>9 DEF IInv, FrameIsCovered, Group
<1>12. CapCounted'
  BY <1>1, <1>3 DEF CapCounted
<1>13. GroupsCounted'
  <2>1. \A g \in Limited : g \in Range(Groups) /\ g # Group
    BY <1>3, GroupsAssumption
  <2>2. Group' = Group /\ Uncharged = 0 /\ Uncharged' = 0
    BY <1>1, <1>9 DEF Group, Uncharged
  <2> QED
    BY <1>1, <1>8, <2>1, <2>2 DEF IInv, GroupsCounted
<1> QED
  BY <1>8, <1>10, <1>11, <1>12, <1>13 DEF IInv

LEMMA processLimitedKeeps == ASSUME IInv, processLimited PROVE IInv'
<1> DEFINE l == sockets[Group]
           s == l[frame.itr]
           want == Least(frame.slot, frame.left)
<1>1. /\ frame.pc = "process" /\ frame.left > 0 /\ l # <<>>
      /\ UNCHANGED <<up, cap, group_allowance, allowance, num_ready, num_still_ready, at>>
  BY DEF processLimited
<1>2. PICK m \in Moves(s, want) :
        LET list == IF m = want THEN l ELSE RemoveAt(l, frame.itr)
            itr == IF m = want THEN frame.itr + 1 ELSE frame.itr
        IN /\ Transfer(s, m)
           /\ sockets' = [sockets EXCEPT ![Group] = list]
           /\ frame' = [frame EXCEPT !.itr = Wrapped(itr, list), !.left = @ - m]
  BY Zenon DEF processLimited
<1>3. /\ at < Done /\ at \in 1..Done
      /\ frame \in Frame /\ frame.slot > 0 /\ frame.left <= frame.given
      /\ sockets \in [Range(Groups) -> Seq(Socket)]
  BY <1>1 DEF IInv, TypeOK, FrameIsCovered, Frame, Socket
<1>4. Group \in Range(Groups) /\ Group' = Group
  BY <1>1, <1>3, GroupInRange DEF Group
<1>5. l \in Seq(Socket) /\ frame.itr \in 1..Len(l) /\ Len(l) \in Nat
  BY <1>1, <1>3, <1>4 DEF IInv, TypeOK
<1>6. s \in Socket
  BY <1>5
<1>7. /\ frame.left \in Nat /\ frame.slot \in Nat /\ frame.given \in Nat /\ frame.itr \in Nat
  BY <1>3 DEF Frame
<1>8. want \in Nat /\ want > 0 /\ want <= frame.left
  BY <1>1, <1>3, <1>7 DEF Least
<1> DEFINE list == IF m = want THEN l ELSE RemoveAt(l, frame.itr)
           next == IF m = want THEN frame.itr + 1 ELSE frame.itr
           itr == Wrapped(next, list)
<1>9. /\ Transfer(s, m)
      /\ sockets' = [sockets EXCEPT ![Group] = list]
      /\ frame' = [frame EXCEPT !.itr = itr, !.left = frame.left - m]
  BY <1>2
<1>10. list \in Seq(Socket) /\ (list # <<>> => itr \in 1..Len(list)) /\ itr \in Nat
  <2>1. RemoveAt(l, frame.itr) \in Seq(Socket) /\ Len(RemoveAt(l, frame.itr)) = Len(l) - 1
    BY <1>5, RemoveAtSound
  <2>2. list \in Seq(Socket) /\ Len(list) \in Nat /\ (list # <<>> => Len(list) > 0)
    <3>1. list \in Seq(Socket)
      BY <1>5, <2>1
    <3> HIDE DEF list
    <3> QED
      BY <3>1, EmptySeq
  <2>3. itr \in Nat /\ (Len(list) > 0 => itr \in 1..Len(list))
    <3>1. next \in Nat /\ next >= 1
      BY <1>5, <1>7
    <3> HIDE DEF next, list
    <3> QED
      BY <2>2, <3>1 DEF Wrapped
  <2> HIDE DEF list, itr
  <2> QED
    BY <2>2, <2>3
<1>24. m \in Moves(s, want)
  BY <1>2
<1> HIDE DEF list, next, itr, s, want
<1>11. avail[s] \in Nat
  BY <1>6, BoundsAssumption DEF IInv, TypeOK, Socket
<1>12. m \in Nat /\ m <= avail[s] /\ m <= want
  <2>1. want \in Nat \ {0}
    BY <1>8
  <2> QED
    BY <2>1, <1>11, <1>24, MovesAreBounded, Zenon
<1>13. /\ avail' \in [Socket -> 0..MaxAvail]
       /\ HistoryOK'
       /\ moved' = moved + m /\ UNCHANGED <<budget, group_budget>>
       /\ group_moved'[Group] = group_moved[Group] + m
       /\ \A g \in Range(Groups) \ {Group} : group_moved'[g] = group_moved[g]
  BY <1>3, <1>6, <1>9, <1>12, TransferKeeps
<1>14. frame' = [pc |-> "process", itr |-> itr, left |-> frame.left - m, given |-> frame.given,
                 slot |-> frame.slot]
  BY <1>1, <1>3, <1>9 DEF Frame
<1>15. frame.left - m \in Nat /\ frame.left - m <= frame.given
  <2> DEFINE left == frame.left
             given == frame.given
  <2>1. left \in Nat /\ given \in Nat /\ left <= given /\ want <= left
    BY <1>3, <1>7, <1>8
  <2> HIDE DEF left, given
  <2>2. want \in Nat /\ m \in Nat /\ m <= want
    BY <1>8, <1>12
  <2>3. left - m \in Nat /\ left - m <= given
    BY <2>1, <2>2, LeftOver, Zenon
  <2> QED
    BY <2>3 DEF left, given
<1>16. frame' \in Frame
  BY <1>7, <1>10, <1>14, <1>15 DEF Frame
<1>17. sockets' \in [Range(Groups) -> Seq(Socket)] /\ sockets'[Group] = list
  BY <1>3, <1>4, <1>9, <1>10
<1>18. TypeOK'
  <2>1. sockets'[Group'] # <<>> => frame'.itr \in DOMAIN sockets'[Group']
    BY <1>4, <1>10, <1>14, <1>17
  <2> QED
    BY <1>1, <1>13, <1>16, <1>17, <2>1 DEF IInv, TypeOK, Frame, Socket, Transfer
<1>19. FrameIsCovered'
  BY <1>1, <1>3, <1>4, <1>14, <1>15 DEF IInv, FrameIsCovered
<1>20. Uncharged = frame.given - frame.left /\ Uncharged' = frame.given - (frame.left - m)
  BY <1>1, <1>14 DEF Uncharged
<1>21. Uncharged \in Int /\ Uncharged' = Uncharged + m
  BY <1>7, <1>12, <1>20
<1>22. CapCounted'
  <2>1. allowance \in Nat /\ moved \in Nat /\ budget \in Nat
    BY BoundsAssumption DEF IInv, TypeOK, HistoryOK
  <2> QED
    BY <1>1, <1>12, <1>13, <1>21, <2>1, SMTT(30) DEF IInv, CapCounted
<1>23. GroupsCounted'
  <2> SUFFICES ASSUME NEW g \in Limited
               PROVE  group_allowance[g] + group_moved'[g]
                         = group_budget[g] + (IF Group = g THEN Uncharged' ELSE 0)
    <3>1. num_ready' > 0 /\ frame'.pc # "none"
      BY <1>1, <1>3, <1>14 DEF IInv, FrameIsCovered
    <3> QED
      BY <1>1, <1>4, <1>13, <3>1 DEF GroupsCounted
  <2>1. g \in Range(Groups)
    BY GroupsAssumption
  <2>2. group_allowance[g] \in Nat /\ group_moved[g] \in Nat /\ group_budget[g] \in Nat
    BY <2>1, BoundsAssumption DEF IInv, TypeOK, HistoryOK
  <2>3. group_allowance[g] + group_moved[g]
          = group_budget[g] + (IF Group = g THEN Uncharged ELSE 0)
    BY <1>1, <1>3 DEF IInv, FrameIsCovered, GroupsCounted
  <2>4. CASE Group = g
    BY <1>12, <1>13, <1>21, <2>2, <2>3, <2>4
  <2>5. CASE Group # g
    BY <1>13, <2>1, <2>3, <2>5
  <2> QED
    BY <2>4, <2>5
<1> QED
  BY <1>13, <1>18, <1>19, <1>22, <1>23 DEF IInv

LEMMA LeaveGroupKeeps == ASSUME IInv, LeaveGroup PROVE IInv'
<1> DEFINE used == frame.given - frame.left
           own == IF Group \in Limited THEN group_allowance[Group] - used ELSE 0
           again == cap /\ sockets[Group] # <<>> /\ (Group \in Limited => own > 0)
<1>1. /\ FrameDone
      /\ group_allowance' = [group_allowance EXCEPT ![Group] = own]
      /\ allowance' = Charged(used)
      /\ sockets' = [sockets EXCEPT ![Group] = IF again THEN @ ELSE <<>>]
      /\ num_still_ready' = num_still_ready + (IF again THEN Len(sockets[Group]) ELSE 0)
      /\ at' = at + 1
      /\ frame' = NoFrame
      /\ UNCHANGED <<up, cap, num_ready, kernel, history>>
  BY Zenon DEF LeaveGroup
<1>2. /\ at < Done /\ at \in 1..Done /\ frame \in Frame
      /\ sockets \in [Range(Groups) -> Seq(Socket)]
      /\ group_allowance \in [Range(Groups) -> 0..MaxAllowance]
      /\ allowance \in 0..MaxAllowance /\ num_still_ready \in Nat
  BY <1>1 DEF FrameDone, IInv, TypeOK, FrameIsCovered, Frame, Socket
<1>3. Group \in Range(Groups) /\ num_ready > 0
  BY <1>2, GroupInRange DEF IInv, FrameIsCovered
<1>4. /\ used \in Nat
      /\ cap => used <= allowance
      /\ Group \in Limited => used <= group_allowance[Group]
      /\ cap \/ Group \in Limited => Uncharged = used
  <2>1. frame.given \in Nat /\ frame.left \in Nat
    BY <1>2 DEF Frame
  <2>2. CASE frame.pc = "process"
    <3>1. /\ frame.left <= frame.given
          /\ cap => frame.given <= allowance
          /\ Group \in Limited => frame.given <= group_allowance[Group]
      BY <2>2 DEF IInv, FrameIsCovered
    <3>2. allowance \in Nat /\ group_allowance[Group] \in Nat
      BY <1>2, <1>3, BoundsAssumption
    <3> QED
      BY <2>1, <2>2, <3>1, <3>2 DEF Uncharged
  <2>3. CASE frame.pc = "unlimited"
    <3>1. ~cap /\ Group \notin Limited /\ frame.left <= frame.given
      BY <2>3 DEF IInv, FrameIsCovered
    <3> QED
      BY <2>1, <3>1
  <2> QED
    BY <1>1, <2>2, <2>3 DEF FrameDone
<1> HIDE DEF used
<1>5. /\ own \in 0..MaxAllowance
      /\ Group \in Limited => own = group_allowance[Group] - used
  <2>1. group_allowance[Group] \in 0..MaxAllowance
    BY <1>2, <1>3
  <2> QED
    BY <1>4, <2>1, BoundsAssumption
<1>6. /\ allowance' \in 0..MaxAllowance
      /\ cap => allowance' = allowance - used
  BY <1>1, <1>2, <1>4, BoundsAssumption DEF Charged
<1> HIDE DEF own
<1>7. /\ group_allowance' \in [Range(Groups) -> 0..MaxAllowance]
      /\ group_allowance'[Group] = own
      /\ \A g \in Range(Groups) \ {Group} : group_allowance'[g] = group_allowance[g]
  BY <1>1, <1>2, <1>3, <1>5
<1>8. sockets' \in [Range(Groups) -> Seq(Socket)]
  BY <1>1, <1>2, <1>3
<1>9. num_still_ready' \in Nat
  BY <1>1, <1>2, <1>3
<1>10. at' \in 1..Done
  BY <1>1, <1>2, GroupsAssumption DEF Done
<1>11. NoFrame \in Frame /\ frame' \in Frame /\ frame'.pc = "none" /\ frame'.left = 0 /\ frame'.given = 0
  BY <1>1 DEF NoFrame, Frame
<1>12. TypeOK'
  BY <1>1, <1>6, <1>7, <1>8, <1>9, <1>10, <1>11 DEF IInv, TypeOK, Frame, Socket, kernel
<1>13. FrameIsCovered'
  BY <1>1, <1>3, <1>11 DEF FrameIsCovered
<1>14. HistoryOK'
  BY <1>1 DEF IInv, HistoryOK, history
<1>15. Uncharged' = 0
  BY <1>11 DEF Uncharged
<1>16. CapCounted'
  <2>1. allowance \in Nat /\ moved \in Nat /\ budget \in Nat
    BY BoundsAssumption DEF IInv, TypeOK, HistoryOK
  <2> QED
    BY <1>1, <1>4, <1>6, <1>15, <2>1 DEF IInv, CapCounted, history
<1>17. GroupsCounted'
  <2> SUFFICES ASSUME NEW g \in Limited
               PROVE  group_allowance'[g] + group_moved[g] = group_budget[g] + 0
    BY <1>1, <1>3, <1>11 DEF GroupsCounted, history
  <2>1. g \in Range(Groups)
    BY GroupsAssumption
  <2>2. group_allowance[g] \in Nat /\ group_moved[g] \in Nat /\ group_budget[g] \in Nat
    BY <2>1, BoundsAssumption DEF IInv, TypeOK, HistoryOK
  <2>3. group_allowance[g] + group_moved[g]
          = group_budget[g] + (IF Group = g THEN Uncharged ELSE 0)
    BY <1>1, <1>3 DEF IInv, FrameDone, GroupsCounted
  <2>4. CASE Group = g
    BY <1>4, <1>5, <1>7, <2>2, <2>3, <2>4
  <2>5. CASE Group # g
    BY <1>7, <2>1, <2>2, <2>3, <2>5
  <2> QED
    BY <2>4, <2>5
<1> QED
  BY <1>12, <1>13, <1>14, <1>16, <1>17 DEF IInv

-----------------------------------------------------------------------------
(* Theorems *)

LEMMA InitHolds == Init => IInv
<1> SUFFICES ASSUME Init PROVE IInv
  OBVIOUS
<1>1. Done \in Nat /\ Done >= 1
  BY GroupsAssumption DEF Done
<1>2. NoFrame \in Frame /\ frame = NoFrame
  BY DEF Init, NoFrame, Frame
<1>3. frame.pc = "none" /\ frame.left = 0 /\ frame.given = 0
  BY <1>2 DEF NoFrame
<1>4. sockets \in [Range(Groups) -> Seq(Range(Sockets))]
  BY ListsOfSockets DEF Init, Lists, Socket
<1>5. cap = FALSE /\ up \in BOOLEAN /\ cap \in BOOLEAN
  BY DEF Init
<1>6. TypeOK
  <2>1. /\ group_allowance \in [Range(Groups) -> 0..MaxAllowance]
        /\ avail \in [Range(Sockets) -> 0..MaxAvail]
        /\ allowance \in 0..MaxAllowance
    BY BoundsAssumption DEF Init
  <2>2. at \in 1..Done
    BY <1>1 DEF Init
  <2> QED
    BY <1>2, <1>3, <1>4, <1>5, <2>1, <2>2 DEF Init, TypeOK, Frame
<1>7. HistoryOK
  BY DEF Init, HistoryOK
<1>8. FrameIsCovered
  BY <1>1, <1>3, <1>5 DEF Init, FrameIsCovered
<1>9. CapCounted
  BY <1>5 DEF CapCounted
<1>10. GroupsCounted
  BY GroupsAssumption DEF Init, GroupsCounted
<1> QED
  BY <1>6, <1>7, <1>8, <1>9, <1>10 DEF IInv

LEMMA NextKeeps == IInv /\ [Next]_vars => IInv'
<1> SUFFICES ASSUME IInv, [Next]_vars PROVE IInv'
  OBVIOUS
<1>1. ASSUME NEW s \in Range(Sockets), Arrive(s) \/ RemoteCloses(s) PROVE IInv'
  BY <1>1, ArriveKeeps DEF Socket
<1>2. CASE Update
  BY <1>2, UpdateKeeps
<1>3. CASE doGroups
  BY <1>3, EnterGroupKeeps, BetweenGroupsKeeps, processLimitedKeeps, processUnlimitedKeeps,
     LeaveGroupKeeps, ReturnKeeps DEF doGroups
<1>4. CASE UNCHANGED vars
  <2>1. TypeOK'
    BY <1>4 DEF vars, IInv, TypeOK, kernel, Group
  <2>2. HistoryOK' /\ CapCounted'
    BY <1>4 DEF vars, IInv, HistoryOK, CapCounted, Uncharged, history
  <2>3. FrameIsCovered'
    BY <1>4 DEF vars, IInv, FrameIsCovered, Group
  <2>4. GroupsCounted'
    BY <1>4 DEF vars, IInv, GroupsCounted, Uncharged, Group, history
  <2> QED
    BY <2>1, <2>2, <2>3, <2>4 DEF IInv
<1> QED
  BY <1>1, <1>2, <1>3, <1>4 DEF Next

\* What every step of an update keeps: the bytes moved and the allowances that are
\* left add up to the ones it began with.
THEOREM Invariant == Spec => []IInv
BY InitHolds, NextKeeps, PTL DEF Spec

\* An update of a network thread moves no more than the global allowance and no more
\* for any group than its own (NetworkThread::doGroups, SocketGroup::process,
\* processLimited), for any sockets, groups and limits.
THEOREM LimitsHold == Spec => []LimitsAreKept
<1>1. IInv => LimitsAreKept
  <2> SUFFICES ASSUME IInv PROVE LimitsAreKept
    OBVIOUS
  <2>1. TypeOK
    BY DEF IInv
  <2>2. CapIsKept
    <3> SUFFICES ASSUME cap, frame.pc = "none" PROVE allowance + moved = budget
      BY DEF CapIsKept
    <3>1. allowance + moved = budget + 0 /\ budget \in Nat
      BY DEF IInv, CapCounted, Uncharged, HistoryOK
    <3> QED
      BY <3>1
  <2>3. GroupLimitIsKept
    <3> SUFFICES ASSUME NEW g \in Limited PROVE group_moved[g] <= group_budget[g]
      BY DEF GroupLimitIsKept
    <3>1. g \in Range(Groups)
      BY GroupsAssumption
    <3>2. group_allowance[g] \in Nat /\ group_moved[g] \in Nat /\ group_budget[g] \in Nat
      BY <3>1, BoundsAssumption DEF IInv, TypeOK, HistoryOK
    <3>3. CASE num_ready > 0 /\ frame.pc = "process" /\ Group = g
      <4>1. frame.given \in Nat /\ frame.left \in Nat /\ frame.given <= group_allowance[g]
        BY <3>3 DEF IInv, TypeOK, FrameIsCovered
      <4>2. group_allowance[g] + group_moved[g] = group_budget[g] + (frame.given - frame.left)
        BY <3>3 DEF IInv, GroupsCounted, Uncharged
      <4> QED
        BY <3>2, <4>1, <4>2
    <3>4. CASE num_ready > 0 /\ ~(frame.pc = "process" /\ Group = g)
      <4>1. group_allowance[g] + group_moved[g] = group_budget[g] + 0
        BY <3>4 DEF IInv, GroupsCounted, Uncharged
      <4> QED
        BY <3>2, <4>1
    <3>5. CASE ~(num_ready > 0)
      BY <3>2, <3>5 DEF IInv, GroupsCounted
    <3> QED
      BY <3>3, <3>4, <3>5
  <2> QED
    BY <2>1, <2>2, <2>3 DEF LimitsAreKept
<1> QED
  BY <1>1, Invariant, PTL
=============================================================================
