------------------------- MODULE PeerManagerProofs -------------------------
(***************************************************************************)
(* Proofs about PeerManager, for every number of torrents, remote clients, *)
(* chunks, upload slots and handshakes, and for all settings.              *)
(***************************************************************************)
EXTENDS PeerManager, SequenceTheorems, FiniteSetTheorems, WellFoundedInduction, TLAPS

Alive(S) == {p \in S : ~p.killed}
Having(S, c) == {p \in S : c \in p.has}
Served(S) == {p \in S : p.unchoked}
PendingIn(s, m) == {i \in DOMAIN s : s[i].m = m}

\* The peers of a torrent: different clients, and not too many of them unchoked.
PeerSet(S) ==
    /\ S \subseteq Peers
    /\ \A p, q \in S : p.id = q.id => p = q
    /\ \A p \in S : p.id # Self
    /\ Count(Served(S)) <= Slots

\* What is counted of the chunks of the peers S.
Counted(S, cnt, available) ==
    /\ \A c \in Chunks : cnt[c] >= Count(Having(S, c))
    /\ available = {c \in Chunks : cnt[c] > 0}

\* One torrent under the settings g; only one that has been started has peers.
TorrentSound(v, m, g) ==
    /\ PeerSet(v.peers[m])
    /\ Counted(v.peers[m], v.cnt[m], v.available[m])
    /\ v.started[m] \/ v.peers[m] = {}
    /\ v.num_pending[m] = Count(PendingIn(v.auths, m))
    /\ g.max_connections > 0 =>
         Count(Alive(v.peers[m])) + Count(PendingIn(v.auths, m)) <= g.max_connections + v.extra[m]

AliveOf(v) == [m \in Managers |-> Alive(v.peers[m])]
ExtraOf(v) == [m \in Managers |-> 1..v.extra[m]]

\* All of them: handshakes are those of started torrents, and none is missed in the
\* global count.
Sound(v, g) ==
    /\ v \in States(g.max_haves)
    /\ \A m \in Managers : TorrentSound(v, m, g)
    /\ \A i \in DOMAIN v.auths : v.started[v.auths[i].m]
    /\ v.total_connections >= Count(Together(v.peers)) + Len(v.auths)
    /\ Count(Together(AliveOf(v))) + Len(v.auths)
         <= g.max_total_connections + Count(Together(ExtraOf(v)))

IncomingSet == {None, "hs"} \cup ServerStates \cup Managers

IInv ==
    /\ Sound(w, settings)
    /\ incoming \in [RemoteSet -> IncomingSet]
    /\ settings \in Worlds

-----------------------------------------------------------------------------
(* Finite sets *)

LEMMA Finite ==
    /\ IsFiniteSet(RemoteSet) /\ IsFiniteSet(Peers)
    /\ \A S \in SUBSET Peers : IsFiniteSet(S)
<1>1. IsFiniteSet(RemoteSet)
  <2>1. Remotes \in Seq(RemoteSet) /\ Len(Remotes) \in Nat /\ DOMAIN Remotes = 1..Len(Remotes)
    BY PeerManagerConstants
  <2>2. IsFiniteSet(1..Len(Remotes))
    BY <2>1, FS_Interval
  <2>3. RemoteSet = {Remotes[i] : i \in 1..Len(Remotes)}
    BY <2>1 DEF RemoteSet, Range
  <2>4. IsFiniteSet({Remotes[i] : i \in 1..Len(Remotes)})
    <3> DEFINE f == [i \in 1..Len(Remotes) |-> Remotes[i]]
    <3>1. f \in Surjection(1..Len(Remotes), {Remotes[i] : i \in 1..Len(Remotes)})
      BY DEF Surjection
    <3> HIDE DEF f
    <3> QED
      BY <2>2, <3>1, FS_Surjection
  <2> QED
    BY <2>3, <2>4
<1>2. IsFiniteSet(BOOLEAN)
  <2>1. IsFiniteSet({TRUE}) /\ IsFiniteSet({FALSE})
    BY FS_Singleton
  <2>2. BOOLEAN = {TRUE} \cup {FALSE}
    OBVIOUS
  <2> QED
    BY <2>1, <2>2, FS_Union
<1>3. IsFiniteSet(SUBSET Chunks)
  BY PeerManagerConstants, FS_SUBSET
<1>4. IsFiniteSet(Peers)
  <2> DEFINE T == (((RemoteSet \X BOOLEAN) \X BOOLEAN) \X SUBSET Chunks) \X BOOLEAN
             f == [t \in T |-> [id |-> t[1][1][1][1], out |-> t[1][1][1][2], killed |-> t[1][1][2],
                                has |-> t[1][2], unchoked |-> t[2]]]
  <2>1. IsFiniteSet(T)
    <3>1. IsFiniteSet(RemoteSet \X BOOLEAN)
      BY <1>1, <1>2, FS_Product
    <3>2. IsFiniteSet((RemoteSet \X BOOLEAN) \X BOOLEAN)
      BY <3>1, <1>2, FS_Product
    <3>3. IsFiniteSet(((RemoteSet \X BOOLEAN) \X BOOLEAN) \X SUBSET Chunks)
      BY <3>2, <1>3, FS_Product
    <3> QED
      BY <3>3, <1>2, FS_Product
  <2>2. \A t \in T : f[t] \in Peers
    BY DEF Peers
  <2>3. \A p \in Peers : \E t \in T : f[t] = p
    <3> SUFFICES ASSUME NEW p \in Peers PROVE \E t \in T : f[t] = p
      OBVIOUS
    <3> DEFINE t == <<<<<<<<p.id, p.out>>, p.killed>>, p.has>>, p.unchoked>>
    <3>1. t \in T
      BY DEF Peers
    <3>2. f[t] = [id |-> p.id, out |-> p.out, killed |-> p.killed, has |-> p.has, unchoked |-> p.unchoked]
      BY <3>1
    <3>3. p = [id |-> p.id, out |-> p.out, killed |-> p.killed, has |-> p.has, unchoked |-> p.unchoked]
      BY DEF Peers
    <3> QED
      BY <3>1, <3>2, <3>3
  <2>4. f \in Surjection(T, Peers)
    <3>1. f \in [T -> Peers]
      BY <2>2
    <3> HIDE DEF f, T
    <3> QED
      BY <3>1, <2>3 DEF Surjection
  <2> HIDE DEF f, T
  <2> QED
    BY <2>1, <2>4, FS_Surjection
<1> QED
  BY <1>1, <1>4, FS_Subset

\* The cardinality of a subset.
LEMMA Fewer ==
    ASSUME NEW T, IsFiniteSet(T), NEW S \in SUBSET T
    PROVE  IsFiniteSet(S) /\ Count(S) \in Nat /\ Count(T) \in Nat /\ Count(S) <= Count(T)
BY FS_Subset, FS_CardinalityType DEF Count

\* At most one more.
LEMMA Grown ==
    ASSUME NEW A, IsFiniteSet(A), NEW q, NEW B \in SUBSET (A \cup {q})
    PROVE  IsFiniteSet(B) /\ Count(B) \in Nat /\ Count(A) \in Nat /\ Count(B) <= Count(A) + 1
<1>1. IsFiniteSet(A \cup {q}) /\ Count(A \cup {q}) <= Count(A) + 1 /\ Count(A) \in Nat
  BY FS_AddElement, FS_CardinalityType DEF Count
<1>2. IsFiniteSet(B) /\ Count(B) \in Nat /\ Count(A \cup {q}) \in Nat /\ Count(B) <= Count(A \cup {q})
  BY <1>1, Fewer
<1> QED
  BY <1>1, <1>2

\* At least one less.
LEMMA Shrunk ==
    ASSUME NEW A, IsFiniteSet(A), NEW p \in A, NEW B \in SUBSET (A \ {p})
    PROVE  IsFiniteSet(B) /\ Count(B) \in Nat /\ Count(A) \in Nat /\ Count(B) + 1 <= Count(A)
<1>1. IsFiniteSet(A \ {p}) /\ Count(A \ {p}) = Count(A) - 1 /\ Count(A) \in Nat
  BY FS_RemoveElement, FS_CardinalityType DEF Count
<1>2. IsFiniteSet(B) /\ Count(B) \in Nat /\ Count(A \ {p}) \in Nat /\ Count(B) <= Count(A \ {p})
  BY <1>1, Fewer
<1> QED
  BY <1>1, <1>2

\* One for another.
LEMMA Swapped ==
    ASSUME NEW A, IsFiniteSet(A), NEW p \in A, NEW q, NEW B \in SUBSET ((A \ {p}) \cup {q})
    PROVE  IsFiniteSet(B) /\ Count(B) \in Nat /\ Count(A) \in Nat /\ Count(B) <= Count(A)
<1> DEFINE C == A \ {p}
<1>1. IsFiniteSet(C) /\ Count(C) + 1 <= Count(A) /\ Count(A) \in Nat /\ Count(C) \in Nat
  BY Shrunk
<1>2. B \in SUBSET (C \cup {q})
  OBVIOUS
<1> HIDE DEF C
<1>3. IsFiniteSet(B) /\ Count(B) \in Nat /\ Count(B) <= Count(C) + 1
  BY <1>1, <1>2, Grown
<1> QED
  BY <1>1, <1>3

\* The elements of disjoint sets.
LEMMA Apart ==
    ASSUME NEW A, IsFiniteSet(A), NEW B, IsFiniteSet(B), A \cap B = {}
    PROVE  /\ IsFiniteSet(A \cup B) /\ Count(A \cup B) = Count(A) + Count(B)
           /\ Count(A) \in Nat /\ Count(B) \in Nat
<1>1. Cardinality(A \cap B) = 0
  BY FS_EmptySet
<1>2. Cardinality(A) \in Nat /\ Cardinality(B) \in Nat
  BY FS_CardinalityType
<1>3. /\ IsFiniteSet(A \cup B)
      /\ Cardinality(A \cup B) = Cardinality(A) + Cardinality(B) - Cardinality(A \cap B)
  BY FS_Union
<1> QED
  BY <1>1, <1>2, <1>3 DEF Count

-----------------------------------------------------------------------------
(* All torrents together *)

LEMMA TogetherFinite ==
    ASSUME NEW f, \A m \in Managers : IsFiniteSet(f[m])
    PROVE  IsFiniteSet(Together(f)) /\ Count(Together(f)) \in Nat
<1> DEFINE Part == {{m} \X f[m] : m \in Managers}
           g == [m \in Managers |-> {m} \X f[m]]
<1>1. \A m \in Managers : IsFiniteSet({m} \X f[m])
  <2> SUFFICES ASSUME NEW m \in Managers PROVE IsFiniteSet({m} \X f[m])
    OBVIOUS
  <2>1. IsFiniteSet({m})
    BY FS_Singleton
  <2> QED
    BY <2>1, FS_Product
<1>2. g \in Surjection(Managers, Part)
  BY DEF Surjection
<1>3. \A T \in Part : IsFiniteSet(T)
  BY <1>1
<1> HIDE DEF g, Part
<1>4. IsFiniteSet(Part)
  BY <1>2, PeerManagerConstants, FS_Surjection
<1>5. IsFiniteSet(UNION Part)
  BY <1>3, <1>4, FS_UNION
<1>6. UNION Part = Together(f)
  BY DEF Part, Together
<1> QED
  BY <1>5, <1>6, FS_CardinalityType DEF Count

\* The torrents but one, and that one.
LEMMA TogetherSplit ==
    ASSUME NEW f, \A n \in Managers : IsFiniteSet(f[n]), NEW m \in Managers
    PROVE  LET rest == UNION {{n} \X f[n] : n \in Managers \ {m}}
           IN  /\ Count(rest) \in Nat /\ Count(f[m]) \in Nat
               /\ Count(Together(f)) = Count(rest) + Count(f[m])
<1> DEFINE rest == UNION {{n} \X f[n] : n \in Managers \ {m}}
           own == {m} \X f[m]
<1>1. Together(f) = rest \cup own /\ rest \cap own = {}
  BY DEF Together
<1>2. IsFiniteSet(Together(f))
  BY TogetherFinite
<1>3. IsFiniteSet({m}) /\ Cardinality({m}) = 1
  BY FS_Singleton
<1>4. IsFiniteSet(own) /\ Cardinality(own) = 1 * Cardinality(f[m])
  BY <1>3, FS_Product
<1>5. Cardinality(f[m]) \in Nat
  BY FS_CardinalityType
<1> HIDE DEF rest, own
<1>6. IsFiniteSet(rest)
  BY <1>1, <1>2, FS_Subset
<1>7. Count(rest \cup own) = Count(rest) + Count(own) /\ Count(rest) \in Nat /\ Count(own) \in Nat
  BY <1>1, <1>4, <1>6, Apart
<1>8. Count(own) = Count(f[m]) /\ Count(f[m]) \in Nat
  BY <1>4, <1>5 DEF Count
<1> QED
  BY <1>1, <1>7, <1>8 DEF rest

\* When one torrent changes, the sum changes by what that one does.
LEMMA TogetherChanged ==
    ASSUME NEW f, NEW g, NEW m \in Managers,
           \A n \in Managers : IsFiniteSet(f[n]) /\ IsFiniteSet(g[n]),
           \A n \in Managers \ {m} : g[n] = f[n]
    PROVE  /\ Count(Together(f)) \in Nat /\ Count(Together(g)) \in Nat
           /\ Count(f[m]) \in Nat /\ Count(g[m]) \in Nat
           /\ Count(Together(g)) + Count(f[m]) = Count(Together(f)) + Count(g[m])
<1> DEFINE rf == UNION {{n} \X f[n] : n \in Managers \ {m}}
           rg == UNION {{n} \X g[n] : n \in Managers \ {m}}
<1>1. rf = rg
  <2>1. \A n \in Managers \ {m} : {n} \X f[n] = {n} \X g[n]
    OBVIOUS
  <2>2. {{n} \X f[n] : n \in Managers \ {m}} = {{n} \X g[n] : n \in Managers \ {m}}
    BY <2>1, Zenon
  <2> QED
    BY <2>2
<1>2. Count(rf) \in Nat /\ Count(f[m]) \in Nat /\ Count(Together(f)) = Count(rf) + Count(f[m])
  BY TogetherSplit
<1>3. Count(rg) \in Nat /\ Count(g[m]) \in Nat /\ Count(Together(g)) = Count(rg) + Count(g[m])
  BY TogetherSplit
<1> HIDE DEF rf, rg
<1> QED
  BY <1>1, <1>2, <1>3

-----------------------------------------------------------------------------
(* The list of handshakes *)

LEMMA PendingFinite ==
    ASSUME NEW T, NEW s \in Seq(T), NEW m
    PROVE  IsFiniteSet(PendingIn(s, m)) /\ Count(PendingIn(s, m)) \in Nat
           /\ Count(PendingIn(s, m)) <= Len(s)
<1>1. IsFiniteSet(1..Len(s)) /\ Count(1..Len(s)) = Len(s)
  <2>1. Len(s) \in Nat
    OBVIOUS
  <2> QED
    BY <2>1, FS_Interval, SMTT(30) DEF Count
<1>2. PendingIn(s, m) \in SUBSET (1..Len(s))
  BY DEF PendingIn
<1> QED
  BY <1>1, <1>2, Fewer

LEMMA PendingAppended ==
    ASSUME NEW T, NEW s \in Seq(T), NEW a \in T, NEW m
    PROVE  Count(PendingIn(Append(s, a), m))
             = Count(PendingIn(s, m)) + IF a.m = m THEN 1 ELSE 0
<1> DEFINE t == Append(s, a)
           k == Len(s) + 1
<1>1. /\ t \in Seq(T) /\ Len(t) = k /\ k \in Nat /\ DOMAIN t = 1..k /\ DOMAIN s = 1..Len(s)
      /\ t[k] = a /\ \A i \in 1..Len(s) : t[i] = s[i]
  OBVIOUS
<1> HIDE DEF t
<1>2. PendingIn(t, m) = IF a.m = m THEN PendingIn(s, m) \cup {k} ELSE PendingIn(s, m)
  BY <1>1 DEF PendingIn
<1>3. k \notin PendingIn(s, m)
  BY <1>1 DEF PendingIn
<1>4. IsFiniteSet(PendingIn(s, m)) /\ Count(PendingIn(s, m)) \in Nat
  BY PendingFinite
<1> HIDE DEF k
<1>5. Count(PendingIn(s, m) \cup {k}) = Count(PendingIn(s, m)) + 1
  BY <1>3, <1>4, FS_AddElement DEF Count
<1> QED
  BY <1>2, <1>4, <1>5 DEF t

\* Erasing the i-th element of a list.
LEMMA Removed ==
    ASSUME NEW T, NEW s \in Seq(T), NEW i \in 1..Len(s)
    PROVE  /\ RemoveAt(s, i) \in Seq(T) /\ Len(RemoveAt(s, i)) = Len(s) - 1
           /\ \A j \in 1..(Len(s) - 1) : RemoveAt(s, i)[j] = s[IF j < i THEN j ELSE j + 1]
<1> DEFINE l == SubSeq(s, 1, i - 1)
           r == SubSeq(s, i + 1, Len(s))
<1>1. l \in Seq(T) /\ Len(l) = i - 1 /\ \A j \in 1..(i - 1) : l[j] = s[j]
  BY SubSeqProperties
<1>2. r \in Seq(T) /\ Len(r) = Len(s) - i /\ \A j \in 1..(Len(s) - i) : r[j] = s[i + j]
  BY SubSeqProperties
<1>3. RemoveAt(s, i) = l \o r
  BY DEF RemoveAt
<1> HIDE DEF l, r
<1>4. /\ l \o r \in Seq(T) /\ Len(l \o r) = Len(l) + Len(r)
      /\ \A j \in 1..(Len(l) + Len(r)) : (l \o r)[j] = IF j <= Len(l) THEN l[j] ELSE r[j - Len(l)]
  BY <1>1, <1>2, ConcatProperties
<1>5. Len(l) + Len(r) = Len(s) - 1
  BY <1>1, <1>2
<1>6. ASSUME NEW j \in 1..(Len(s) - 1)
      PROVE  (l \o r)[j] = s[IF j < i THEN j ELSE j + 1]
  <2>1. CASE j < i
    BY <1>1, <1>4, <1>5, <2>1
  <2>2. CASE ~(j < i)
    <3>1. j - Len(l) \in 1..(Len(s) - i) /\ i + (j - Len(l)) = j + 1
      BY <1>1, <2>2
    <3> QED
      BY <1>1, <1>2, <1>4, <1>5, <2>2, <3>1
  <2> QED
    BY <2>1, <2>2
<1> QED
  BY <1>3, <1>4, <1>5, <1>6

LEMMA PendingRemoved ==
    ASSUME NEW T, NEW s \in Seq(T), NEW i \in 1..Len(s), NEW m
    PROVE  Count(PendingIn(s, m))
             = Count(PendingIn(RemoveAt(s, i), m)) + IF s[i].m = m THEN 1 ELSE 0
<1> DEFINE t == RemoveAt(s, i)
           A == PendingIn(t, m)
           B == PendingIn(s, m) \ {i}
           f == [j \in A |-> IF j < i THEN j ELSE j + 1]
<1>1. /\ t \in Seq(T) /\ Len(t) = Len(s) - 1
      /\ \A j \in 1..(Len(s) - 1) : t[j] = s[IF j < i THEN j ELSE j + 1]
  BY Removed
<1> HIDE DEF t
<1>2. A \subseteq 1..(Len(s) - 1) /\ \A j \in A : t[j].m = m
  BY <1>1 DEF PendingIn
<1>3. \A j \in 1..(Len(s) - 1) : t[j].m = m => j \in A
  BY <1>1 DEF PendingIn
<1>4. /\ B \subseteq 1..Len(s) /\ \A j \in B : s[j].m = m /\ j # i
      /\ \A j \in 1..Len(s) : s[j].m = m /\ j # i => j \in B
  BY DEF PendingIn
<1>5. IsFiniteSet(A) /\ IsFiniteSet(PendingIn(s, m)) /\ Count(A) \in Nat /\ Count(PendingIn(s, m)) \in Nat
  BY <1>1, PendingFinite
<1>6. i \in PendingIn(s, m) <=> s[i].m = m
  BY DEF PendingIn
<1>7. IsFiniteSet(B) /\ Count(PendingIn(s, m)) = Count(B) + IF s[i].m = m THEN 1 ELSE 0
  <2> DEFINE D == PendingIn(s, m)
  <2>1. IsFiniteSet(D) /\ Count(D) \in Nat /\ (i \in D <=> s[i].m = m)
    BY <1>5, <1>6
  <2> HIDE DEF D
  <2>2. /\ IsFiniteSet(D \ {i})
        /\ Cardinality(D \ {i}) = IF i \in D THEN Cardinality(D) - 1 ELSE Cardinality(D)
    BY <2>1, FS_RemoveElement
  <2> QED
    BY <2>1, <2>2 DEF D, Count
<1> HIDE DEF A, B
<1>8. f \in Surjection(A, B)
  <2>1. \A j \in A : f[j] \in B
    BY <1>1, <1>2, <1>4
  <2>2. \A k \in B : \E j \in A : f[j] = k
    <3> SUFFICES ASSUME NEW k \in B PROVE \E j \in A : f[j] = k
      OBVIOUS
    <3>1. CASE k < i
      <4>1. k \in 1..(Len(s) - 1)
        BY <1>4, <3>1
      <4>2. t[k].m = m
        BY <1>1, <1>4, <3>1, <4>1
      <4> QED
        BY <1>3, <3>1, <4>1, <4>2
    <3>2. CASE ~(k < i)
      <4>1. k - 1 \in 1..(Len(s) - 1) /\ ~(k - 1 < i) /\ k - 1 + 1 = k
        BY <1>4, <3>2
      <4>2. t[k - 1].m = m
        BY <1>1, <1>4, <4>1
      <4> QED
        BY <1>3, <4>1, <4>2
    <3> QED
      BY <3>1, <3>2
  <2> QED
    BY <2>1, <2>2 DEF Surjection
<1>9. f \in Injection(A, B)
  <2>1. \A j, k \in A : f[j] = f[k] => j = k
    BY <1>2
  <2> QED
    BY <1>8, <2>1 DEF Injection, IsInjective, Surjection
<1> HIDE DEF f
<1>10. Count(A) = Count(B)
  BY <1>5, <1>8, <1>9, FS_Surjection DEF Count
<1> QED
  BY <1>5, <1>7, <1>10 DEF A, t

\* f goes over s as Others does.
Leaves(f, s, m) == f = [n \in 0..Len(s) |-> IF n = 0 THEN <<>>
                                            ELSE IF s[n].m = m THEN f[n - 1]
                                            ELSE Append(f[n - 1], s[n])]

LEMMA LeavesDefined ==
    ASSUME NEW s, Len(s) \in Nat, NEW m
    PROVE  \E f : Leaves(f, s, m)
<1> DEFINE Val(f, n) == IF n = 0 THEN <<>>
                        ELSE IF s[n].m = m THEN f[n - 1] ELSE Append(f[n - 1], s[n])
           Upto(k) == \E f : f = [n \in 0..k |-> Val(f, n)]
           Bad == {k \in 0..Len(s) : ~Upto(k)}
<1>1. Bad \subseteq Nat
  OBVIOUS
<1>2. ASSUME Bad # {} PROVE FALSE
  <2> HIDE DEF Bad
  <2>1. PICK k \in Bad : \A y \in Bad : <<y, k>> \notin OpToRel(<, Nat)
    BY <1>1, <1>2, NatLessThanWellFounded, WFMin, Zenon
  <2>2. \A y \in Bad : ~(y < k)
    BY <1>1, <2>1, Zenon DEF OpToRel
  <2> USE DEF Bad
  <2>3. CASE k = 0
    <3> DEFINE f == [n \in 0..0 |-> <<>>]
    <3>1. f = [n \in 0..0 |-> Val(f, n)]
      OBVIOUS
    <3>2. Upto(0)
      <4> HIDE DEF f
      <4> QED BY <3>1
    <3> QED
      BY <2>3, <3>2
  <2>4. CASE k # 0
    <3>1. k - 1 \in 0..Len(s) /\ k - 1 < k /\ k \in Nat
      BY <2>4
    <3>2. Upto(k - 1)
      <4> HIDE DEF Upto
      <4> QED BY <2>2, <3>1
    <3>3. PICK g : g = [n \in 0..(k - 1) |-> Val(g, n)]
      BY <3>2
    <3> DEFINE f == [n \in 0..k |-> IF n = k THEN Val(g, k) ELSE g[n]]
    <3>4. \A n \in 0..(k - 1) : f[n] = g[n] /\ g[n] = Val(g, n)
      <4>1. \A n \in 0..(k - 1) : f[n] = g[n]
        BY <3>1
      <4> HIDE DEF f
      <4>2. \A n \in 0..(k - 1) : g[n] = Val(g, n)
        BY <3>3
      <4> QED BY <4>1, <4>2
    <3>5. \A n \in 0..k : f[n] = Val(f, n)
      <4> SUFFICES ASSUME NEW n \in 0..k PROVE f[n] = Val(f, n)
        OBVIOUS
      <4>1. n # 0 => n - 1 \in 0..(k - 1) /\ f[n - 1] = g[n - 1]
        BY <3>1, <3>4
      <4>2. f[n] = IF n = k THEN Val(g, k) ELSE g[n]
        OBVIOUS
      <4>3. f[n] = Val(g, n)
        <5> HIDE DEF f, Val
        <5>1. n # k => n \in 0..(k - 1)
          BY <3>1
        <5> QED
          BY <4>2, <5>1, <3>4
      <4> HIDE DEF f
      <4> QED BY <4>1, <4>3
    <3>6. f = [n \in 0..k |-> f[n]]
      OBVIOUS
    <3> HIDE DEF f
    <3>7. f = [n \in 0..k |-> Val(f, n)]
      BY <3>5, <3>6
    <3>8. Upto(k)
      BY <3>7
    <3> QED
      BY <3>8
  <2> QED
    BY <2>3, <2>4
<1>3. Upto(Len(s))
  <2>1. Len(s) \in 0..Len(s)
    OBVIOUS
  <2> HIDE DEF Upto
  <2> QED
    BY <1>2, <2>1
<1> QED
  BY <1>3 DEF Leaves

\* The handshakes of the torrent are gone, and those of the others are all there.
LEMMA OthersSound ==
    ASSUME NEW T, NEW s \in Seq(T), NEW m
    PROVE  /\ Others(s, m) \in Seq(T)
           /\ Len(Others(s, m)) <= Len(s)
           /\ \A j \in 1..Len(Others(s, m)) : \E i \in 1..Len(s) : Others(s, m)[j] = s[i] /\ s[i].m # m
           /\ \A n : n # m => Count(PendingIn(Others(s, m), n)) = Count(PendingIn(s, n))
           /\ PendingIn(Others(s, m), m) = {}
<1> DEFINE Val(f, k) == IF k = 0 THEN <<>>
                        ELSE IF s[k].m = m THEN f[k - 1] ELSE Append(f[k - 1], s[k])
           u == CHOOSE f : f = [k \in 0..Len(s) |-> Val(f, k)]
           Upto(k, n) == {i \in 1..k : s[i].m = n}
           Good(k) == /\ u[k] \in Seq(T)
                      /\ Len(u[k]) <= k
                      /\ \A j \in 1..Len(u[k]) : \E i \in 1..Len(s) : u[k][j] = s[i] /\ s[i].m # m
                      /\ \A n : n # m => Count(PendingIn(u[k], n)) = Count(Upto(k, n))
           Bad == {k \in 0..Len(s) : ~Good(k)}
<1>1. Others(s, m) = u[Len(s)]
  BY DEF Others
<1>2. u = [k \in 0..Len(s) |-> Val(u, k)]
  <2>1. \E f : f = [k \in 0..Len(s) |-> Val(f, k)]
    <3>1. Len(s) \in Nat
      OBVIOUS
    <3>2. PICK f : Leaves(f, s, m)
      BY <3>1, LeavesDefined, Zenon
    <3> QED
      BY <3>2 DEF Leaves
  <2> HIDE DEF Val
  <2> QED
    BY <2>1, Zenon
<1>3. \A k \in 0..Len(s) : u[k] = Val(u, k)
  <2> HIDE DEF u
  <2> QED BY <1>2
<1> HIDE DEF u
<1>4. ASSUME Bad # {} PROVE FALSE
  <2>0. Bad \subseteq Nat
    OBVIOUS
  <2> HIDE DEF Bad
  <2>1. PICK k \in Bad : \A y \in Bad : <<y, k>> \notin OpToRel(<, Nat)
    BY <2>0, <1>4, NatLessThanWellFounded, WFMin, Zenon
  <2>2. \A y \in Bad : ~(y < k)
    BY <2>0, <2>1, Zenon DEF OpToRel
  <2> USE DEF Bad
  <2>3. CASE k = 0
    <3>1. u[k] = <<>>
      BY <1>3, <2>3
    <3>2. \A n : PendingIn(<<>>, n) = {} /\ Upto(0, n) = {}
      BY DEF PendingIn
    <3> HIDE DEF Upto
    <3>3. \A n : Count(PendingIn(<<>>, n)) = Count(Upto(0, n))
      BY <3>2, Zenon
    <3>4. <<>> \in Seq(T) /\ Len(<<>>) = 0 /\ 1..0 = {}
      OBVIOUS
    <3>5. \A n : n # m => Count(PendingIn(u[k], n)) = Count(Upto(k, n))
      BY <3>1, <3>3, <2>3, Zenon
    <3>6. u[k] \in Seq(T) /\ Len(u[k]) <= k /\ 1..Len(u[k]) = {}
      BY <3>1, <3>4, <2>3
    <3>7. Good(k)
      BY <3>5, <3>6
    <3> QED
      BY <3>7
  <2>4. CASE k # 0
    <3>1. k - 1 \in 0..Len(s) /\ k - 1 < k /\ k \in 1..Len(s) /\ k \in Nat
      BY <2>4
    <3>2. Good(k - 1)
      <4> HIDE DEF Good
      <4> QED BY <2>2, <3>1
    <3> DEFINE v == u[k - 1]
    <3>3. /\ v \in Seq(T) /\ Len(v) <= k - 1
          /\ \A j \in 1..Len(v) : \E i \in 1..Len(s) : v[j] = s[i] /\ s[i].m # m
          /\ \A n : n # m => Count(PendingIn(v, n)) = Count(Upto(k - 1, n))
      BY <3>2
    <3>4. s[k] \in T
      BY <3>1
    <3>5. u[k] = IF s[k].m = m THEN v ELSE Append(v, s[k])
      BY <1>3, <2>4
    <3>6. \A n : Upto(k, n) = IF s[k].m = n THEN Upto(k - 1, n) \cup {k} ELSE Upto(k - 1, n)
      <4> SUFFICES ASSUME NEW n PROVE Upto(k, n) = IF s[k].m = n THEN Upto(k - 1, n) \cup {k} ELSE Upto(k - 1, n)
        OBVIOUS
      <4>1. 1..k = (1..(k - 1)) \cup {k}
        BY <3>1
      <4> QED
        BY <4>1
    <3>7. \A n : IsFiniteSet(Upto(k - 1, n)) /\ k \notin Upto(k - 1, n)
      <4> SUFFICES ASSUME NEW n PROVE IsFiniteSet(Upto(k - 1, n)) /\ k \notin Upto(k - 1, n)
        OBVIOUS
      <4>1. IsFiniteSet(1..(k - 1))
        BY <3>1, FS_Interval
      <4>2. Upto(k - 1, n) \in SUBSET (1..(k - 1)) /\ k \notin 1..(k - 1)
        BY <3>1
      <4> QED
        BY <4>1, <4>2, FS_Subset
    <3> HIDE DEF v, Upto
    <3>8. CASE s[k].m = m
      <4>1. \A n : n # m => Upto(k, n) = Upto(k - 1, n)
        BY <3>6, <3>8
      <4> QED
        BY <3>3, <3>5, <3>8, <4>1, <3>1, SMTT(30)
    <3>9. CASE s[k].m # m
      <4>1. /\ Append(v, s[k]) \in Seq(T) /\ Len(Append(v, s[k])) = Len(v) + 1
            /\ Append(v, s[k])[Len(v) + 1] = s[k]
            /\ \A j \in 1..Len(v) : Append(v, s[k])[j] = v[j]
        BY <3>3, <3>4
      <4>2. \A j \in 1..(Len(v) + 1) : \E i \in 1..Len(s) : Append(v, s[k])[j] = s[i] /\ s[i].m # m
        <5> SUFFICES ASSUME NEW j \in 1..(Len(v) + 1)
                     PROVE  \E i \in 1..Len(s) : Append(v, s[k])[j] = s[i] /\ s[i].m # m
          OBVIOUS
        <5>1. CASE j = Len(v) + 1
          BY <3>1, <3>9, <4>1, <5>1
        <5>2. CASE j # Len(v) + 1
          <6>1. j \in 1..Len(v)
            BY <3>3, <5>2
          <6> QED
            BY <3>3, <4>1, <6>1
        <5> QED
          BY <5>1, <5>2
      <4>3. ASSUME NEW n, n # m
            PROVE  Count(PendingIn(Append(v, s[k]), n)) = Count(Upto(k, n))
        <5>1. Count(PendingIn(Append(v, s[k]), n)) = Count(PendingIn(v, n)) + IF s[k].m = n THEN 1 ELSE 0
          BY <3>3, <3>4, PendingAppended
        <5>2. Count(PendingIn(v, n)) = Count(Upto(k - 1, n)) /\ Count(Upto(k - 1, n)) \in Nat
          BY <3>3, <3>7, <4>3, FS_CardinalityType DEF Count
        <5>3. Count(Upto(k - 1, n) \cup {k}) = Count(Upto(k - 1, n)) + 1
          BY <3>7, FS_AddElement DEF Count
        <5>4. CASE s[k].m = n
          BY <5>1, <5>2, <5>3, <5>4, <3>6
        <5>5. CASE s[k].m # n
          <6>1. Upto(k, n) = Upto(k - 1, n)
            BY <5>5, <3>6
          <6>2. Count(PendingIn(Append(v, s[k]), n)) = Count(PendingIn(v, n)) + 0
            BY <5>1, <5>5
          <6> QED
            BY <5>2, <6>1, <6>2
        <5> QED
          BY <5>4, <5>5
      <4>4. u[k] = Append(v, s[k])
        BY <3>5, <3>9
      <4>5. Len(u[k]) <= k
        BY <3>1, <3>3, <4>1, <4>4
      <4>6. u[k] \in Seq(T) /\ Len(u[k]) = Len(v) + 1
        BY <4>1, <4>4
      <4>7. Good(k)
        BY <4>2, <4>3, <4>4, <4>5, <4>6
      <4> QED
        BY <4>7
    <3> QED
      BY <3>8, <3>9
  <2> QED
    BY <2>3, <2>4
<1>5. Good(Len(s))
  <2>1. Len(s) \in 0..Len(s)
    OBVIOUS
  <2> HIDE DEF Good
  <2> QED
    BY <1>4, <2>1
<1>6. \A n : Upto(Len(s), n) = PendingIn(s, n)
  BY DEF PendingIn
<1> DEFINE t == u[Len(s)]
<1>7. /\ t \in Seq(T) /\ Len(t) <= Len(s)
      /\ \A j \in 1..Len(t) : \E i \in 1..Len(s) : t[j] = s[i] /\ s[i].m # m
      /\ \A n : n # m => Count(PendingIn(t, n)) = Count(Upto(Len(s), n))
  BY <1>5
<1> HIDE DEF Upto, t
<1>8. PendingIn(t, m) = {}
  BY <1>7 DEF PendingIn
<1>9. Others(s, m) = t
  BY <1>1 DEF t
<1> QED
  BY <1>6, <1>7, <1>8, <1>9

-----------------------------------------------------------------------------
(* One torrent *)

LEMMA PeerSetCounts ==
    ASSUME NEW S, S \subseteq Peers
    PROVE  /\ IsFiniteSet(S) /\ Count(S) \in Nat
           /\ IsFiniteSet(Alive(S)) /\ Count(Alive(S)) \in Nat /\ Count(Alive(S)) <= Count(S)
           /\ IsFiniteSet(Served(S)) /\ Count(Served(S)) \in Nat
           /\ \A c : IsFiniteSet(Having(S, c)) /\ Count(Having(S, c)) \in Nat
<1>1. IsFiniteSet(S)
  BY Finite
<1>2. Alive(S) \in SUBSET S /\ Served(S) \in SUBSET S /\ \A c : Having(S, c) \in SUBSET S
  BY DEF Alive, Served, Having
<1> QED
  BY <1>1, <1>2, Fewer

LEMMA NoPeers ==
    /\ PeerSet({}) /\ Count(Alive({})) = 0 /\ Count({}) = 0
    /\ Counted({}, [c \in Chunks |-> 0], {})
<1>1. Alive({}) = {} /\ Served({}) = {} /\ \A c : Having({}, c) = {}
  BY DEF Alive, Served, Having
<1>2. Count({}) = 0
  BY FS_EmptySet DEF Count
<1>3. PeerSet({})
  <2>1. Slots \in Nat
    BY PeerManagerConstants
  <2>2. Count(Served({})) <= Slots
    BY <1>1, <1>2, <2>1
  <2> QED
    BY <2>2 DEF PeerSet
<1>4. Counted({}, [c \in Chunks |-> 0], {})
  <2> DEFINE z == [c \in Chunks |-> 0]
  <2>1. \A c \in Chunks : z[c] = 0
    OBVIOUS
  <2>2. \A c \in Chunks : Count(Having({}, c)) = 0
    BY <1>1, <1>2, Zenon
  <2> HIDE DEF z
  <2>3. \A c \in Chunks : z[c] >= Count(Having({}, c))
    BY <2>1, <2>2
  <2>4. {} = {c \in Chunks : z[c] > 0}
    BY <2>1
  <2>5. Counted({}, z, {})
    BY <2>3, <2>4 DEF Counted
  <2> QED
    BY <2>5 DEF z
<1> QED
  BY <1>1, <1>2, <1>3, <1>4

\* A new peer of a client that has none.
LEMMA PeerAdded ==
    ASSUME NEW S, PeerSet(S), NEW q \in Peers, ~q.unchoked, q.has = {}, q.id # Self,
           \A p \in S : p.id # q.id
    PROVE  /\ PeerSet(S \cup {q})
           /\ Count(S \cup {q}) <= Count(S) + 1
           /\ Count(Alive(S \cup {q})) <= Count(Alive(S)) + 1
           /\ \A c : Count(Having(S \cup {q}, c)) = Count(Having(S, c))
<1>1. S \subseteq Peers
  BY DEF PeerSet
<1>2. Alive(S \cup {q}) \in SUBSET (Alive(S) \cup {q})
  BY DEF Alive
<1>3. Served(S \cup {q}) = Served(S) /\ \A c : Having(S \cup {q}, c) = Having(S, c)
  BY DEF Served, Having
<1>4. Count(S \cup {q}) <= Count(S) + 1
  BY <1>1, PeerSetCounts, Grown
<1>5. Count(Alive(S \cup {q})) <= Count(Alive(S)) + 1
  BY <1>1, <1>2, PeerSetCounts, Grown
<1>6. PeerSet(S \cup {q})
  BY <1>3 DEF PeerSet
<1> QED
  BY <1>3, <1>4, <1>5, <1>6

\* A peer whose state changes.
LEMMA PeerChanged ==
    ASSUME NEW S, PeerSet(S), NEW p \in S, NEW q \in Peers,
           q.id = p.id, q.unchoked = p.unchoked, p.killed => q.killed
    PROVE  /\ PeerSet((S \ {p}) \cup {q})
           /\ Count((S \ {p}) \cup {q}) <= Count(S)
           /\ Count(Alive((S \ {p}) \cup {q})) <= Count(Alive(S))
           /\ ~p.killed /\ q.killed => Count(Alive((S \ {p}) \cup {q})) + 1 <= Count(Alive(S))
           /\ \A c : (c \in q.has => c \in p.has)
                       => Count(Having((S \ {p}) \cup {q}, c)) <= Count(Having(S, c))
           /\ \A c : Count(Having((S \ {p}) \cup {q}, c)) <= Count(Having(S, c)) + 1
<1> DEFINE X == (S \ {p}) \cup {q}
<1>1. S \subseteq Peers /\ X \subseteq Peers
  BY DEF PeerSet
<1>2. Count(X) <= Count(S)
  BY <1>1, PeerSetCounts, Swapped
<1>3. Count(Alive(X)) <= Count(Alive(S))
  <2>1. CASE p \in Alive(S)
    <3>1. Alive(X) \in SUBSET ((Alive(S) \ {p}) \cup {q})
      BY DEF Alive
    <3> QED
      BY <1>1, <2>1, <3>1, PeerSetCounts, Swapped
  <2>2. CASE p \notin Alive(S)
    <3>1. Alive(X) \in SUBSET Alive(S)
      BY <2>2 DEF Alive
    <3> QED
      BY <1>1, <3>1, PeerSetCounts, Fewer
  <2> QED
    BY <2>1, <2>2
<1>4. ~p.killed /\ q.killed => Count(Alive(X)) + 1 <= Count(Alive(S))
  <2> SUFFICES ASSUME ~p.killed, q.killed PROVE Count(Alive(X)) + 1 <= Count(Alive(S))
    OBVIOUS
  <2>1. p \in Alive(S) /\ Alive(X) \in SUBSET (Alive(S) \ {p})
    BY DEF Alive
  <2> QED
    BY <1>1, <2>1, PeerSetCounts, Shrunk
<1>5. ASSUME NEW c, c \in q.has => c \in p.has
      PROVE  Count(Having(X, c)) <= Count(Having(S, c))
  <2>1. CASE p \in Having(S, c)
    <3>1. Having(X, c) \in SUBSET ((Having(S, c) \ {p}) \cup {q})
      BY DEF Having
    <3> QED
      BY <1>1, <2>1, <3>1, PeerSetCounts, Swapped
  <2>2. CASE p \notin Having(S, c)
    <3>1. Having(X, c) \in SUBSET Having(S, c)
      BY <1>5, <2>2 DEF Having
    <3> QED
      BY <1>1, <3>1, PeerSetCounts, Fewer
  <2> QED
    BY <2>1, <2>2
<1>6. ASSUME NEW c
      PROVE  Count(Having(X, c)) <= Count(Having(S, c)) + 1
  <2>1. Having(X, c) \in SUBSET (Having(S, c) \cup {q})
    BY DEF Having
  <2> QED
    BY <1>1, <2>1, PeerSetCounts, Grown
<1>7. PeerSet(X)
  <2>1. Count(Served(X)) <= Count(Served(S))
    <3>1. CASE p \in Served(S)
      <4>1. Served(X) \in SUBSET ((Served(S) \ {p}) \cup {q})
        BY DEF Served
      <4> QED
        BY <1>1, <3>1, <4>1, PeerSetCounts, Swapped
    <3>2. CASE p \notin Served(S)
      <4>1. Served(X) \in SUBSET Served(S)
        BY <3>2 DEF Served
      <4> QED
        BY <1>1, <4>1, PeerSetCounts, Fewer
    <3> QED
      BY <3>1, <3>2
  <2>2. Count(Served(X)) <= Slots
    <3>1. Count(Served(X)) \in Nat /\ Count(Served(S)) \in Nat /\ Slots \in Nat
      BY <1>1, PeerSetCounts, PeerManagerConstants
    <3>2. Count(Served(S)) <= Slots
      BY DEF PeerSet
    <3> QED
      BY <2>1, <3>1, <3>2
  <2>3. \A a, b \in X : a.id = b.id => a = b
    BY DEF PeerSet
  <2>4. \A a \in X : a.id # Self
    BY DEF PeerSet
  <2> QED
    BY <1>1, <2>2, <2>3, <2>4 DEF PeerSet
<1> QED
  BY <1>2, <1>3, <1>4, <1>5, <1>6, <1>7

\* Peers that go.
LEMMA PeersGone ==
    ASSUME NEW S, PeerSet(S), NEW X \in SUBSET S
    PROVE  /\ PeerSet(X) /\ Count(Alive(X)) <= Count(Alive(S))
           /\ \A c : Count(Having(X, c)) <= Count(Having(S, c))
<1>1. S \subseteq Peers
  BY DEF PeerSet
<1>2. /\ Alive(X) \in SUBSET Alive(S) /\ Served(X) \in SUBSET Served(S)
      /\ \A c : Having(X, c) \in SUBSET Having(S, c)
  BY DEF Alive, Served, Having
<1>3. /\ Count(Alive(X)) <= Count(Alive(S))
      /\ \A c : Count(Having(X, c)) <= Count(Having(S, c))
  BY <1>1, <1>2, PeerSetCounts, Fewer
<1>4. Count(Served(X)) <= Slots
  <2>1. Count(Served(X)) <= Count(Served(S)) /\ Count(Served(X)) \in Nat /\ Count(Served(S)) \in Nat
    BY <1>1, <1>2, PeerSetCounts, Fewer
  <2>2. Count(Served(S)) <= Slots /\ Slots \in Nat
    BY PeerManagerConstants DEF PeerSet
  <2> QED
    BY <2>1, <2>2
<1>5. PeerSet(X)
  BY <1>4 DEF PeerSet
<1> QED
  BY <1>3, <1>5

-----------------------------------------------------------------------------
(* One torrent among the others *)

\* Nothing changes for the other torrents.
SameBut(v, x, m) ==
    \A n \in Managers \ {m} :
       /\ x.peers[n] = v.peers[n] /\ x.cnt[n] = v.cnt[n] /\ x.available[n] = v.available[n]
       /\ x.started[n] = v.started[n] /\ x.num_pending[n] = v.num_pending[n]
       /\ x.extra[n] = v.extra[n]
       /\ Count(PendingIn(x.auths, n)) = Count(PendingIn(v.auths, n))

\* There is room for one more connection, of all torrents and of this one.
Slack(v, g) ==
    Count(Together(AliveOf(v))) + Len(v.auths)
      < g.max_total_connections + Count(Together(ExtraOf(v)))

Room(v, m, g) ==
    /\ g.max_connections > 0 =>
         Count(Alive(v.peers[m])) + Count(PendingIn(v.auths, m)) < g.max_connections + v.extra[m]
    /\ Slack(v, g)

\* From v to x a torrent has no more connections than there is room for, and they
\* are all counted.
Balanced(v, x, m, g) ==
    /\ x.total_connections + Count(v.peers[m]) + Len(v.auths)
         >= v.total_connections + Count(x.peers[m]) + Len(x.auths)
    /\ \/ Count(Alive(x.peers[m])) + Len(x.auths) + v.extra[m]
            <= Count(Alive(v.peers[m])) + Len(v.auths) + x.extra[m]
       \/ /\ Slack(v, g)
          /\ x.extra[m] >= v.extra[m]
          /\ Count(Alive(x.peers[m])) + Len(x.auths) <= Count(Alive(v.peers[m])) + Len(v.auths) + 1

LEMMA SettingsTyped ==
    ASSUME NEW g \in Worlds
    PROVE  /\ g.max_connections \in Nat /\ g.max_total_connections \in Nat \ {0}
           /\ g.max_haves \in Nat /\ g.swarm \in [Managers -> SUBSET RemoteSet]
BY PeerManagerConstants

LEMMA StateTyped ==
    ASSUME NEW max, NEW v \in States(max), NEW m \in Managers
    PROVE  /\ v.peers[m] \subseteq Peers /\ IsFiniteSet(v.peers[m])
           /\ Count(v.peers[m]) \in Nat
           /\ Count(Alive(v.peers[m])) \in Nat /\ Count(Alive(v.peers[m])) <= Count(v.peers[m])
           /\ v.auths \in Seq(Auths) /\ Len(v.auths) \in Nat
           /\ Count(PendingIn(v.auths, m)) \in Nat /\ Count(PendingIn(v.auths, m)) <= Len(v.auths)
           /\ v.extra[m] \in Nat /\ v.num_pending[m] \in Nat /\ v.total_connections \in Nat
           /\ v.num_connecting \in Nat
<1>1. /\ v.peers[m] \subseteq Peers /\ v.auths \in Seq(Auths) /\ Len(v.auths) \in Nat
      /\ v.extra[m] \in Nat /\ v.num_pending[m] \in Nat /\ v.total_connections \in Nat
      /\ v.num_connecting \in Nat
  BY DEF States
<1>2. Count(PendingIn(v.auths, m)) \in Nat /\ Count(PendingIn(v.auths, m)) <= Len(v.auths)
  BY <1>1, PendingFinite
<1>3. /\ IsFiniteSet(v.peers[m]) /\ Count(v.peers[m]) \in Nat
      /\ Count(Alive(v.peers[m])) \in Nat /\ Count(Alive(v.peers[m])) <= Count(v.peers[m])
  BY <1>1, PeerSetCounts
<1> QED
  BY <1>1, <1>2, <1>3

\* The living peers are peers.
LEMMA LivingArePeers ==
    ASSUME NEW max, NEW v \in States(max)
    PROVE  /\ Count(Together(AliveOf(v))) \in Nat /\ Count(Together(v.peers)) \in Nat
           /\ Count(Together(AliveOf(v))) <= Count(Together(v.peers))
           /\ Count(Together(ExtraOf(v))) \in Nat
<1>1. \A m \in Managers : /\ IsFiniteSet(v.peers[m]) /\ AliveOf(v)[m] \subseteq v.peers[m]
                          /\ ExtraOf(v)[m] = 1..v.extra[m] /\ v.extra[m] \in Nat
  BY StateTyped DEF AliveOf, Alive, ExtraOf
<1>2. IsFiniteSet(Together(v.peers))
  BY <1>1, TogetherFinite
<1>3. Together(AliveOf(v)) \in SUBSET Together(v.peers)
  BY <1>1 DEF Together
<1>4. \A m \in Managers : IsFiniteSet(ExtraOf(v)[m])
  BY <1>1, FS_Interval
<1>5. Count(Together(ExtraOf(v))) \in Nat
  BY <1>4, TogetherFinite
<1> QED
  BY <1>2, <1>3, <1>5, Fewer

\* The sums change as that torrent does.
LEMMA SumsChange ==
    ASSUME NEW max, NEW v \in States(max), NEW x \in States(max), NEW m \in Managers, SameBut(v, x, m)
    PROVE  /\ Count(Together(x.peers)) + Count(v.peers[m]) = Count(Together(v.peers)) + Count(x.peers[m])
           /\ Count(Together(AliveOf(x))) + Count(Alive(v.peers[m]))
                = Count(Together(AliveOf(v))) + Count(Alive(x.peers[m]))
           /\ Count(Together(ExtraOf(x))) + v.extra[m] = Count(Together(ExtraOf(v))) + x.extra[m]
<1>1. v \in States(max) /\ x \in States(max)
  OBVIOUS
<1>2. \A n \in Managers : /\ IsFiniteSet(v.peers[n]) /\ IsFiniteSet(x.peers[n])
                          /\ v.extra[n] \in Nat /\ x.extra[n] \in Nat
  BY <1>1, StateTyped
<1>4. /\ Count(Together(v.peers)) \in Nat /\ Count(Together(x.peers)) \in Nat
      /\ Count(v.peers[m]) \in Nat /\ Count(x.peers[m]) \in Nat
      /\ Count(Together(x.peers)) + Count(v.peers[m]) = Count(Together(v.peers)) + Count(x.peers[m])
  <2>1. \A n \in Managers \ {m} : x.peers[n] = v.peers[n]
    BY DEF SameBut
  <2> QED
    BY <1>2, <2>1, TogetherChanged
<1>5. /\ Count(Together(AliveOf(v))) \in Nat /\ Count(Together(AliveOf(x))) \in Nat
      /\ Count(Alive(v.peers[m])) \in Nat /\ Count(Alive(x.peers[m])) \in Nat
      /\ Count(Together(AliveOf(x))) + Count(Alive(v.peers[m]))
           = Count(Together(AliveOf(v))) + Count(Alive(x.peers[m]))
  <2>1. \A n \in Managers \ {m} : AliveOf(x)[n] = AliveOf(v)[n]
    BY DEF SameBut, AliveOf
  <2>2. \A n \in Managers : /\ AliveOf(v)[n] = Alive(v.peers[n]) /\ AliveOf(x)[n] = Alive(x.peers[n])
                            /\ IsFiniteSet(Alive(v.peers[n])) /\ IsFiniteSet(Alive(x.peers[n]))
    BY <1>1, StateTyped, PeerSetCounts DEF AliveOf
  <2>3. \A n \in Managers : IsFiniteSet(AliveOf(v)[n]) /\ IsFiniteSet(AliveOf(x)[n])
    BY <2>2
  <2>4. /\ Count(Together(AliveOf(v))) \in Nat /\ Count(Together(AliveOf(x))) \in Nat
        /\ Count(AliveOf(v)[m]) \in Nat /\ Count(AliveOf(x)[m]) \in Nat
        /\ Count(Together(AliveOf(x))) + Count(AliveOf(v)[m])
             = Count(Together(AliveOf(v))) + Count(AliveOf(x)[m])
    BY <2>1, <2>3, TogetherChanged
  <2> QED
    BY <2>2, <2>4
<1>6. /\ Count(Together(ExtraOf(v))) \in Nat /\ Count(Together(ExtraOf(x))) \in Nat
      /\ Count(Together(ExtraOf(x))) + v.extra[m] = Count(Together(ExtraOf(v))) + x.extra[m]
  <2>1. \A n \in Managers \ {m} : ExtraOf(x)[n] = ExtraOf(v)[n]
    BY DEF SameBut, ExtraOf
  <2>2. \A n \in Managers : ExtraOf(v)[n] = 1..v.extra[n] /\ ExtraOf(x)[n] = 1..x.extra[n]
    BY DEF ExtraOf
  <2>5. \A k \in Nat : IsFiniteSet(1..k) /\ Count(1..k) = k
    <3> SUFFICES ASSUME NEW k \in Nat PROVE IsFiniteSet(1..k) /\ Count(1..k) = k
      OBVIOUS
    <3>1. IsFiniteSet(1..k) /\ Cardinality(1..k) = IF 1 > k THEN 0 ELSE k - 1 + 1
      BY FS_Interval
    <3> QED
      BY <3>1 DEF Count
  <2>3. \A n \in Managers : IsFiniteSet(ExtraOf(v)[n]) /\ IsFiniteSet(ExtraOf(x)[n])
    BY <1>2, <2>2, <2>5
  <2>4. /\ Count(Together(ExtraOf(v))) \in Nat /\ Count(Together(ExtraOf(x))) \in Nat
        /\ Count(Together(ExtraOf(x))) + Count(ExtraOf(v)[m])
             = Count(Together(ExtraOf(v))) + Count(ExtraOf(x)[m])
    BY <2>1, <2>3, TogetherChanged
  <2> QED
    BY <1>2, <2>2, <2>4, <2>5
<1> QED
  BY <1>4, <1>5, <1>6

\* What one torrent does keeps all of them sound, if it is and the sums are.
LEMMA OneTorrent ==
    ASSUME NEW g \in Worlds, NEW v, Sound(v, g), NEW x \in States(g.max_haves),
           NEW m \in Managers, SameBut(v, x, m), TorrentSound(x, m, g),
           \A i \in DOMAIN x.auths : x.started[x.auths[i].m],
           Balanced(v, x, m, g)
    PROVE  Sound(x, g)
<1>1. v \in States(g.max_haves) /\ g.max_total_connections \in Nat /\ g.max_connections \in Nat
  BY SettingsTyped DEF Sound
<1>2. \A n \in Managers : /\ IsFiniteSet(v.peers[n]) /\ IsFiniteSet(x.peers[n])
                          /\ v.extra[n] \in Nat /\ x.extra[n] \in Nat
  BY <1>1, StateTyped
<1>3. \A n \in Managers : TorrentSound(x, n, g)
  <2> SUFFICES ASSUME NEW n \in Managers, n # m PROVE TorrentSound(x, n, g)
    OBVIOUS
  <2>1. TorrentSound(v, n, g)
    BY DEF Sound
  <2>2. /\ x.peers[n] = v.peers[n] /\ x.cnt[n] = v.cnt[n] /\ x.available[n] = v.available[n]
        /\ x.started[n] = v.started[n] /\ x.num_pending[n] = v.num_pending[n]
        /\ x.extra[n] = v.extra[n]
        /\ Count(PendingIn(x.auths, n)) = Count(PendingIn(v.auths, n))
    BY DEF SameBut
  <2> QED
    BY <2>1, <2>2 DEF TorrentSound
<1>4. /\ Count(Together(x.peers)) + Count(v.peers[m]) = Count(Together(v.peers)) + Count(x.peers[m])
      /\ Count(Together(AliveOf(x))) + Count(Alive(v.peers[m]))
           = Count(Together(AliveOf(v))) + Count(Alive(x.peers[m]))
      /\ Count(Together(ExtraOf(x))) + v.extra[m] = Count(Together(ExtraOf(v))) + x.extra[m]
  BY <1>1, SumsChange
<1>5. /\ Count(Together(v.peers)) \in Nat /\ Count(Together(x.peers)) \in Nat
      /\ Count(Together(AliveOf(v))) \in Nat /\ Count(Together(AliveOf(x))) \in Nat
      /\ Count(Together(ExtraOf(v))) \in Nat /\ Count(Together(ExtraOf(x))) \in Nat
  BY <1>1, LivingArePeers
<1>6. /\ Count(v.peers[m]) \in Nat /\ Count(x.peers[m]) \in Nat
      /\ Count(Alive(v.peers[m])) \in Nat /\ Count(Alive(x.peers[m])) \in Nat
  BY <1>1, StateTyped
<1>7. /\ Len(v.auths) \in Nat /\ Len(x.auths) \in Nat
      /\ v.total_connections \in Nat /\ x.total_connections \in Nat
  BY <1>1, StateTyped
<1>8. /\ v.total_connections >= Count(Together(v.peers)) + Len(v.auths)
      /\ Count(Together(AliveOf(v))) + Len(v.auths)
           <= g.max_total_connections + Count(Together(ExtraOf(v)))
  BY DEF Sound
<1>9. Count(Together(AliveOf(v))) <= Count(Together(v.peers))
  BY <1>1, LivingArePeers
<1> DEFINE pv == Count(Together(v.peers))    px == Count(Together(x.peers))
           av == Count(Together(AliveOf(v))) ax == Count(Together(AliveOf(x)))
           ev == Count(Together(ExtraOf(v))) ex == Count(Together(ExtraOf(x)))
           ov == Count(v.peers[m])           ox == Count(x.peers[m])
           lv == Count(Alive(v.peers[m]))    lx == Count(Alive(x.peers[m]))
           hv == Len(v.auths)                hx == Len(x.auths)
           tv == v.total_connections         tx == x.total_connections
           xv == v.extra[m]                  xx == x.extra[m]
           max == g.max_total_connections
<1>10. /\ {pv, px, av, ax, ev, ex, ov, ox, lv, lx, hv, hx, tv, tx, xv, xx, max} \subseteq Nat
       /\ px + ov = pv + ox /\ ax + lv = av + lx /\ ex + xv = ev + xx
       /\ tv >= pv + hv /\ av + hv <= max + ev /\ av <= pv
  BY <1>1, <1>2, <1>4, <1>5, <1>6, <1>7, <1>8, <1>9
<1>11. /\ tx + ov + hv >= tv + ox + hx
       /\ (lx + hx + xv <= lv + hv + xx) \/ (av + hv < max + ev /\ xx >= xv /\ lx + hx <= lv + hv + 1)
  BY DEF Balanced, Slack
<1>12. tx >= px + hx /\ ax + hx <= max + ex
  <2> HIDE DEF pv, px, av, ax, ev, ex, ov, ox, lv, lx, hv, hx, tv, tx, xv, xx, max
  <2> QED
    BY <1>10, <1>11
<1> QED
  BY <1>3, <1>12 DEF Sound

\* Room from the checks of peermanager.cpp: the global count misses no connection.
LEMMA CountedRoom ==
    ASSUME NEW g \in Worlds, NEW v, Sound(v, g), v.total_connections < g.max_total_connections
    PROVE  Slack(v, g)
<1>1. v \in States(g.max_haves) /\ g.max_total_connections \in Nat
  BY SettingsTyped DEF Sound
<1>2. /\ Count(Together(AliveOf(v))) \in Nat /\ Count(Together(v.peers)) \in Nat
      /\ Count(Together(AliveOf(v))) <= Count(Together(v.peers))
      /\ Count(Together(ExtraOf(v))) \in Nat
  BY <1>1, LivingArePeers
<1>3. v.total_connections >= Count(Together(v.peers)) + Len(v.auths)
  BY DEF Sound
<1>4. Len(v.auths) \in Nat /\ v.total_connections \in Nat
  BY <1>1 DEF States
<1> QED
  BY <1>1, <1>2, <1>3, <1>4, SMTT(30) DEF Slack

-----------------------------------------------------------------------------
(* Handshakes and new peers *)

\* A handshake has begun, or has failed at once.
Begun(v, x, m, max) ==
    /\ x \in States(max)
    /\ x.peers = v.peers /\ x.cnt = v.cnt /\ x.available = v.available
    /\ x.started = v.started /\ x.extra = v.extra /\ x.potential = v.potential
    /\ \/ /\ x.auths = v.auths /\ x.num_pending = v.num_pending
          /\ x.total_connections = Less(v.total_connections, 1) + 1
       \/ /\ \E a \in Auths : a.m = m /\ x.auths = Append(v.auths, a)
          /\ x.num_pending = [v.num_pending EXCEPT ![m] = @ + 1]
          /\ x.total_connections = v.total_connections + 1

LEMMA NewAuthIs ==
    ASSUME NEW max, NEW v \in States(max), NEW m \in Managers, NEW r \in RemoteSet,
           NEW enc \in BOOLEAN, NEW outcome
    PROVE  Begun(v, NewAuth(v, m, r, enc, outcome), m, max)
<1> DEFINE x == NewAuth(v, m, r, enc, outcome)
           a == [m |-> m, r |-> r, enc |-> enc,
                 phase |-> IF outcome = "connecting" THEN outcome
                           ELSE IF enc THEN "deaf" ELSE "hs"]
<1>1. a \in Auths /\ a.m = m
  BY DEF Auths
<1>2. /\ v.auths \in Seq(Auths) /\ v.num_pending \in [Managers -> Nat]
      /\ v.total_connections \in Nat /\ v.num_connecting \in Nat
  BY DEF States
<1>3. Less(v.total_connections, 1) + 1 \in Nat
  BY <1>2 DEF Less
<1>0. x = NewAuth(v, m, r, enc, outcome)
  OBVIOUS
<1> HIDE DEF a, x
<1>4. CASE outcome = "fails"
  <2>1. x = [v EXCEPT !.total_connections = Less(v.total_connections, 1) + 1]
    BY <1>0, <1>4 DEF NewAuth
  <2> QED
    BY <1>3, <2>1 DEF States, Begun, x
<1>5. CASE outcome # "fails"
  <2> DEFINE l == Append(v.auths, a)
             k == IF outcome = "connecting" THEN v.num_connecting + 1 ELSE v.num_connecting
             p == [v.num_pending EXCEPT ![m] = @ + 1]
             t == v.total_connections + 1
  <2>1. x = [v EXCEPT !.auths = l, !.num_connecting = k, !.num_pending[m] = @ + 1, !.total_connections = t]
    BY <1>0, <1>5 DEF NewAuth, a
  <2>2. l \in Seq(Auths) /\ k \in Nat /\ p \in [Managers -> Nat] /\ t \in Nat
    BY <1>1, <1>2
  <2>3. x = [v EXCEPT !.auths = l, !.num_connecting = k, !.num_pending = p, !.total_connections = t]
    BY <2>1 DEF States
  <2>4. l = Append(v.auths, a) /\ p = [v.num_pending EXCEPT ![m] = @ + 1] /\ t = v.total_connections + 1
    OBVIOUS
  <2> HIDE DEF l, k, p, t
  <2>5. x.auths = l /\ x.num_pending = p /\ x.total_connections = t
    BY <2>3 DEF States
  <2>6. /\ x.peers = v.peers /\ x.cnt = v.cnt /\ x.available = v.available
        /\ x.started = v.started /\ x.extra = v.extra /\ x.potential = v.potential
    BY <2>3 DEF States
  <2>7. x \in States(max)
    BY <2>2, <2>3 DEF States
  <2> QED
    BY <1>1, <2>4, <2>5, <2>6, <2>7 DEF Begun, x
<1> QED
  BY <1>4, <1>5

\* One more outgoing handshake.
LEMMA NewAuthSound ==
    ASSUME NEW g \in Worlds, NEW v, Sound(v, g), NEW m \in Managers, Room(v, m, g), v.started[m],
           NEW r \in RemoteSet, NEW enc \in BOOLEAN, NEW outcome
    PROVE  Sound(NewAuth(v, m, r, enc, outcome), g)
<1> DEFINE x == NewAuth(v, m, r, enc, outcome)
<1>1. v \in States(g.max_haves) /\ TorrentSound(v, m, g)
  BY DEF Sound
<1>0. Begun(v, x, m, g.max_haves)
  BY <1>1, NewAuthIs, Zenon
<1> HIDE DEF x
<1>2. /\ x \in States(g.max_haves)
      /\ x.peers = v.peers /\ x.cnt = v.cnt /\ x.available = v.available
      /\ x.started = v.started /\ x.extra = v.extra
  BY <1>0 DEF Begun
<1>3. \/ /\ x.auths = v.auths /\ x.num_pending = v.num_pending
         /\ x.total_connections = Less(v.total_connections, 1) + 1
      \/ /\ \E a \in Auths : a.m = m /\ x.auths = Append(v.auths, a)
         /\ x.num_pending = [v.num_pending EXCEPT ![m] = @ + 1]
         /\ x.total_connections = v.total_connections + 1
  BY <1>0 DEF Begun
<1>4. /\ Count(v.peers[m]) \in Nat /\ Count(Alive(v.peers[m])) \in Nat /\ v.auths \in Seq(Auths)
      /\ Len(v.auths) \in Nat /\ v.total_connections \in Nat /\ v.extra[m] \in Nat
      /\ Count(PendingIn(v.auths, m)) \in Nat /\ v.num_pending[m] \in Nat
  BY <1>1, StateTyped
<1>5. v.num_pending \in [Managers -> Nat]
  BY <1>1 DEF States
<1>6. CASE /\ x.auths = v.auths /\ x.num_pending = v.num_pending
           /\ x.total_connections = Less(v.total_connections, 1) + 1
  <2>1. x.total_connections >= v.total_connections
    BY <1>4, <1>6 DEF Less
  <2>2. x.total_connections \in Nat
    BY <1>2 DEF States
  <2>3. Balanced(v, x, m, g)
    <3>1. /\ x.peers[m] = v.peers[m] /\ x.extra[m] = v.extra[m] /\ Len(x.auths) = Len(v.auths)
          /\ Alive(x.peers[m]) = Alive(v.peers[m])
      BY <1>2, <1>6
    <3> DEFINE n == Count(v.peers[m])
               a == Count(Alive(v.peers[m]))
               e == v.extra[m]
               l == Len(v.auths)
               t == v.total_connections
               u == x.total_connections
    <3>2. /\ n \in Nat /\ a \in Nat /\ e \in Nat /\ l \in Nat /\ t \in Nat /\ u \in Nat
          /\ u >= t
      BY <1>4, <2>1, <2>2
    <3>3. /\ Count(x.peers[m]) = n /\ Count(Alive(x.peers[m])) = a /\ x.extra[m] = e
          /\ Len(x.auths) = l
      BY <3>1
    <3> HIDE DEF n, a, e, l, t, u
    <3>4. u + n + l >= t + n + l /\ a + l + e <= a + l + e
      BY <3>2
    <3>5. /\ u + n + l >= t + Count(x.peers[m]) + Len(x.auths)
          /\ Count(Alive(x.peers[m])) + Len(x.auths) + e <= a + l + x.extra[m]
      BY <3>3, <3>4, Zenon
    <3> QED
      BY <3>5, Zenon DEF Balanced, n, a, e, l, t, u
  <2>4. SameBut(v, x, m)
    BY <1>2, <1>6 DEF SameBut
  <2>5. TorrentSound(x, m, g)
    BY <1>1, <1>2, <1>6 DEF TorrentSound
  <2>6. \A i \in DOMAIN x.auths : x.started[x.auths[i].m]
    BY <1>2, <1>6 DEF Sound
  <2> QED
    BY <1>2, <2>3, <2>4, <2>5, <2>6, OneTorrent DEF x
<1>7. CASE /\ \E a \in Auths : a.m = m /\ x.auths = Append(v.auths, a)
           /\ x.num_pending = [v.num_pending EXCEPT ![m] = @ + 1]
           /\ x.total_connections = v.total_connections + 1
  <2>1. PICK a \in Auths : a.m = m /\ x.auths = Append(v.auths, a)
    BY <1>7
  <2>2. \A n \in Managers : Count(PendingIn(x.auths, n))
                              = Count(PendingIn(v.auths, n)) + IF n = m THEN 1 ELSE 0
    BY <1>4, <2>1, PendingAppended
  <2>3. \A n \in Managers : Count(PendingIn(v.auths, n)) \in Nat
    BY <1>1, StateTyped
  <2>4. Len(x.auths) = Len(v.auths) + 1
    BY <1>4, <2>1
  <2>5. Balanced(v, x, m, g)
    <3>1. /\ x.peers[m] = v.peers[m] /\ x.extra[m] = v.extra[m]
          /\ Alive(x.peers[m]) = Alive(v.peers[m])
      BY <1>2
    <3> DEFINE n == Count(v.peers[m])
               a1 == Count(Alive(v.peers[m]))
               e == v.extra[m]
               l == Len(v.auths)
               t == v.total_connections
    <3>2. n \in Nat /\ a1 \in Nat /\ e \in Nat /\ l \in Nat /\ t \in Nat
      BY <1>4
    <3>3. /\ Count(x.peers[m]) = n /\ Count(Alive(x.peers[m])) = a1 /\ x.extra[m] = e
          /\ Len(x.auths) = l + 1 /\ x.total_connections = t + 1
      BY <1>7, <2>4, <3>1
    <3> HIDE DEF n, a1, e, l, t
    <3>4. (t + 1) + n + l >= t + n + (l + 1) /\ e >= e /\ a1 + (l + 1) <= a1 + l + 1
      BY <3>2
    <3>6. /\ x.total_connections + n + l >= t + Count(x.peers[m]) + Len(x.auths)
          /\ x.extra[m] >= e
          /\ Count(Alive(x.peers[m])) + Len(x.auths) <= a1 + l + 1
      BY <3>3, <3>4, Zenon
    <3>5. Slack(v, g)
      BY DEF Room
    <3> QED
      BY <3>5, <3>6, Zenon DEF Balanced, n, a1, e, l, t
  <2>6. SameBut(v, x, m)
    BY <1>2, <1>5, <1>7, <2>2, <2>3 DEF SameBut
  <2>7. TorrentSound(x, m, g)
    <3>1. x.num_pending[m] = v.num_pending[m] + 1
      BY <1>5, <1>7
    <3>2. Count(PendingIn(x.auths, m)) = Count(PendingIn(v.auths, m)) + 1
      BY <2>2
    <3>3. x.num_pending[m] = Count(PendingIn(x.auths, m))
      BY <1>1, <3>1, <3>2 DEF TorrentSound
    <3>4. g.max_connections > 0 =>
            Count(Alive(x.peers[m])) + Count(PendingIn(x.auths, m)) <= g.max_connections + x.extra[m]
      <4> DEFINE b == Count(Alive(v.peers[m]))
                 c == Count(PendingIn(v.auths, m))
                 e == v.extra[m]
                 max == g.max_connections
      <4>1. b \in Nat /\ c \in Nat /\ e \in Nat /\ max \in Nat
        BY <1>4, SettingsTyped
      <4>2. max > 0 => b + c < max + e
        BY DEF Room
      <4>3. Count(Alive(x.peers[m])) = b /\ Count(PendingIn(x.auths, m)) = c + 1 /\ x.extra[m] = e
        BY <1>2, <3>2
      <4> HIDE DEF b, c, e, max
      <4>4. max > 0 => b + (c + 1) <= max + e
        BY <4>1, <4>2
      <4> QED
        BY <4>3, <4>4, Zenon DEF max
    <3> QED
      BY <1>1, <1>2, <3>3, <3>4 DEF TorrentSound
  <2>8. \A i \in DOMAIN x.auths : x.started[x.auths[i].m]
    <3> SUFFICES ASSUME NEW i \in DOMAIN x.auths PROVE v.started[x.auths[i].m]
      BY <1>2
    <3>1. (i \in DOMAIN v.auths /\ x.auths[i] = v.auths[i]) \/ x.auths[i] = a
      <4> DEFINE s == v.auths
      <4>1. s \in Seq(Auths) /\ i \in DOMAIN Append(s, a) /\ x.auths = Append(s, a)
        BY <1>4, <2>1
      <4> HIDE DEF s
      <4>2. i \in 1..(Len(s) + 1) /\ Len(s) \in Nat /\ DOMAIN s = 1..Len(s)
        BY <4>1
      <4>3. Append(s, a)[i] = IF i <= Len(s) THEN s[i] ELSE a
        BY <4>1, <4>2
      <4>4. i <= Len(s) => i \in DOMAIN s
        BY <4>2
      <4> QED
        BY <4>1, <4>3, <4>4, Zenon DEF s
    <3> QED
      BY <2>1, <3>1 DEF Sound
  <2> QED
    BY <1>2, <2>5, <2>6, <2>7, <2>8, OneTorrent DEF x
<1> QED
  BY <1>3, <1>6, <1>7

\* Nothing changes but the handshakes under way and what is counted of them.
LEMMA HandshakesChange ==
    ASSUME NEW g \in Worlds, NEW v, Sound(v, g), NEW x \in States(g.max_haves),
           NEW m \in Managers, v.started[m],
           /\ x.peers = v.peers /\ x.cnt = v.cnt /\ x.available = v.available
           /\ x.started = v.started /\ x.extra = v.extra,
           \A n \in Managers \ {m} : /\ x.num_pending[n] = v.num_pending[n]
                                     /\ Count(PendingIn(x.auths, n)) = Count(PendingIn(v.auths, n)),
           x.num_pending[m] = Count(PendingIn(x.auths, m)),
           Count(PendingIn(x.auths, m)) <= Count(PendingIn(v.auths, m)),
           Len(x.auths) <= Len(v.auths),
           x.total_connections + Len(v.auths) >= v.total_connections + Len(x.auths),
           \A j \in DOMAIN x.auths : x.started[x.auths[j].m]
    PROVE  Sound(x, g)
<1>1. v \in States(g.max_haves) /\ TorrentSound(v, m, g)
  BY DEF Sound
<1>2. /\ Count(v.peers[m]) \in Nat /\ Count(Alive(v.peers[m])) \in Nat
      /\ Len(v.auths) \in Nat /\ v.total_connections \in Nat /\ v.extra[m] \in Nat
      /\ Count(PendingIn(v.auths, m)) \in Nat
  BY <1>1, StateTyped
<1>3. /\ Len(x.auths) \in Nat /\ x.total_connections \in Nat /\ Count(PendingIn(x.auths, m)) \in Nat
  BY StateTyped
<1>4. Balanced(v, x, m, g)
  <2>1. x.peers[m] = v.peers[m] /\ x.extra[m] = v.extra[m]
    OBVIOUS
  <2>2. x.total_connections + Count(v.peers[m]) + Len(v.auths)
          >= v.total_connections + Count(v.peers[m]) + Len(x.auths)
    <3>1. x.total_connections + Len(v.auths) >= v.total_connections + Len(x.auths)
      OBVIOUS
    <3> DEFINE a == x.total_connections   b == v.total_connections   c == Count(v.peers[m])
               d == Len(v.auths)          e == Len(x.auths)
    <3>2. {a, b, c, d, e} \subseteq Nat /\ a + d >= b + e
      BY <1>2, <1>3, <3>1
    <3> HIDE DEF a, b, c, d, e
    <3>3. a + c + d >= b + c + e
      BY <3>2
    <3> QED
      BY <3>3 DEF a, b, c, d, e
  <2>3. Count(Alive(v.peers[m])) + Len(x.auths) + v.extra[m]
          <= Count(Alive(v.peers[m])) + Len(v.auths) + v.extra[m]
    <3> DEFINE a == Count(Alive(v.peers[m]))   d == Len(v.auths)   e == Len(x.auths)
               k == v.extra[m]
    <3>1. a \in Nat /\ d \in Nat /\ e \in Nat /\ k \in Nat /\ e <= d
      BY <1>2, <1>3
    <3> HIDE DEF a, d, e, k
    <3>2. a + e + k <= a + d + k
      BY <3>1
    <3> QED
      BY <3>2 DEF a, d, e, k
  <2> QED
    BY <2>1, <2>2, <2>3 DEF Balanced
<1>5. SameBut(v, x, m)
  BY DEF SameBut
<1>6. TorrentSound(x, m, g)
  <2>1. g.max_connections > 0 =>
          Count(Alive(x.peers[m])) + Count(PendingIn(x.auths, m)) <= g.max_connections + x.extra[m]
    <3>1. g.max_connections \in Nat
      BY SettingsTyped
    <3>2. g.max_connections > 0 =>
            Count(Alive(v.peers[m])) + Count(PendingIn(v.auths, m)) <= g.max_connections + v.extra[m]
      BY <1>1 DEF TorrentSound
    <3> DEFINE a == Count(Alive(v.peers[m]))   b == Count(PendingIn(v.auths, m))
               c == Count(PendingIn(x.auths, m))   k == v.extra[m]   max == g.max_connections
    <3>3. /\ a \in Nat /\ b \in Nat /\ c \in Nat /\ k \in Nat /\ max \in Nat
          /\ c <= b /\ (max > 0 => a + b <= max + k)
      BY <1>2, <1>3, <3>1, <3>2
    <3> HIDE DEF a, b, c, k, max
    <3>4. max > 0 => a + c <= max + k
      BY <3>3
    <3> QED
      BY <3>4, Zenon DEF a, c, k, max
  <2> QED
    BY <1>1, <2>1 DEF TorrentSound
<1> QED
  BY <1>4, <1>5, <1>6, OneTorrent

\* The state when a handshake has ended.
Ended(v, i) == Released([v EXCEPT !.auths = RemoveAt(@, i)], v.auths[i].m)

LEMMA EndedIs ==
    ASSUME NEW max, NEW v \in States(max), NEW i \in DOMAIN v.auths, NEW m, m = v.auths[i].m,
           v.num_pending[m] \in Nat \ {0}
    PROVE  /\ Ended(v, i) \in States(max)
           /\ Ended(v, i).peers = v.peers /\ Ended(v, i).cnt = v.cnt
           /\ Ended(v, i).available = v.available
           /\ Ended(v, i).started = v.started /\ Ended(v, i).extra = v.extra
           /\ Ended(v, i).auths = RemoveAt(v.auths, i)
           /\ Ended(v, i).num_pending = [v.num_pending EXCEPT ![m] = @ - 1]
           /\ Ended(v, i).total_connections = Less(v.total_connections, 1)
<1> DEFINE x == Ended(v, i)
           l == RemoveAt(v.auths, i)
           p == [v.num_pending EXCEPT ![m] = @ - 1]
           t == Less(v.total_connections, 1)
<1>1. /\ v.auths \in Seq(Auths) /\ v.num_pending \in [Managers -> Nat]
      /\ v.total_connections \in Nat /\ i \in 1..Len(v.auths)
  BY DEF States
<1>2. l \in Seq(Auths)
  BY <1>1, Removed
<1>3. m \in Managers
  <2>1. v.auths[i] \in Auths
    BY <1>1
  <2> QED
    BY <2>1 DEF Auths
<1>4. p \in [Managers -> Nat] /\ t \in Nat
  BY <1>1, <1>3 DEF Less
<1>5. x = [v EXCEPT !.auths = l, !.total_connections = t, !.num_pending = p]
  BY DEF Ended, Released, States
<1>6. l = RemoveAt(v.auths, i) /\ p = [v.num_pending EXCEPT ![m] = @ - 1] /\ t = Less(v.total_connections, 1)
  OBVIOUS
<1> HIDE DEF x, l, p, t
<1>7. x.auths = l /\ x.num_pending = p /\ x.total_connections = t
  BY <1>5 DEF States
<1>8. /\ x.peers = v.peers /\ x.cnt = v.cnt /\ x.available = v.available
      /\ x.started = v.started /\ x.extra = v.extra
  BY <1>5 DEF States
<1>9. x \in States(max)
  BY <1>2, <1>4, <1>5 DEF States
<1>10. Ended(v, i) = x
  BY DEF x
<1> QED
  BY <1>6, <1>7, <1>8, <1>9, <1>10

\* A handshake that ends leaves room for another connection.
LEMMA EndedSound ==
    ASSUME NEW g \in Worlds, NEW v, Sound(v, g), NEW i \in DOMAIN v.auths
    PROVE  /\ v.auths[i] \in Auths
           /\ v.started[v.auths[i].m] /\ Ended(v, i).started = v.started
           /\ Ended(v, i).peers = v.peers
           /\ Sound(Ended(v, i), g) /\ Room(Ended(v, i), v.auths[i].m, g)
<1> DEFINE m == v.auths[i].m
           x == Ended(v, i)
<1>1. v \in States(g.max_haves) /\ v.started[m]
  BY DEF Sound
<1>2. v.auths \in Seq(Auths) /\ i \in 1..Len(v.auths) /\ v.auths[i] \in Auths /\ m \in Managers
  <2>1. v.auths \in Seq(Auths)
    BY <1>1 DEF States
  <2>2. i \in 1..Len(v.auths) /\ v.auths[i] \in Auths
    BY <2>1
  <2>3. m \in Managers
    BY <2>2 DEF Auths
  <2> QED
    BY <2>1, <2>2, <2>3
<1>3. TorrentSound(v, m, g)
  BY <1>2 DEF Sound
<1>4. m = v.auths[i].m
  OBVIOUS
<1> HIDE DEF m
<1>5. /\ Len(v.auths) \in Nat /\ v.total_connections \in Nat /\ v.num_pending \in [Managers -> Nat]
      /\ \A n \in Managers : v.num_pending[n] \in Nat /\ Count(PendingIn(v.auths, n)) \in Nat
      /\ \A n \in Managers : v.num_pending[n] = Count(PendingIn(v.auths, n))
  BY <1>1, StateTyped DEF Sound, TorrentSound, States
<1>6. /\ RemoveAt(v.auths, i) \in Seq(Auths) /\ Len(RemoveAt(v.auths, i)) = Len(v.auths) - 1
      /\ \A j \in 1..(Len(v.auths) - 1) : RemoveAt(v.auths, i)[j] = v.auths[IF j < i THEN j ELSE j + 1]
  BY <1>2, Removed
<1>7. \A n \in Managers : Count(PendingIn(v.auths, n))
                            = Count(PendingIn(RemoveAt(v.auths, i), n)) + IF m = n THEN 1 ELSE 0
  BY <1>2, <1>4, PendingRemoved
<1>8. \A n \in Managers : Count(PendingIn(RemoveAt(v.auths, i), n)) \in Nat
  BY <1>6, PendingFinite
<1>9. v.num_pending[m] \in Nat \ {0}
  BY <1>2, <1>5, <1>7, <1>8
<1>10. /\ x \in States(g.max_haves)
       /\ x.peers = v.peers /\ x.cnt = v.cnt /\ x.available = v.available
       /\ x.started = v.started /\ x.extra = v.extra
       /\ x.auths = RemoveAt(v.auths, i)
       /\ x.num_pending = [v.num_pending EXCEPT ![m] = @ - 1]
       /\ x.total_connections = Less(v.total_connections, 1)
  BY <1>1, <1>4, <1>9, EndedIs
<1> HIDE DEF x
<1>11. \A n \in Managers : x.num_pending[n] = IF n = m THEN v.num_pending[n] - 1 ELSE v.num_pending[n]
  BY <1>5, <1>10
<1>12. Count(PendingIn(x.auths, m)) = Count(PendingIn(v.auths, m)) - 1
       /\ Count(PendingIn(x.auths, m)) \in Nat /\ x.num_pending[m] = Count(PendingIn(x.auths, m))
  <2>1. Count(PendingIn(v.auths, m)) = Count(PendingIn(RemoveAt(v.auths, i), m)) + 1
    BY <1>2, <1>7
  <2>2. Count(PendingIn(RemoveAt(v.auths, i), m)) \in Nat
    BY <1>2, <1>8
  <2>3. x.num_pending[m] = v.num_pending[m] - 1 /\ v.num_pending[m] = Count(PendingIn(v.auths, m))
    BY <1>2, <1>5, <1>11
  <2>4. x.auths = RemoveAt(v.auths, i)
    BY <1>10
  <2> QED
    BY <2>1, <2>2, <2>3, <2>4
<1>13. \A n \in Managers \ {m} : /\ x.num_pending[n] = v.num_pending[n]
                                 /\ Count(PendingIn(x.auths, n)) = Count(PendingIn(v.auths, n))
  BY <1>5, <1>7, <1>8, <1>10, <1>11
<1>14. \A j \in DOMAIN x.auths : x.started[x.auths[j].m]
  <2> SUFFICES ASSUME NEW j \in DOMAIN x.auths PROVE v.started[x.auths[j].m]
    BY <1>10
  <2>1. j \in 1..(Len(v.auths) - 1)
    BY <1>6, <1>10
  <2>2. (IF j < i THEN j ELSE j + 1) \in DOMAIN v.auths
    BY <1>2, <1>5, <2>1
  <2> QED
    BY <1>6, <1>10, <2>1, <2>2 DEF Sound
<1>15. Len(x.auths) = Len(v.auths) - 1
  BY <1>6, <1>10
<1>16. x.total_connections >= v.total_connections - 1
  BY <1>5, <1>10 DEF Less
<1>17. Sound(x, g)
  <2>1. x.total_connections \in Nat
    BY <1>10 DEF States
  <2>2. x.total_connections + Len(v.auths) >= v.total_connections + Len(x.auths)
    BY <1>5, <1>15, <1>16, <2>1
  <2>3. Count(PendingIn(x.auths, m)) <= Count(PendingIn(v.auths, m)) /\ Len(x.auths) <= Len(v.auths)
    BY <1>2, <1>5, <1>12, <1>15
  <2>4. /\ x.peers = v.peers /\ x.cnt = v.cnt /\ x.available = v.available
        /\ x.started = v.started /\ x.extra = v.extra
    BY <1>10
  <2>5. x \in States(g.max_haves) /\ v.started[m] /\ x.num_pending[m] = Count(PendingIn(x.auths, m))
    BY <1>1, <1>10, <1>12
  <2> QED
    BY <1>2, <1>13, <1>14, <2>2, <2>3, <2>4, <2>5, HandshakesChange
<1>18. Room(x, m, g)
  <2>1. Slack(x, g)
    <3>1. AliveOf(x) = AliveOf(v) /\ ExtraOf(x) = ExtraOf(v)
      BY <1>10 DEF AliveOf, ExtraOf
    <3>2. Count(Together(AliveOf(v))) + Len(v.auths)
            <= g.max_total_connections + Count(Together(ExtraOf(v)))
      BY DEF Sound
    <3>3. Count(Together(AliveOf(v))) \in Nat /\ Count(Together(ExtraOf(v))) \in Nat
          /\ g.max_total_connections \in Nat
      BY <1>1, LivingArePeers, SettingsTyped
    <3> QED
      BY <1>5, <1>15, <3>1, <3>2, <3>3, SMTT(30) DEF Slack
  <2>2. g.max_connections > 0 =>
          Count(Alive(x.peers[m])) + Count(PendingIn(x.auths, m)) < g.max_connections + x.extra[m]
    <3>1. g.max_connections \in Nat
      BY SettingsTyped
    <3>2. g.max_connections > 0 =>
            Count(Alive(v.peers[m])) + Count(PendingIn(v.auths, m)) <= g.max_connections + v.extra[m]
      BY <1>3 DEF TorrentSound
    <3>3. Count(Alive(v.peers[m])) \in Nat /\ v.extra[m] \in Nat /\ Count(PendingIn(v.auths, m)) \in Nat
      BY <1>1, <1>2, StateTyped
    <3>4. x.peers = v.peers /\ x.extra = v.extra
      BY <1>10
    <3> QED
      BY <1>12, <3>1, <3>2, <3>3, <3>4
  <2> QED
    BY <2>1, <2>2 DEF Room
<1> QED
  BY <1>1, <1>2, <1>10, <1>17, <1>18 DEF m, x

\* Nothing changes that is counted.
LEMMA Uncounted ==
    ASSUME NEW g \in Worlds, NEW v, Sound(v, g), NEW x \in States(g.max_haves),
           /\ x.peers = v.peers /\ x.cnt = v.cnt /\ x.available = v.available
           /\ x.started = v.started /\ x.extra = v.extra
           /\ x.auths = v.auths /\ x.num_pending = v.num_pending
           /\ x.total_connections = v.total_connections
    PROVE  Sound(x, g) /\ \A m : Room(v, m, g) => Room(x, m, g)
<1>1. AliveOf(x) = AliveOf(v) /\ ExtraOf(x) = ExtraOf(v)
  BY DEF AliveOf, ExtraOf
<1>2. \A m \in Managers : TorrentSound(x, m, g)
  BY DEF Sound, TorrentSound
<1>3. Sound(x, g)
  BY <1>1, <1>2 DEF Sound
<1> QED
  BY <1>1, <1>3 DEF Room, Slack

LEMMA CreatedSound ==
    ASSUME NEW g \in Worlds, NEW v, Sound(v, g), NEW m \in Managers, Room(v, m, g), v.started[m],
           NEW r \in RemoteSet, r # Self, NEW out \in BOOLEAN, \A p \in v.peers[m] : p.id # r
    PROVE  Sound(createPeer(v, m, r, out), g)
<1> DEFINE q == [id |-> r, out |-> out, killed |-> FALSE, has |-> {}, unchoked |-> FALSE]
           S == v.peers[m] \cup {q}
           f == [v.peers EXCEPT ![m] = S]
           t == v.total_connections + 1
           x == createPeer(v, m, r, out)
<1>1. v \in States(g.max_haves) /\ TorrentSound(v, m, g)
  BY DEF Sound
<1>2. q \in Peers /\ ~q.unchoked /\ q.has = {} /\ q.id # Self /\ \A p \in v.peers[m] : p.id # q.id
  BY DEF Peers
<1>3. PeerSet(v.peers[m]) /\ v.peers \in [Managers -> SUBSET Peers] /\ v.total_connections \in Nat
  BY <1>1 DEF TorrentSound, States
<1>4. x = [v EXCEPT !.peers = f, !.total_connections = t]
  BY <1>1 DEF createPeer, States
<1> HIDE DEF x, q
<1>5. /\ PeerSet(S) /\ Count(S) <= Count(v.peers[m]) + 1
      /\ Count(Alive(S)) <= Count(Alive(v.peers[m])) + 1
      /\ \A c : Count(Having(S, c)) = Count(Having(v.peers[m], c))
  BY <1>2, <1>3, PeerAdded
<1>6. S \subseteq Peers
  BY <1>2, <1>3
<1>7. f \in [Managers -> SUBSET Peers] /\ f[m] = S /\ (\A n \in Managers \ {m} : f[n] = v.peers[n])
      /\ t \in Nat /\ t = v.total_connections + 1
  BY <1>3, <1>6
<1> HIDE DEF f, t, S
<1>8. /\ x.peers = f /\ x.total_connections = t
      /\ x.cnt = v.cnt /\ x.available = v.available /\ x.started = v.started
      /\ x.extra = v.extra /\ x.num_pending = v.num_pending /\ x.auths = v.auths
  BY <1>1, <1>4 DEF States
<1>9. x \in States(g.max_haves)
  BY <1>1, <1>4, <1>7 DEF States
<1>10. SameBut(v, x, m)
  BY <1>7, <1>8 DEF SameBut
<1>11. /\ Count(v.peers[m]) \in Nat /\ Count(Alive(v.peers[m])) \in Nat /\ Len(v.auths) \in Nat
       /\ v.extra[m] \in Nat /\ Count(PendingIn(v.auths, m)) \in Nat
       /\ Count(S) \in Nat /\ Count(Alive(S)) \in Nat
  BY <1>1, <1>6, StateTyped, PeerSetCounts
<1>12. Balanced(v, x, m, g)
  <2>1. Slack(v, g)
    BY DEF Room
  <2>2. t + Count(v.peers[m]) + Len(v.auths) >= v.total_connections + Count(S) + Len(v.auths)
    <3> DEFINE a == Count(S)      b == Count(v.peers[m])
               c == Len(v.auths)  d == v.total_connections
    <3>1. {a, b, c, d} \subseteq Nat /\ a <= b + 1 /\ t = d + 1
      BY <1>3, <1>5, <1>7, <1>11
    <3> HIDE DEF a, b, c, d
    <3>2. t + b + c >= d + a + c
      BY <3>1
    <3> QED
      BY <3>2 DEF a, b, c, d
  <2>3. Count(Alive(S)) + Len(v.auths) <= Count(Alive(v.peers[m])) + Len(v.auths) + 1
    BY <1>5, <1>11, SMTT(30)
  <2>4. x.peers[m] = S /\ x.extra[m] = v.extra[m] /\ x.extra[m] >= v.extra[m]
    BY <1>7, <1>8, <1>11
  <2> QED
    BY <1>8, <2>1, <2>2, <2>3, <2>4 DEF Balanced
<1>13. TorrentSound(x, m, g)
  <2>1. Counted(S, v.cnt[m], v.available[m])
    BY <1>1, <1>5 DEF TorrentSound, Counted
  <2>2. g.max_connections > 0 =>
          Count(Alive(S)) + Count(PendingIn(v.auths, m)) <= g.max_connections + v.extra[m]
    <3>1. g.max_connections \in Nat
      BY SettingsTyped
    <3> DEFINE a == Count(Alive(S))     b == Count(Alive(v.peers[m]))
               c == g.max_connections   d == v.extra[m]   e == Count(PendingIn(v.auths, m))
    <3>2. {a, b, c, d, e} \subseteq Nat /\ a <= b + 1 /\ (c > 0 => b + e < c + d)
      BY <1>5, <1>11, <3>1 DEF Room
    <3> HIDE DEF a, b, c, d, e
    <3>3. c > 0 => a + e <= c + d
      BY <3>2
    <3> QED
      BY <3>3 DEF a, c, d, e
  <2>3. v.num_pending[m] = Count(PendingIn(v.auths, m))
    BY <1>1 DEF TorrentSound
  <2> QED
    BY <1>5, <1>7, <1>8, <2>1, <2>2, <2>3 DEF TorrentSound
<1>14. \A i \in DOMAIN x.auths : x.started[x.auths[i].m]
  BY <1>8 DEF Sound
<1>15. Sound(x, g)
  BY <1>9, <1>10, <1>12, <1>13, <1>14, OneTorrent
<1> QED
  BY <1>15 DEF x

\* onFinish: whatever comes of a handshake.
LEMMA FinishedSound ==
    ASSUME settings \in Worlds, NEW v, Sound(v, settings), NEW i \in DOMAIN v.auths,
           NEW ok \in BOOLEAN, ok => v.auths[i].r # Self, NEW outcome
    PROVE  Sound(Finished(v, i, ok, outcome), settings)
<1> DEFINE a == v.auths[i]
           u == Ended(v, i)
<1>1. /\ a \in Auths /\ v.started[a.m] /\ u.started = v.started /\ u.peers = v.peers
      /\ Sound(u, settings) /\ Room(u, a.m, settings)
  BY EndedSound
<1>2. a.m \in Managers /\ a.r \in RemoteSet /\ a.enc \in BOOLEAN
  BY <1>1 DEF Auths
<1>3. Finished(v, i, ok, outcome) =
        IF ~ok
        THEN IF a.enc /\ Unencrypted THEN NewAuth(u, a.m, a.r, FALSE, outcome) ELSE u
        ELSE IF connectedTo(u, a.m, a.r) THEN u ELSE createPeer(u, a.m, a.r, TRUE)
  BY DEF Finished, Ended
<1>4. ok => a.r # Self
  OBVIOUS
<1> HIDE DEF a, u
<1>5. Sound(NewAuth(u, a.m, a.r, FALSE, outcome), settings)
  BY <1>1, <1>2, NewAuthSound
<1>6. ASSUME ok, ~connectedTo(u, a.m, a.r)
      PROVE  Sound(createPeer(u, a.m, a.r, TRUE), settings)
  <2>1. \A p \in u.peers[a.m] : p.id # a.r
    BY <1>1, <1>6 DEF connectedTo
  <2>2. u.started[a.m]
    BY <1>1
  <2> QED
    BY <1>1, <1>2, <1>4, <1>6, <2>1, <2>2, CreatedSound
<1> QED
  BY <1>1, <1>3, <1>5, <1>6

\* Sockets that no longer connect.
LEMMA NotConnectingSound ==
    ASSUME NEW g \in Worlds, NEW v, Sound(v, g), NEW k \in Nat
    PROVE  Sound(NoLongerConnecting(v, k), g) /\ NoLongerConnecting(v, k).auths = v.auths
<1> DEFINE x == NoLongerConnecting(v, k)
           n == Less(v.num_connecting, k)
<1>1. v \in States(g.max_haves)
  BY DEF Sound
<1>2. n \in Nat
  BY <1>1 DEF States, Less
<1>3. x = [v EXCEPT !.num_connecting = n]
  BY <1>1 DEF NoLongerConnecting, States
<1> HIDE DEF x, n
<1>4. /\ x \in States(g.max_haves)
      /\ x.peers = v.peers /\ x.cnt = v.cnt /\ x.available = v.available
      /\ x.started = v.started /\ x.extra = v.extra
      /\ x.auths = v.auths /\ x.num_pending = v.num_pending
      /\ x.total_connections = v.total_connections
  BY <1>1, <1>2, <1>3 DEF States
<1>5. Sound(x, g)
  BY <1>4, Uncounted
<1> QED
  BY <1>4, <1>5 DEF x

\* A handshake that goes on.
LEMMA PhaseSound ==
    ASSUME NEW g \in Worlds, NEW v, Sound(v, g), NEW i \in DOMAIN v.auths,
           NEW phase \in {"connecting", "deaf", "hs", "part"} \cup EncStates
    PROVE  Sound([v EXCEPT !.auths[i].phase = phase], g)
<1> DEFINE b == [v.auths[i] EXCEPT !.phase = phase]
           l == [v.auths EXCEPT ![i] = b]
           x == [v EXCEPT !.auths[i].phase = phase]
<1>1. v \in States(g.max_haves) /\ v.auths \in Seq(Auths)
  BY DEF Sound, States
<1>2. v.auths[i] \in Auths /\ i \in 1..Len(v.auths)
  BY <1>1
<1>3. b \in Auths /\ b.m = v.auths[i].m
  BY <1>2 DEF Auths
<1>4. x = [v EXCEPT !.auths = l]
  BY <1>1, <1>2 DEF States
<1> HIDE DEF b, x
<1>5. l \in Seq(Auths) /\ Len(l) = Len(v.auths) /\ DOMAIN l = DOMAIN v.auths
      /\ \A j \in DOMAIN v.auths : l[j].m = v.auths[j].m
  BY <1>1, <1>2, <1>3
<1> HIDE DEF l
<1>6. /\ x \in States(g.max_haves) /\ x.auths = l
      /\ x.peers = v.peers /\ x.cnt = v.cnt /\ x.available = v.available
      /\ x.started = v.started /\ x.extra = v.extra
      /\ x.num_pending = v.num_pending /\ x.total_connections = v.total_connections
  BY <1>1, <1>4, <1>5 DEF States
<1>7. \A n : PendingIn(x.auths, n) = PendingIn(v.auths, n)
  BY <1>5, <1>6 DEF PendingIn
<1>8. AliveOf(x) = AliveOf(v) /\ ExtraOf(x) = ExtraOf(v)
  BY <1>6 DEF AliveOf, ExtraOf
<1>9. \A m \in Managers : TorrentSound(x, m, g)
  BY <1>6, <1>7 DEF Sound, TorrentSound
<1>10. \A j \in DOMAIN x.auths : x.started[x.auths[j].m]
  BY <1>5, <1>6 DEF Sound
<1>11. Sound(x, g)
  BY <1>5, <1>6, <1>8, <1>9, <1>10 DEF Sound
<1> QED
  BY <1>11 DEF x

-----------------------------------------------------------------------------
(* Peers change *)

\* What a torrent with fewer living peers, or one more that replaced a dead one, has
\* room for.
LEMMA MadeRoom ==
    ASSUME NEW g \in Worlds, NEW v, Sound(v, g), NEW x \in States(g.max_haves),
           NEW m \in Managers, SameBut(v, x, m), x.auths = v.auths,
           Count(Alive(x.peers[m])) + v.extra[m] + 1 <= Count(Alive(v.peers[m])) + x.extra[m]
    PROVE  Room(x, m, g)
<1>1. v \in States(g.max_haves) /\ TorrentSound(v, m, g)
  BY DEF Sound
<1> DEFINE av == Count(Together(AliveOf(v))) ax == Count(Together(AliveOf(x)))
           ev == Count(Together(ExtraOf(v))) ex == Count(Together(ExtraOf(x)))
           lv == Count(Alive(v.peers[m]))    lx == Count(Alive(x.peers[m]))
           xv == v.extra[m]                  xx == x.extra[m]
           h == Len(v.auths)                 n == Count(PendingIn(v.auths, m))
           max == g.max_total_connections    own == g.max_connections
<1>2. /\ {av, ax, ev, ex} \subseteq Nat
      /\ ax + lv = av + lx /\ ex + xv = ev + xx
  BY <1>1, SumsChange, LivingArePeers
<1>3. {lv, lx, xv, xx, h, n, max, own} \subseteq Nat
  BY <1>1, StateTyped, SettingsTyped
<1>4. av + h <= max + ev /\ (own > 0 => lv + n <= own + xv) /\ lx + xv + 1 <= lv + xx
  BY <1>1 DEF Sound, TorrentSound
<1>5. ax + h < max + ex /\ (own > 0 => lx + n < own + xx)
  <2> HIDE DEF av, ax, ev, ex, lv, lx, xv, xx, h, n, max, own
  <2> QED
    BY <1>2, <1>3, <1>4
<1> QED
  BY <1>5 DEF Room, Slack

\* The peers of one torrent change, and what is counted of their chunks.
PeersBecome(v, x, m, S, cnt, available) ==
    /\ x.peers = [v.peers EXCEPT ![m] = S]
    /\ x.cnt = [v.cnt EXCEPT ![m] = cnt]
    /\ x.available = [v.available EXCEPT ![m] = available]
    /\ x.started = v.started /\ x.extra = v.extra
    /\ x.auths = v.auths /\ x.num_pending = v.num_pending

LEMMA PeersBecomeSound ==
    ASSUME NEW g \in Worlds, NEW v, Sound(v, g), NEW x \in States(g.max_haves),
           NEW m \in Managers, v.started[m], NEW S, NEW cnt, NEW available,
           PeersBecome(v, x, m, S, cnt, available),
           PeerSet(S), Counted(S, cnt, available),
           Count(Alive(S)) <= Count(Alive(v.peers[m])),
           x.total_connections + Count(v.peers[m]) >= v.total_connections + Count(S)
    PROVE  Sound(x, g)
<1>1. v \in States(g.max_haves) /\ TorrentSound(v, m, g) /\ S \subseteq Peers
  BY DEF Sound, PeerSet
<1>2. /\ v.peers \in [Managers -> SUBSET Peers] /\ v.cnt \in [Managers -> [Chunks -> 0..g.max_haves]]
      /\ v.available \in [Managers -> SUBSET Chunks]
  BY <1>1 DEF States
<1>3. /\ x.peers[m] = S /\ x.cnt[m] = cnt /\ x.available[m] = available
      /\ \A n \in Managers \ {m} : /\ x.peers[n] = v.peers[n] /\ x.cnt[n] = v.cnt[n]
                                   /\ x.available[n] = v.available[n]
      /\ x.started = v.started /\ x.extra = v.extra
      /\ x.auths = v.auths /\ x.num_pending = v.num_pending
  BY <1>2 DEF PeersBecome
<1>4. SameBut(v, x, m)
  BY <1>3 DEF SameBut
<1> DEFINE a == Count(S)                       b == Count(v.peers[m])
           c == Count(Alive(S))                d == Count(Alive(v.peers[m]))
           tv == v.total_connections           tx == x.total_connections
           h == Len(v.auths)                   e == v.extra[m]
           n == Count(PendingIn(v.auths, m))   own == g.max_connections
<1>5. {a, b, c, d, tv, tx, h, e, n, own} \subseteq Nat
  BY <1>1, StateTyped, PeerSetCounts, SettingsTyped
<1>6. tx + b >= tv + a /\ c <= d /\ (own > 0 => d + n <= own + e)
  BY <1>1 DEF TorrentSound
<1>7. tx + b + h >= tv + a + h /\ c + h + e <= d + h + e /\ (own > 0 => c + n <= own + e)
  <2> HIDE DEF a, b, c, d, tv, tx, h, e, n, own
  <2> QED
    BY <1>5, <1>6
<1>8. Balanced(v, x, m, g)
  BY <1>3, <1>7 DEF Balanced
<1>9. TorrentSound(x, m, g)
  BY <1>1, <1>3, <1>7 DEF TorrentSound
<1>10. \A i \in DOMAIN x.auths : x.started[x.auths[i].m]
  BY <1>3 DEF Sound
<1> QED
  BY <1>4, <1>8, <1>9, <1>10, OneTorrent

\* A peer whose state changes, and the count of its chunks with it.
PeerBecomes(v, x, m, p, q, cnt, available, g) ==
    /\ p \in v.peers[m] /\ q \in Peers
    /\ q.id = p.id /\ q.unchoked = p.unchoked /\ (p.killed => q.killed)
    /\ cnt \in [Chunks -> 0..g.max_haves]
    /\ available = {c \in Chunks : cnt[c] > 0}
    /\ \A c \in Chunks : \/ cnt[c] = v.cnt[m][c] /\ (c \in q.has => c \in p.has)
                         \/ cnt[c] = v.cnt[m][c] + 1
    /\ x = [v EXCEPT !.peers[m] = (@ \ {p}) \cup {q}, !.cnt[m] = cnt, !.available[m] = available]

LEMMA ChangedSound ==
    ASSUME NEW g \in Worlds, NEW v, Sound(v, g), NEW m \in Managers, NEW x,
           NEW p, NEW q, NEW cnt, NEW available, PeerBecomes(v, x, m, p, q, cnt, available, g)
    PROVE  /\ Sound(x, g)
           /\ ~p.killed /\ q.killed => Room(x, m, g)
           /\ x.started = v.started /\ x.peers[m] = (v.peers[m] \ {p}) \cup {q}
<1>0. /\ p \in v.peers[m] /\ q \in Peers
      /\ q.id = p.id /\ q.unchoked = p.unchoked /\ (p.killed => q.killed)
      /\ cnt \in [Chunks -> 0..g.max_haves]
      /\ available = {c \in Chunks : cnt[c] > 0}
      /\ \A c \in Chunks : \/ cnt[c] = v.cnt[m][c] /\ (c \in q.has => c \in p.has)
                           \/ cnt[c] = v.cnt[m][c] + 1
      /\ x = [v EXCEPT !.peers[m] = (@ \ {p}) \cup {q}, !.cnt[m] = cnt, !.available[m] = available]
  BY DEF PeerBecomes
<1> DEFINE S == (v.peers[m] \ {p}) \cup {q}
<1>1. /\ v \in States(g.max_haves) /\ TorrentSound(v, m, g) /\ PeerSet(v.peers[m])
      /\ Counted(v.peers[m], v.cnt[m], v.available[m])
  BY DEF Sound, TorrentSound
<1>2. v.started[m]
  BY <1>0, <1>1 DEF TorrentSound
<1>3. /\ PeerSet(S) /\ Count(S) <= Count(v.peers[m]) /\ Count(Alive(S)) <= Count(Alive(v.peers[m]))
      /\ ~p.killed /\ q.killed => Count(Alive(S)) + 1 <= Count(Alive(v.peers[m]))
      /\ \A c : (c \in q.has => c \in p.has)
                   => Count(Having(S, c)) <= Count(Having(v.peers[m], c))
      /\ \A c : Count(Having(S, c)) <= Count(Having(v.peers[m], c)) + 1
  BY <1>0, <1>1, PeerChanged
<1>4. S \subseteq Peers /\ v.peers[m] \subseteq Peers
  BY <1>1, <1>3 DEF PeerSet
<1>5. Counted(S, cnt, available)
  <2>1. ASSUME NEW c \in Chunks PROVE cnt[c] >= Count(Having(S, c))
    <3>1. v.cnt[m][c] >= Count(Having(v.peers[m], c))
      BY <1>1 DEF Counted
    <3>2. v.cnt[m][c] \in Nat
      <4>1. v.cnt[m] \in [Chunks -> 0..g.max_haves] /\ g.max_haves \in Nat
        BY <1>1, SettingsTyped DEF States
      <4> QED
        BY <4>1
    <3>3. Count(Having(S, c)) \in Nat /\ Count(Having(v.peers[m], c)) \in Nat
      BY <1>4, PeerSetCounts
    <3>4. CASE cnt[c] = v.cnt[m][c] /\ (c \in q.has => c \in p.has)
      <4>1. Count(Having(S, c)) <= Count(Having(v.peers[m], c))
        BY <1>3, <3>4
      <4> QED
        BY <3>1, <3>2, <3>3, <3>4, <4>1
    <3>5. CASE cnt[c] = v.cnt[m][c] + 1
      <4>1. Count(Having(S, c)) <= Count(Having(v.peers[m], c)) + 1
        BY <1>3
      <4> QED
        BY <3>1, <3>2, <3>3, <3>5, <4>1
    <3> QED
      BY <1>0, <3>4, <3>5
  <2> QED
    BY <1>0, <2>1 DEF Counted
<1> DEFINE f == [v.peers EXCEPT ![m] = S]
           k == [v.cnt EXCEPT ![m] = cnt]
           b == [v.available EXCEPT ![m] = available]
<1>6. /\ v.peers \in [Managers -> SUBSET Peers] /\ v.cnt \in [Managers -> [Chunks -> 0..g.max_haves]]
      /\ v.available \in [Managers -> SUBSET Chunks] /\ available \subseteq Chunks
  BY <1>0, <1>1 DEF States
<1>7. f \in [Managers -> SUBSET Peers] /\ k \in [Managers -> [Chunks -> 0..g.max_haves]]
      /\ b \in [Managers -> SUBSET Chunks] /\ f[m] = S
  BY <1>0, <1>4, <1>6
<1>8. x = [v EXCEPT !.peers = f, !.cnt = k, !.available = b]
  BY <1>0, <1>1, <1>6 DEF States
<1>9. /\ f = [v.peers EXCEPT ![m] = S] /\ k = [v.cnt EXCEPT ![m] = cnt]
      /\ b = [v.available EXCEPT ![m] = available]
  OBVIOUS
<1> HIDE DEF f, k, b, S
<1>10. /\ x.peers = f /\ x.cnt = k /\ x.available = b /\ x.started = v.started /\ x.extra = v.extra
       /\ x.auths = v.auths /\ x.num_pending = v.num_pending
       /\ x.total_connections = v.total_connections
  BY <1>1, <1>8 DEF States
<1>11. x \in States(g.max_haves)
  BY <1>1, <1>7, <1>8 DEF States
<1>12. PeersBecome(v, x, m, S, cnt, available)
  BY <1>9, <1>10 DEF PeersBecome
<1>13. x.total_connections + Count(v.peers[m]) >= v.total_connections + Count(S)
  <2>1. v.total_connections \in Nat /\ Count(v.peers[m]) \in Nat /\ Count(S) \in Nat
    BY <1>1, <1>4, StateTyped, PeerSetCounts
  <2> QED
    BY <1>3, <1>10, <2>1
<1>14. Sound(x, g)
  BY <1>2, <1>3, <1>5, <1>11, <1>12, <1>13, PeersBecomeSound
<1>15. ASSUME ~p.killed /\ q.killed PROVE Room(x, m, g)
  <2>1. SameBut(v, x, m)
    BY <1>6, <1>9, <1>10 DEF SameBut
  <2>2. x.peers[m] = S /\ x.extra[m] = v.extra[m] /\ v.extra[m] \in Nat
    BY <1>1, <1>7, <1>10, StateTyped
  <2>3. Count(Alive(S)) \in Nat /\ Count(Alive(v.peers[m])) \in Nat
    BY <1>4, PeerSetCounts
  <2>4. Count(Alive(x.peers[m])) + v.extra[m] + 1 <= Count(Alive(v.peers[m])) + x.extra[m]
    BY <1>3, <1>15, <2>2, <2>3
  <2> QED
    BY <1>10, <1>11, <2>1, <2>4, MadeRoom
<1> QED
  BY <1>7, <1>10, <1>14, <1>15 DEF S

\* killBadPeer makes room for the new connection.
LEMMA KillBadSound ==
    ASSUME NEW g \in Worlds, NEW v, Sound(v, g), NEW m \in Managers, NEW p \in v.peers[m]
    PROVE  LET x == killBadPeer(v, m, p)
           IN  /\ Sound(x, g) /\ Room(x, m, g) /\ x.started = v.started
               /\ \A a \in x.peers[m] : \E b \in v.peers[m] : a.id = b.id
<1> DEFINE q == [p EXCEPT !.killed = TRUE]
           x == killBadPeer(v, m, p)
<1>1. /\ v \in States(g.max_haves) /\ v.peers[m] \subseteq Peers
      /\ Counted(v.peers[m], v.cnt[m], v.available[m]) /\ TorrentSound(v, m, g)
  BY DEF Sound, TorrentSound, PeerSet
<1>2. /\ p \in Peers /\ q \in Peers /\ q.id = p.id /\ q.unchoked = p.unchoked /\ q.has = p.has /\ q.killed
  BY <1>1 DEF Peers
<1>3. /\ v.peers \in [Managers -> SUBSET Peers] /\ v.cnt \in [Managers -> [Chunks -> 0..g.max_haves]]
      /\ v.available \in [Managers -> SUBSET Chunks] /\ v.extra \in [Managers -> Nat]
  BY <1>1 DEF States
<1>4. CASE ~p.killed
  <2>1. x = [v EXCEPT !.peers[m] = (@ \ {p}) \cup {q}, !.extra[m] = @]
    BY <1>4 DEF killBadPeer
  <2> HIDE DEF q
  <2>2. x = [v EXCEPT !.peers[m] = (@ \ {p}) \cup {q}, !.cnt[m] = v.cnt[m],
                      !.available[m] = v.available[m]]
    <3> DEFINE f == [v.peers EXCEPT ![m] = (@ \ {p}) \cup {q}]
    <3>1. /\ [v.extra EXCEPT ![m] = v.extra[m]] = v.extra
          /\ [v.cnt EXCEPT ![m] = v.cnt[m]] = v.cnt
          /\ [v.available EXCEPT ![m] = v.available[m]] = v.available
      BY <1>3
    <3>2. x = [v EXCEPT !.peers = f, !.extra = [v.extra EXCEPT ![m] = v.extra[m]]]
      BY <1>1, <2>1 DEF States
    <3>3. [v EXCEPT !.peers[m] = (@ \ {p}) \cup {q}, !.cnt[m] = v.cnt[m], !.available[m] = v.available[m]]
            = [v EXCEPT !.peers = f, !.cnt = [v.cnt EXCEPT ![m] = v.cnt[m]],
                        !.available = [v.available EXCEPT ![m] = v.available[m]]]
      BY <1>1 DEF States
    <3> HIDE DEF f
    <3>4. [v EXCEPT !.peers = f, !.extra = v.extra]
            = [v EXCEPT !.peers = f, !.cnt = v.cnt, !.available = v.available]
      BY <1>1 DEF States
    <3> QED
      BY <3>1, <3>2, <3>3, <3>4
  <2> HIDE DEF x
  <2>3. v.cnt[m] \in [Chunks -> 0..g.max_haves] /\ v.available[m] = {c \in Chunks : v.cnt[m][c] > 0}
    BY <1>1, <1>3 DEF Counted
  <2>4. /\ Sound(x, g) /\ Room(x, m, g) /\ x.started = v.started
        /\ x.peers[m] = (v.peers[m] \ {p}) \cup {q}
    <3> DEFINE k == v.cnt[m]  b == v.available[m]
    <3>1. \A c \in Chunks : \/ k[c] = v.cnt[m][c] /\ (c \in q.has => c \in p.has)
                            \/ k[c] = v.cnt[m][c] + 1
      BY <1>2
    <3>2. /\ x = [v EXCEPT !.peers[m] = (@ \ {p}) \cup {q}, !.cnt[m] = k, !.available[m] = b]
          /\ k \in [Chunks -> 0..g.max_haves] /\ b = {c \in Chunks : k[c] > 0}
      BY <2>2, <2>3
    <3>3. q \in Peers /\ q.id = p.id /\ q.unchoked = p.unchoked /\ (p.killed => q.killed)
          /\ ~p.killed /\ q.killed
      BY <1>2, <1>4
    <3> HIDE DEF k, b
    <3>4. PeerBecomes(v, x, m, p, q, k, b, g)
      BY <3>1, <3>2, <3>3 DEF PeerBecomes
    <3> QED
      BY <3>3, <3>4, ChangedSound
  <2> QED
    BY <1>2, <2>4 DEF x
<1>5. CASE p.killed
  <2>1. q = p
    BY <1>2, <1>5 DEF Peers
  <2> DEFINE e == [v.extra EXCEPT ![m] = @ + 1]
  <2>2. (v.peers[m] \ {p}) \cup {q} = v.peers[m] /\ v.peers = [v.peers EXCEPT ![m] = v.peers[m]]
    BY <1>3, <2>1
  <2>3. x = [v EXCEPT !.peers[m] = (v.peers[m] \ {p}) \cup {q}, !.extra[m] = @ + 1]
    BY <1>5 DEF killBadPeer
  <2> HIDE DEF q, x
  <2>4. x = [v EXCEPT !.extra = e]
    BY <1>1, <2>2, <2>3 DEF States
  <2>5. /\ e \in [Managers -> Nat] /\ e[m] = v.extra[m] + 1 /\ v.extra[m] \in Nat
        /\ \A n \in Managers \ {m} : e[n] = v.extra[n]
    BY <1>3
  <2> HIDE DEF e
  <2>6. /\ x \in States(g.max_haves) /\ x.extra = e
        /\ x.peers = v.peers /\ x.cnt = v.cnt /\ x.available = v.available
        /\ x.started = v.started /\ x.auths = v.auths /\ x.num_pending = v.num_pending
        /\ x.total_connections = v.total_connections
    BY <1>1, <2>4, <2>5 DEF States
  <2>7. SameBut(v, x, m)
    BY <2>5, <2>6 DEF SameBut
  <2> DEFINE a == Count(Alive(v.peers[m]))  b == Count(v.peers[m])  h == Len(v.auths)
             d == v.extra[m]                k == e[m]               t == v.total_connections
             c == Count(PendingIn(v.auths, m))                      own == g.max_connections
  <2>8. {a, b, c, h, d, k, t, own} \subseteq Nat /\ k = d + 1 /\ (own > 0 => a + c <= own + d)
    BY <1>1, <2>5, StateTyped, SettingsTyped DEF TorrentSound
  <2>9. /\ t + b + h >= t + b + h /\ a + h + d <= a + h + k /\ a + d + 1 <= a + k
        /\ (own > 0 => a + c <= own + k)
    <3> HIDE DEF a, b, c, h, d, k, t, own
    <3> QED
      BY <2>8
  <2>10. Balanced(v, x, m, g)
    BY <2>6, <2>9 DEF Balanced
  <2>11. TorrentSound(x, m, g)
    BY <1>1, <2>6, <2>9 DEF TorrentSound
  <2>12. \A i \in DOMAIN x.auths : x.started[x.auths[i].m]
    BY <2>6 DEF Sound
  <2>13. Sound(x, g)
    BY <2>6, <2>7, <2>10, <2>11, <2>12, OneTorrent
  <2>14. Room(x, m, g)
    <3>1. Count(Alive(x.peers[m])) + v.extra[m] + 1 <= Count(Alive(v.peers[m])) + x.extra[m]
      BY <2>6, <2>9
    <3> QED
      BY <2>6, <2>7, <3>1, MadeRoom
  <2> QED
    BY <2>6, <2>13, <2>14 DEF x
<1> QED
  BY <1>4, <1>5

-----------------------------------------------------------------------------
(* An update *)

LEMMA RemoveKilledSound ==
    ASSUME NEW g \in Worlds, NEW v, Sound(v, g), NEW m \in Managers, v.started[m]
    PROVE  Sound(RemoveKilled(v, m), g) /\ RemoveKilled(v, m).started = v.started
<1> DEFINE P == v.peers[m]
           dead == {p \in P : p.killed}
           lost(c) == Count({p \in dead : c \in p.has})
           cnt == [c \in Chunks |-> Less(v.cnt[m][c], lost(c))]
           S == P \ dead
           available == {c \in Chunks : cnt[c] > 0}
           t == Less(v.total_connections, Count(dead))
           x == RemoveKilled(v, m)
<1>1. /\ v \in States(g.max_haves) /\ TorrentSound(v, m, g) /\ PeerSet(P)
      /\ Counted(P, v.cnt[m], v.available[m]) /\ P \subseteq Peers
      /\ v.cnt[m] \in [Chunks -> 0..g.max_haves] /\ g.max_haves \in Nat
  BY SettingsTyped DEF Sound, TorrentSound, PeerSet, States
<1>2. CASE dead = {}
  BY <1>2 DEF RemoveKilled
<1>3. CASE dead # {}
  <2>1. x = [v EXCEPT !.peers[m] = S, !.cnt[m] = cnt, !.available[m] = available, !.total_connections = t]
    BY <1>3 DEF RemoveKilled
  <2>2. \A c \in Chunks : /\ Having(P, c) = {p \in dead : c \in p.has} \cup Having(S, c)
                          /\ {p \in dead : c \in p.has} \cap Having(S, c) = {}
    BY DEF Having
  <2>3. /\ dead \subseteq Peers /\ S \subseteq Peers /\ P = dead \cup S /\ dead \cap S = {}
        /\ \A c : {p \in dead : c \in p.has} \subseteq Peers /\ Having(S, c) \subseteq Peers
    BY <1>1 DEF Having
  <2>4. \A c \in Chunks : /\ Count(Having(P, c)) = lost(c) + Count(Having(S, c))
                          /\ lost(c) \in Nat /\ Count(Having(S, c)) \in Nat
    <3> SUFFICES ASSUME NEW c \in Chunks
                 PROVE  /\ Count(Having(P, c)) = lost(c) + Count(Having(S, c))
                        /\ lost(c) \in Nat /\ Count(Having(S, c)) \in Nat
      OBVIOUS
    <3> DEFINE A == {p \in dead : c \in p.has}
    <3>1. Having(P, c) = A \cup Having(S, c) /\ A \cap Having(S, c) = {}
      BY <2>2
    <3>2. IsFiniteSet(A) /\ IsFiniteSet(Having(S, c))
      BY <2>3, Finite
    <3>3. lost(c) = Count(A)
      OBVIOUS
    <3> HIDE DEF A, lost
    <3> QED
      BY <3>1, <3>2, <3>3, Apart
  <2>5. Count(P) = Count(dead) + Count(S) /\ Count(dead) \in Nat /\ Count(S) \in Nat
    <3>1. IsFiniteSet(dead) /\ IsFiniteSet(S)
      BY <2>3, Finite
    <3> HIDE DEF dead, S, P
    <3> QED
      BY <2>3, <3>1, Apart
  <2>6. PeerSet(S) /\ Count(Alive(S)) <= Count(Alive(P))
    BY <1>1, PeersGone
  <2>7. v.total_connections \in Nat
    BY <1>1 DEF States
  <2> HIDE DEF dead, S, P, lost
  <2>8. cnt \in [Chunks -> 0..g.max_haves] /\ \A c \in Chunks : cnt[c] >= Count(Having(S, c))
    <3> SUFFICES ASSUME NEW c \in Chunks
                 PROVE  cnt[c] \in 0..g.max_haves /\ cnt[c] >= Count(Having(S, c))
      OBVIOUS
    <3>1. cnt[c] = Less(v.cnt[m][c], lost(c))
      OBVIOUS
    <3> HIDE DEF cnt
    <3>2. v.cnt[m][c] \in 0..g.max_haves /\ v.cnt[m][c] >= Count(Having(P, c))
      BY <1>1 DEF Counted
    <3>3. /\ Count(Having(P, c)) = lost(c) + Count(Having(S, c))
          /\ lost(c) \in Nat /\ Count(Having(S, c)) \in Nat
      BY <2>4
    <3> DEFINE a == v.cnt[m][c]  b == lost(c)  d == Count(Having(S, c))
    <3>4. a \in 0..g.max_haves /\ b \in Nat /\ d \in Nat /\ a >= b + d /\ cnt[c] = Less(a, b)
      BY <3>1, <3>2, <3>3
    <3> HIDE DEF a, b, d
    <3>5. cnt[c] \in 0..g.max_haves /\ cnt[c] >= d
      BY <1>1, <3>4 DEF Less
    <3> QED
      BY <3>5 DEF d
  <2>9. Counted(S, cnt, available)
    <3> HIDE DEF cnt
    <3> QED
      BY <2>8 DEF Counted
  <2>10. t \in Nat /\ t + Count(P) >= v.total_connections + Count(S)
    <3> DEFINE a == v.total_connections  b == Count(dead)  d == Count(S)  e == Count(P)
    <3>1. {a, b, d} \subseteq Nat /\ e = b + d /\ t = Less(a, b)
      BY <2>5, <2>7
    <3> HIDE DEF a, b, d, e, t
    <3>2. t \in Nat /\ t + e >= a + d
      BY <3>1 DEF Less
    <3> QED
      BY <3>2 DEF a, d, e
  <2> DEFINE f == [v.peers EXCEPT ![m] = S]
             k == [v.cnt EXCEPT ![m] = cnt]
             b == [v.available EXCEPT ![m] = available]
  <2>11. available \subseteq Chunks
    OBVIOUS
  <2> HIDE DEF cnt, t, available
  <2>12. /\ v.peers \in [Managers -> SUBSET Peers] /\ v.cnt \in [Managers -> [Chunks -> 0..g.max_haves]]
         /\ v.available \in [Managers -> SUBSET Chunks]
    BY <1>1 DEF States
  <2>13. f \in [Managers -> SUBSET Peers] /\ k \in [Managers -> [Chunks -> 0..g.max_haves]]
         /\ b \in [Managers -> SUBSET Chunks]
    BY <2>3, <2>8, <2>11, <2>12
  <2>14. x = [v EXCEPT !.peers = f, !.cnt = k, !.available = b, !.total_connections = t]
    BY <1>1, <2>1 DEF States
  <2>15. /\ f = [v.peers EXCEPT ![m] = S] /\ k = [v.cnt EXCEPT ![m] = cnt]
         /\ b = [v.available EXCEPT ![m] = available]
    OBVIOUS
  <2> HIDE DEF f, k, b, x
  <2>16. /\ x.peers = f /\ x.cnt = k /\ x.available = b /\ x.started = v.started /\ x.extra = v.extra
         /\ x.auths = v.auths /\ x.num_pending = v.num_pending /\ x.total_connections = t
    BY <1>1, <2>14 DEF States
  <2>17. x \in States(g.max_haves)
    BY <1>1, <2>10, <2>13, <2>14 DEF States
  <2>18. PeersBecome(v, x, m, S, cnt, available)
    BY <2>15, <2>16 DEF PeersBecome
  <2>19. Sound(x, g)
    BY <2>6, <2>9, <2>10, <2>16, <2>17, <2>18, PeersBecomeSound DEF P
  <2> QED
    BY <2>16, <2>19 DEF x
<1> QED
  BY <1>2, <1>3

LEMMA ImageFewer ==
    ASSUME NEW S, IsFiniteSet(S), NEW f, NEW X, X = {f[p] : p \in S},
           NEW A \in SUBSET S, NEW B \in SUBSET X, \A p \in S : f[p] \in B => p \in A
    PROVE  Count(B) <= Count(A) /\ Count(B) \in Nat /\ Count(A) \in Nat
<1> DEFINE C == {p \in A : f[p] \in B}
           h == [p \in C |-> f[p]]
<1>1. h \in Surjection(C, B)
  BY DEF Surjection
<1>2. IsFiniteSet(A) /\ C \in SUBSET A
  BY FS_Subset
<1> HIDE DEF h, C
<1>3. IsFiniteSet(C) /\ Count(C) <= Count(A) /\ Count(C) \in Nat /\ Count(A) \in Nat
  BY <1>2, Fewer
<1>4. Cardinality(B) <= Cardinality(C) /\ IsFiniteSet(B)
  BY <1>1, <1>3, FS_Surjection
<1>5. Cardinality(B) \in Nat
  BY <1>4, FS_CardinalityType
<1> QED
  BY <1>3, <1>4, <1>5 DEF Count

\* The states of the peers change, but not who they are and what they have.
LEMMA PeersMapped ==
    ASSUME NEW S, PeerSet(S), NEW f \in [S -> Peers], NEW X, X = {f[p] : p \in S},
           \A p \in S : f[p].id = p.id /\ f[p].has = p.has /\ (p.killed => f[p].killed),
           Count(Served(X)) <= Slots
    PROVE  /\ PeerSet(X) /\ Count(X) <= Count(S) /\ Count(Alive(X)) <= Count(Alive(S))
           /\ \A c : Count(Having(X, c)) <= Count(Having(S, c))
<1>1. S \subseteq Peers /\ X \subseteq Peers
  BY DEF PeerSet
<1>2. PeerSet(X)
  BY <1>1 DEF PeerSet
<1>3. ASSUME NEW A \in SUBSET S, NEW B \in SUBSET X, \A p \in S : f[p] \in B => p \in A
      PROVE  Count(B) <= Count(A)
  <2>1. IsFiniteSet(S)
    BY <1>1, Finite
  <2> QED
    BY <1>3, <2>1, ImageFewer
<1>4. Count(X) <= Count(S)
  <2>1. S \in SUBSET S /\ X \in SUBSET X /\ \A p \in S : f[p] \in X => p \in S
    OBVIOUS
  <2> QED
    BY <1>3, <2>1
<1>5. Count(Alive(X)) <= Count(Alive(S))
  <2>1. Alive(S) \in SUBSET S /\ Alive(X) \in SUBSET X
    BY DEF Alive
  <2>2. \A p \in S : f[p] \in Alive(X) => p \in Alive(S)
    BY DEF Alive
  <2> QED
    BY <1>3, <2>1, <2>2
<1>6. ASSUME NEW c PROVE Count(Having(X, c)) <= Count(Having(S, c))
  <2>1. Having(S, c) \in SUBSET S /\ Having(X, c) \in SUBSET X
    BY DEF Having
  <2>2. \A p \in S : f[p] \in Having(X, c) => p \in Having(S, c)
    BY DEF Having
  <2> QED
    BY <1>3, <2>1, <2>2
<1> QED
  BY <1>2, <1>4, <1>5, <1>6

LEMMA SeedersKilled ==
    ASSUME NEW S, PeerSet(S), NEW X, X = killSeeders(S)
    PROVE  /\ PeerSet(X) /\ Count(X) <= Count(S) /\ Count(Alive(X)) <= Count(Alive(S))
           /\ \A c : Count(Having(X, c)) <= Count(Having(S, c))
<1> DEFINE f == [p \in S |-> IF p.has = Chunks THEN [p EXCEPT !.killed = TRUE] ELSE p]
<1>1. S \subseteq Peers /\ Count(Served(S)) <= Slots /\ Slots \in Nat
  BY PeerManagerConstants DEF PeerSet
<1>2. X = {f[p] : p \in S}
  BY DEF killSeeders
<1>3. \A p \in S : f[p] = IF p.has = Chunks THEN [p EXCEPT !.killed = TRUE] ELSE p
  OBVIOUS
<1>4. \A p \in S : /\ f[p] \in Peers /\ f[p].id = p.id /\ f[p].has = p.has
                   /\ (p.killed => f[p].killed) /\ f[p].unchoked = p.unchoked
  <2> HIDE DEF f
  <2> SUFFICES ASSUME NEW p \in S
               PROVE  /\ f[p] \in Peers /\ f[p].id = p.id /\ f[p].has = p.has
                      /\ (p.killed => f[p].killed) /\ f[p].unchoked = p.unchoked
    OBVIOUS
  <2>1. p \in Peers
    BY <1>1
  <2>2. CASE p.has = Chunks
    <3>1. f[p] = [p EXCEPT !.killed = TRUE]
      BY <1>3, <2>2
    <3> QED
      BY <2>1, <3>1 DEF Peers
  <2>3. CASE p.has # Chunks
    BY <1>3, <2>1, <2>3
  <2> QED
    BY <2>2, <2>3
<1>5. f \in [S -> Peers]
  BY <1>4
<1> HIDE DEF f
<1>6. Count(Served(X)) <= Slots
  <2>1. IsFiniteSet(S) /\ Served(S) \in SUBSET S /\ Served(X) \in SUBSET X
    BY <1>1, Finite DEF Served
  <2>2. \A p \in S : f[p] \in Served(X) => p \in Served(S)
    BY <1>4 DEF Served
  <2>3. Count(Served(X)) <= Count(Served(S)) /\ Count(Served(X)) \in Nat /\ Count(Served(S)) \in Nat
    BY <1>2, <2>1, <2>2, ImageFewer
  <2> QED
    BY <1>1, <2>3
<1> QED
  BY <1>2, <1>4, <1>5, <1>6, PeersMapped

\* No more peers are chosen than there are slots.
LEMMA SlotsAreEnough ==
    ASSUME NEW S, S \subseteq Peers, NEW U \in Unchokings(S)
    PROVE  IsFiniteSet(U) /\ Count(U) <= Slots /\ Count(U) \in Nat
<1> DEFINE ids == {p.id : p \in S}
           wanted == {p.id : p \in {q \in S : q.has # Chunks}}
<1>1. PICK e \in SUBSET wanted, o \in ids \cup {None} : U \in Unchoked(e, o)
  BY DEF Unchokings
<1>2. ids \subseteq RemoteSet /\ wanted \subseteq RemoteSet
  BY DEF Peers
<1> DEFINE others == e \ {o}
           rest == e \ others
           slots == IF o = None THEN Slots ELSE Slots - 1
<1>3. PICK best \in kSubset(Min({slots, Count(others)}), others) : U = best \cup rest
  BY <1>1 DEF Unchoked
<1>4. IsFiniteSet(e) /\ IsFiniteSet(others) /\ IsFiniteSet(rest)
  <2>1. IsFiniteSet(e)
    BY <1>2, Finite, FS_Subset
  <2> QED
    BY <2>1, FS_Subset
<1>5. rest \subseteq {o} /\ (o = None => rest = {})
  BY <1>2, PeerManagerConstants
<1>6. Count(rest) \in Nat /\ Count(rest) <= 1 /\ (o = None => Count(rest) = 0)
  <2>1. IsFiniteSet({o}) /\ Count({o}) = 1 /\ Count({}) = 0
    BY FS_Singleton, FS_EmptySet DEF Count
  <2>2. Count(rest) \in Nat /\ Count(rest) <= Count({o})
    BY <1>5, <2>1, Fewer
  <2>3. o = None => Count(rest) = 0
    BY <1>5, <2>1, Zenon
  <2> QED
    BY <2>1, <2>2, <2>3
<1>7. Slots \in Nat \ {0} /\ slots \in Nat
  BY PeerManagerConstants
<1>8. Count(others) \in Nat
  BY <1>4, FS_CardinalityType DEF Count
<1> HIDE DEF others, rest
<1>9. Min({slots, Count(others)}) <= slots
  <2> DEFINE k == Count(others)
  <2>1. k \in Nat
    BY <1>8
  <2> HIDE DEF k, slots
  <2>2. \E a \in {slots, k} : \A b \in {slots, k} : a <= b
    BY <1>7, <2>1
  <2>3. \A b \in {slots, k} : Min({slots, k}) <= b
    BY <2>2 DEF Min
  <2> QED
    BY <2>3 DEF k
<1>10. best \in SUBSET others /\ Count(best) = Min({slots, Count(others)})
  BY <1>3 DEF kSubset, Count
<1>11. IsFiniteSet(best) /\ Count(best) \in Nat /\ Count(best) <= slots
  BY <1>4, <1>9, <1>10, Fewer
<1>12. /\ IsFiniteSet(best \cup rest) /\ Count(best \cup rest) \in Nat
       /\ Count(best \cup rest) <= Count(best) + Count(rest)
  <2>1. IsFiniteSet(best \cup rest)
        /\ Cardinality(best \cup rest) = Cardinality(best) + Cardinality(rest) - Cardinality(best \cap rest)
    BY <1>4, <1>11, FS_Union
  <2>2. IsFiniteSet(best \cap rest)
    BY <1>11, FS_Intersection
  <2>3. Cardinality(best \cap rest) \in Nat /\ Cardinality(best \cup rest) \in Nat
    BY <2>1, <2>2, FS_CardinalityType
  <2>4. Cardinality(best) \in Nat /\ Cardinality(rest) \in Nat
    BY <1>6, <1>11 DEF Count
  <2> QED
    BY <2>1, <2>3, <2>4 DEF Count
<1>13. Count(best) + Count(rest) <= Slots
  BY <1>6, <1>7, <1>11
<1> QED
  BY <1>3, <1>6, <1>7, <1>11, <1>12, <1>13

LEMMA ChokedPeers ==
    ASSUME NEW S, PeerSet(S), NEW U \in Unchokings(S),
           NEW X, X = {[p EXCEPT !.unchoked = p.id \in U] : p \in S}
    PROVE  /\ PeerSet(X) /\ Count(X) <= Count(S) /\ Count(Alive(X)) <= Count(Alive(S))
           /\ \A c : Count(Having(X, c)) <= Count(Having(S, c))
<1> DEFINE f == [p \in S |-> [p EXCEPT !.unchoked = p.id \in U]]
<1>1. S \subseteq Peers
  BY DEF PeerSet
<1>2. X = {f[p] : p \in S}
  OBVIOUS
<1>3. \A p \in S : f[p] = [p EXCEPT !.unchoked = p.id \in U]
  OBVIOUS
<1> HIDE DEF f
<1>4. \A p \in S : /\ f[p] \in Peers /\ f[p].id = p.id /\ f[p].has = p.has
                   /\ (p.killed => f[p].killed) /\ (f[p].unchoked <=> p.id \in U)
  <2> SUFFICES ASSUME NEW p \in S
               PROVE  /\ f[p] \in Peers /\ f[p].id = p.id /\ f[p].has = p.has
                      /\ (p.killed => f[p].killed) /\ (f[p].unchoked <=> p.id \in U)
    OBVIOUS
  <2> DEFINE b == p.id \in U
  <2>1. b \in BOOLEAN /\ f[p] = [p EXCEPT !.unchoked = b] /\ p \in Peers
    BY <1>1, <1>3
  <2> HIDE DEF b
  <2>2. f[p] \in Peers /\ f[p].id = p.id /\ f[p].has = p.has /\ f[p].killed = p.killed /\ f[p].unchoked = b
    BY <2>1 DEF Peers
  <2>3. f[p].unchoked <=> b
    BY <2>2, Zenon
  <2> QED
    BY <2>2, <2>3 DEF b
<1>5. f \in [S -> Peers]
  <2>1. f = [p \in S |-> f[p]]
    BY DEF f
  <2> QED
    BY <1>4, <2>1
<1>6. Count(Served(X)) <= Slots
  <2> DEFINE h == [q \in Served(X) |-> q.id]
  <2>1. \A q \in Served(X) : q.id \in U
    BY <1>2, <1>4 DEF Served
  <2>2. \A q, r \in Served(X) : q.id = r.id => q = r
    BY <1>2, <1>4 DEF Served, PeerSet
  <2>3. h \in Injection(Served(X), U)
    BY <2>1, <2>2 DEF Injection, IsInjective
  <2> HIDE DEF h
  <2>4. IsFiniteSet(U) /\ Count(U) <= Slots /\ Count(U) \in Nat
    BY <1>1, SlotsAreEnough
  <2>5. IsFiniteSet(Served(X)) /\ Cardinality(Served(X)) <= Cardinality(U)
    BY <2>3, <2>4, FS_Injection
  <2>6. Cardinality(Served(X)) \in Nat /\ Slots \in Nat
    BY <2>5, FS_CardinalityType, PeerManagerConstants
  <2> QED
    BY <2>4, <2>5, <2>6 DEF Count
<1> QED
  BY <1>2, <1>4, <1>5, <1>6, PeersMapped

\* The choker, after the seeders have been killed or not.
LEMMA ChokingSound ==
    ASSUME NEW g \in Worlds, NEW v, Sound(v, g), NEW m \in Managers, v.started[m],
           NEW S \in {v.peers[m], killSeeders(v.peers[m])}, NEW x \in doChoking(v, m, S)
    PROVE  Sound(x, g)
<1>1. /\ v \in States(g.max_haves) /\ PeerSet(v.peers[m]) /\ g.max_haves \in Nat
      /\ Counted(v.peers[m], v.cnt[m], v.available[m]) /\ v.peers[m] \subseteq Peers
  BY SettingsTyped DEF Sound, TorrentSound, PeerSet
<1> DEFINE P == v.peers[m]
<1>2. /\ PeerSet(S) /\ Count(S) <= Count(P) /\ Count(Alive(S)) <= Count(Alive(P))
      /\ \A c : Count(Having(S, c)) <= Count(Having(P, c))
  <2>1. CASE S = P
    <3>1. Count(P) \in Nat /\ Count(Alive(P)) \in Nat /\ \A c : Count(Having(P, c)) \in Nat
      BY <1>1, PeerSetCounts
    <3> HIDE DEF P
    <3> QED
      BY <1>1, <2>1, <3>1 DEF P
  <2>2. CASE S = killSeeders(P)
    BY <1>1, <2>2, SeedersKilled
  <2> QED
    BY <2>1, <2>2
<1>3. PICK U \in Unchokings(S) : x = [v EXCEPT !.peers[m] = {[p EXCEPT !.unchoked = p.id \in U] : p \in S}]
  BY DEF doChoking
<1> DEFINE X == {[p EXCEPT !.unchoked = p.id \in U] : p \in S}
           f == [v.peers EXCEPT ![m] = X]
<1>4. x = [v EXCEPT !.peers = f]
  BY <1>1, <1>3 DEF States
<1>5. f = [v.peers EXCEPT ![m] = X]
  OBVIOUS
<1>6. X = {[p EXCEPT !.unchoked = p.id \in U] : p \in S}
  OBVIOUS
<1> HIDE DEF X, f, P
<1>7. /\ PeerSet(X) /\ Count(X) <= Count(S) /\ Count(Alive(X)) <= Count(Alive(S))
      /\ \A c : Count(Having(X, c)) <= Count(Having(S, c))
  BY <1>2, <1>6, ChokedPeers
<1>8. X \subseteq Peers /\ S \subseteq Peers /\ P \subseteq Peers
  BY <1>1, <1>2, <1>7 DEF PeerSet, P
<1>9. /\ \A Y \in {X, S, P} : Count(Y) \in Nat /\ Count(Alive(Y)) \in Nat
      /\ \A Y \in {X, S, P} : \A c : Count(Having(Y, c)) \in Nat
  BY <1>8, PeerSetCounts
<1>10. Count(X) <= Count(P) /\ Count(Alive(X)) <= Count(Alive(P))
  BY <1>2, <1>7, <1>9
<1>11. /\ v.peers \in [Managers -> SUBSET Peers] /\ v.cnt \in [Managers -> [Chunks -> 0..g.max_haves]]
       /\ v.available \in [Managers -> SUBSET Chunks] /\ v.total_connections \in Nat
  BY <1>1 DEF States
<1>12. f \in [Managers -> SUBSET Peers]
  BY <1>5, <1>8, <1>11
<1>13. /\ x \in States(g.max_haves) /\ x.peers = f
       /\ x.cnt = v.cnt /\ x.available = v.available /\ x.started = v.started /\ x.extra = v.extra
       /\ x.auths = v.auths /\ x.num_pending = v.num_pending
       /\ x.total_connections = v.total_connections
  BY <1>1, <1>4, <1>12 DEF States
<1>14. PeersBecome(v, x, m, X, v.cnt[m], v.available[m])
  BY <1>5, <1>11, <1>13 DEF PeersBecome
<1>15. Counted(X, v.cnt[m], v.available[m])
  <2>1. ASSUME NEW c \in Chunks PROVE v.cnt[m][c] >= Count(Having(X, c))
    <3>1. v.cnt[m][c] >= Count(Having(P, c)) /\ v.cnt[m][c] \in Nat
      <4>1. v.cnt[m][c] \in 0..g.max_haves
        BY <1>11
      <4> QED
        BY <1>1, <4>1 DEF Counted, P
    <3>2. Count(Having(X, c)) <= Count(Having(S, c)) /\ Count(Having(S, c)) <= Count(Having(P, c))
      BY <1>2, <1>7
    <3>3. Count(Having(X, c)) \in Nat /\ Count(Having(S, c)) \in Nat /\ Count(Having(P, c)) \in Nat
      BY <1>9
    <3> QED
      BY <3>1, <3>2, <3>3
  <2> QED
    BY <1>1, <2>1 DEF Counted
<1>16. x.total_connections + Count(v.peers[m]) >= v.total_connections + Count(X)
  <2>1. x.total_connections + Count(P) >= v.total_connections + Count(X)
    BY <1>9, <1>10, <1>11, <1>13
  <2> QED
    BY <2>1 DEF P
<1> QED
  BY <1>7, <1>10, <1>13, <1>14, <1>15, <1>16, PeersBecomeSound DEF P

-----------------------------------------------------------------------------
(* Connecting to potential peers *)

\* The least position is one of them.
LEMMA FirstIsOne ==
    ASSUME NEW S \in SUBSET RemoteSet, S # {}
    PROVE  FirstOf(S) \in RemoteSet
<1> DEFINE K == {k \in DOMAIN Remotes : Remotes[k] \in S}
<1>1. K \subseteq Nat /\ K # {} /\ \A k \in K : Remotes[k] \in RemoteSet
  <2>1. DOMAIN Remotes = 1..Len(Remotes) /\ Len(Remotes) \in Nat
    BY PeerManagerConstants
  <2> QED
    BY <2>1 DEF RemoteSet, Range
<1>2. FirstOf(S) = Remotes[Min(K)]
  BY DEF FirstOf
<1> HIDE DEF K
<1>3. PICK k \in K : \A y \in K : <<y, k>> \notin OpToRel(<, Nat)
  BY <1>1, NatLessThanWellFounded, WFMin, Zenon
<1>4. \A y \in K : ~(y < k)
  BY <1>1, <1>3, Zenon DEF OpToRel
<1>5. \A y \in K : k <= y
  BY <1>1, <1>4
<1>6. Min(K) \in K
  BY <1>5 DEF Min
<1> QED
  BY <1>1, <1>2, <1>6

\* After i attempts.
Tried(v, x, m, i) ==
    /\ Sound(x, settings)
    /\ x.started = v.started /\ x.peers = v.peers /\ x.extra = v.extra
    /\ Count(PendingIn(x.auths, m)) <= Count(PendingIn(v.auths, m)) + i
    /\ x.total_connections <= v.total_connections + i
    /\ Count(x.potential[m]) + i >= Count(v.potential[m])

LEMMA PotentialTyped ==
    ASSUME NEW max, NEW v \in States(max), NEW m \in Managers
    PROVE  /\ v.potential \in [Managers -> SUBSET RemoteSet]
           /\ IsFiniteSet(v.potential[m]) /\ Count(v.potential[m]) \in Nat
<1>1. v.potential \in [Managers -> SUBSET RemoteSet]
  BY DEF States
<1> QED
  BY <1>1, Finite, Fewer

\* One attempt.
LEMMA OneTried ==
    ASSUME settings \in Worlds, NEW v, Sound(v, settings), NEW m \in Managers, v.started[m],
           Room(v, m, settings), NEW r \in RemoteSet, NEW outcome
    PROVE  Tried(v, TryPeer(v, m, r, outcome), m, 1)
<1>1. v \in States(settings.max_haves)
  BY DEF Sound
<1>2. /\ Count(PendingIn(v.auths, m)) \in Nat /\ v.total_connections \in Nat
      /\ Count(v.potential[m]) \in Nat /\ IsFiniteSet(v.potential[m])
      /\ v.potential \in [Managers -> SUBSET RemoteSet] /\ v.auths \in Seq(Auths)
  BY <1>1, StateTyped, PotentialTyped
<1>3. Tried(v, v, m, 1)
  <2> DEFINE a == Count(PendingIn(v.auths, m))
             b == Count(v.potential[m])
             t == v.total_connections
  <2>1. a \in Nat /\ b \in Nat /\ t \in Nat
    BY <1>2
  <2> HIDE DEF a, b, t
  <2>2. a <= a + 1 /\ t <= t + 1 /\ b + 1 >= b
    BY <2>1
  <2> QED
    BY <2>2 DEF Tried, a, b, t
<1> DEFINE u == [v EXCEPT !.potential[m] = @ \ {r}]
           f == [v.potential EXCEPT ![m] = @ \ {r}]
<1>4. u = [v EXCEPT !.potential = f] /\ f \in [Managers -> SUBSET RemoteSet]
  BY <1>1, <1>2 DEF States
<1>5. f[m] = v.potential[m] \ {r}
  BY <1>2
<1> HIDE DEF u, f
<1>6. /\ u \in States(settings.max_haves) /\ u.potential = f
      /\ u.peers = v.peers /\ u.cnt = v.cnt /\ u.available = v.available
      /\ u.started = v.started /\ u.extra = v.extra
      /\ u.auths = v.auths /\ u.num_pending = v.num_pending
      /\ u.total_connections = v.total_connections
  BY <1>1, <1>4 DEF States
<1>7. Sound(u, settings) /\ Room(u, m, settings)
  BY <1>6, Uncounted
<1>8. Count(u.potential[m]) \in Nat /\ Count(v.potential[m]) <= Count(u.potential[m]) + 1
  <2>1. v.potential[m] \subseteq (f[m] \cup {r}) /\ IsFiniteSet(f[m])
    BY <1>2, <1>5, Fewer
  <2> QED
    BY <1>6, <2>1, Grown
<1>9. Tried(v, u, m, 1)
  <2> DEFINE a == Count(PendingIn(v.auths, m))
             t == v.total_connections
  <2>1. a \in Nat /\ t \in Nat
    BY <1>2
  <2> HIDE DEF a, t
  <2>2. a <= a + 1 /\ t <= t + 1
    BY <2>1
  <2>3. Count(PendingIn(u.auths, m)) = a /\ u.total_connections = t
    BY <1>6 DEF a, t
  <2>4. Count(u.potential[m]) + 1 >= Count(v.potential[m])
    BY <1>2, <1>8
  <2> QED
    BY <1>6, <1>7, <2>2, <2>3, <2>4 DEF Tried, a, t
<1>10. ASSUME NEW enc \in BOOLEAN PROVE Tried(v, NewAuth(u, m, r, enc, outcome), m, 1)
  <2> DEFINE x == NewAuth(u, m, r, enc, outcome)
  <2>1. Sound(x, settings)
    BY <1>6, <1>7, NewAuthSound
  <2>2. Begun(u, x, m, settings.max_haves)
    BY <1>6, NewAuthIs
  <2> HIDE DEF x
  <2>3. x.started = u.started /\ x.peers = u.peers /\ x.extra = u.extra /\ x.potential = u.potential
    BY <2>2 DEF Begun
  <2>4. Count(PendingIn(x.auths, m)) <= Count(PendingIn(v.auths, m)) + 1
    <3>1. CASE x.auths = u.auths
      BY <1>2, <1>6, <3>1
    <3>2. ASSUME NEW a \in Auths, a.m = m, x.auths = Append(u.auths, a)
          PROVE  Count(PendingIn(x.auths, m)) <= Count(PendingIn(v.auths, m)) + 1
      <4>1. Count(PendingIn(Append(v.auths, a), m)) = Count(PendingIn(v.auths, m)) + 1
        BY <1>2, <3>2, PendingAppended
      <4> QED
        BY <1>2, <1>6, <3>2, <4>1
    <3> QED
      BY <2>2, <3>1, <3>2 DEF Begun
  <2>5. x.total_connections <= v.total_connections + 1
    BY <1>2, <1>6, <2>2 DEF Begun, Less
  <2>6. Count(x.potential[m]) + 1 >= Count(v.potential[m])
    BY <1>2, <1>8, <2>3
  <2> QED
    BY <1>6, <2>1, <2>3, <2>4, <2>5, <2>6 DEF Tried, x
<1>11. (settings.encryption # "off") \in BOOLEAN
  OBVIOUS
<1>12. TryPeer(v, m, r, outcome) \in {v, u, NewAuth(u, m, r, settings.encryption # "off", outcome)}
  BY DEF TryPeer, u
<1> QED
  BY <1>3, <1>9, <1>10, <1>11, <1>12

\* One attempt after the others.
LEMMA OneMoreTried ==
    ASSUME settings \in Worlds, NEW v, Sound(v, settings), NEW m \in Managers,
           NEW u, NEW i \in Nat, Tried(v, u, m, i), NEW x, Tried(u, x, m, 1)
    PROVE  Tried(v, x, m, i + 1)
<1>1. Sound(u, settings) /\ Sound(x, settings)
  BY DEF Tried
<1>2. /\ v \in States(settings.max_haves) /\ u \in States(settings.max_haves)
      /\ x \in States(settings.max_haves)
  BY <1>1 DEF Sound
<1>3. \A y \in {v, u, x} : /\ Count(PendingIn(y.auths, m)) \in Nat /\ y.total_connections \in Nat
                           /\ Count(y.potential[m]) \in Nat
  BY <1>2, StateTyped, PotentialTyped
<1> DEFINE a(y) == Count(PendingIn(y.auths, m))
           b(y) == Count(y.potential[m])
           t(y) == y.total_connections
<1>4. /\ {a(v), a(u), a(x), b(v), b(u), b(x), t(v), t(u), t(x)} \subseteq Nat
      /\ a(u) <= a(v) + i /\ t(u) <= t(v) + i /\ b(u) + i >= b(v)
      /\ a(x) <= a(u) + 1 /\ t(x) <= t(u) + 1 /\ b(x) + 1 >= b(u)
  BY <1>3 DEF Tried
<1> HIDE DEF a, b, t
<1>5. a(x) <= a(v) + (i + 1) /\ t(x) <= t(v) + (i + 1) /\ b(x) + (i + 1) >= b(v)
  BY <1>4
<1> QED
  BY <1>1, <1>5 DEF Tried, a, b, t

\* The i-th attempt of connectToPeers; f holds the states after the earlier ones.
Attempt(f, v, m, outcomes, i) ==
    IF i = 0 THEN v
    ELSE LET r == FirstOf(f[i - 1].potential[m])
         IN  TryPeer(f[i - 1], m, r, outcomes[r])

Attempts(f, v, m, num, outcomes) == f = [i \in 0..num |-> Attempt(f, v, m, outcomes, i)]

LEMMA AttemptsDefined ==
    ASSUME NEW v, NEW m, NEW num \in Nat, NEW outcomes
    PROVE  \E f : Attempts(f, v, m, num, outcomes)
<1> DEFINE Upto(k) == \E f : Attempts(f, v, m, k, outcomes)
           Bad == {k \in 0..num : ~Upto(k)}
<1>1. Bad \subseteq Nat
  OBVIOUS
<1>2. ASSUME Bad # {} PROVE FALSE
  <2> HIDE DEF Bad
  <2>1. PICK k \in Bad : \A y \in Bad : <<y, k>> \notin OpToRel(<, Nat)
    BY <1>1, <1>2, NatLessThanWellFounded, WFMin, Zenon
  <2>2. \A y \in Bad : ~(y < k)
    BY <1>1, <2>1, Zenon DEF OpToRel
  <2> USE DEF Bad
  <2>3. CASE k = 0
    <3> DEFINE f == [i \in 0..0 |-> v]
    <3>1. f = [i \in 0..0 |-> Attempt(f, v, m, outcomes, i)]
      BY DEF Attempt
    <3>2. Upto(0)
      <4> HIDE DEF f
      <4> QED BY <3>1 DEF Attempts
    <3> QED
      BY <2>3, <3>2
  <2>4. CASE k # 0
    <3>1. k - 1 \in 0..num /\ k - 1 < k /\ k \in Nat
      BY <2>4
    <3>2. Upto(k - 1)
      <4> HIDE DEF Upto
      <4> QED BY <2>2, <3>1
    <3>3. PICK g : g = [i \in 0..(k - 1) |-> Attempt(g, v, m, outcomes, i)]
      BY <3>2 DEF Attempts
    <3> DEFINE f == [i \in 0..k |-> IF i = k THEN Attempt(g, v, m, outcomes, k) ELSE g[i]]
    <3>4. \A i \in 0..(k - 1) : f[i] = g[i] /\ g[i] = Attempt(g, v, m, outcomes, i)
      <4>1. \A i \in 0..(k - 1) : f[i] = g[i]
        BY <3>1
      <4> HIDE DEF f
      <4>2. \A i \in 0..(k - 1) : g[i] = Attempt(g, v, m, outcomes, i)
        BY <3>3
      <4> QED BY <4>1, <4>2
    <3>5. \A i \in 0..k : f[i] = Attempt(f, v, m, outcomes, i)
      <4> SUFFICES ASSUME NEW i \in 0..k PROVE f[i] = Attempt(f, v, m, outcomes, i)
        OBVIOUS
      <4>1. i # 0 => i - 1 \in 0..(k - 1) /\ f[i - 1] = g[i - 1]
        BY <3>1, <3>4
      <4>2. f[i] = IF i = k THEN Attempt(g, v, m, outcomes, k) ELSE g[i]
        OBVIOUS
      <4> HIDE DEF f
      <4>3. f[i] = Attempt(g, v, m, outcomes, i)
        <5>1. i # k => i \in 0..(k - 1)
          BY <3>1
        <5> QED
          BY <4>2, <5>1, <3>4
      <4>4. Attempt(g, v, m, outcomes, i) = Attempt(f, v, m, outcomes, i)
        BY <4>1, Zenon DEF Attempt
      <4> QED BY <4>3, <4>4
    <3>6. f = [i \in 0..k |-> f[i]]
      OBVIOUS
    <3> HIDE DEF f
    <3>7. f = [i \in 0..k |-> Attempt(f, v, m, outcomes, i)]
      BY <3>5, <3>6
    <3>8. Upto(k)
      BY <3>7 DEF Attempts
    <3> QED
      BY <3>8
  <2> QED
    BY <2>3, <2>4
<1>3. Upto(num)
  <2>1. num \in 0..num
    OBVIOUS
  <2> HIDE DEF Upto
  <2> QED
    BY <1>2, <2>1
<1> QED
  BY <1>3

\* As many attempts as there is room for.
LEMMA AttemptsSound ==
    ASSUME settings \in Worlds, NEW v, Sound(v, settings), NEW m \in Managers, v.started[m],
           NEW num \in Nat, num <= Count(v.potential[m]),
           v.total_connections + num <= settings.max_total_connections,
           settings.max_connections > 0 =>
              Count(v.peers[m]) + Count(PendingIn(v.auths, m)) + num <= settings.max_connections,
           NEW f, NEW outcomes, Attempts(f, v, m, num, outcomes)
    PROVE  Tried(v, f[num], m, num)
<1>1. v \in States(settings.max_haves)
  BY DEF Sound
<1>2. \A i \in 0..num : f[i] = Attempt(f, v, m, outcomes, i)
  BY DEF Attempts
<1> DEFINE Bad == {k \in 0..num : ~Tried(v, f[k], m, k)}
<1>3. Bad \subseteq Nat
  OBVIOUS
<1>4. ASSUME Bad # {} PROVE FALSE
  <2> HIDE DEF Bad
  <2>1. PICK k \in Bad : \A y \in Bad : <<y, k>> \notin OpToRel(<, Nat)
    BY <1>3, <1>4, NatLessThanWellFounded, WFMin, Zenon
  <2>2. \A y \in Bad : ~(y < k)
    BY <1>3, <2>1, Zenon DEF OpToRel
  <2>3. k \in 0..num /\ ~Tried(v, f[k], m, k)
    BY DEF Bad
  <2>4. CASE k = 0
    <3>1. f[0] = v
      BY <1>2, <2>4 DEF Attempt
    <3>2. /\ Count(PendingIn(v.auths, m)) \in Nat /\ v.total_connections \in Nat
          /\ Count(v.potential[m]) \in Nat
      BY <1>1, StateTyped, PotentialTyped
    <3>3. /\ Count(PendingIn(v.auths, m)) <= Count(PendingIn(v.auths, m)) + 0
          /\ v.total_connections <= v.total_connections + 0
          /\ Count(v.potential[m]) + 0 >= Count(v.potential[m])
      BY <3>2
    <3> QED
      BY <2>3, <2>4, <3>1, <3>3 DEF Tried
  <2>5. CASE k # 0
    <3> DEFINE j == k - 1
               u == f[j]
               r == FirstOf(u.potential[m])
    <3>1. j \in 0..num /\ j \in Nat /\ j < k /\ k = j + 1 /\ k <= num
      BY <2>3, <2>5
    <3>2. Tried(v, u, m, j)
      <4> HIDE DEF u, j
      <4>1. j \notin Bad
        BY <2>2, <3>1
      <4> QED
        BY <3>1, <4>1 DEF Bad, u
    <3>3. f[k] = TryPeer(u, m, r, outcomes[r])
      BY <1>2, <2>3, <2>5 DEF Attempt
    <3> HIDE DEF u, j
    <3>4. /\ Sound(u, settings) /\ u \in States(settings.max_haves) /\ u.started[m]
          /\ u.peers = v.peers /\ u.extra = v.extra
      BY <3>2 DEF Tried, Sound
    <3>5. /\ Count(PendingIn(v.auths, m)) \in Nat /\ v.total_connections \in Nat
          /\ Count(v.potential[m]) \in Nat /\ Count(PendingIn(u.auths, m)) \in Nat
          /\ u.total_connections \in Nat /\ Count(u.potential[m]) \in Nat
          /\ u.potential \in [Managers -> SUBSET RemoteSet]
          /\ Count(v.peers[m]) \in Nat /\ Count(Alive(v.peers[m])) \in Nat
          /\ Count(Alive(v.peers[m])) <= Count(v.peers[m]) /\ u.extra[m] \in Nat
      BY <1>1, <3>4, StateTyped, PotentialTyped
    <3>6. /\ Count(PendingIn(u.auths, m)) <= Count(PendingIn(v.auths, m)) + j
          /\ u.total_connections <= v.total_connections + j
          /\ Count(u.potential[m]) + j >= Count(v.potential[m])
      BY <3>2 DEF Tried
    <3>7. Count(u.potential[m]) > 0
      BY <3>1, <3>5, <3>6
    <3>8. r \in RemoteSet
      <4>1. u.potential[m] # {}
        BY <3>7, FS_EmptySet DEF Count
      <4> QED
        BY <3>5, <4>1, FirstIsOne
    <3>9. settings.max_connections \in Nat /\ settings.max_total_connections \in Nat
      BY SettingsTyped
    <3>10. Slack(u, settings)
      <4>1. u.total_connections < settings.max_total_connections
        BY <3>1, <3>5, <3>6, <3>9
      <4> QED
        BY <3>4, <4>1, CountedRoom
    <3>11. settings.max_connections > 0 =>
              Count(Alive(u.peers[m])) + Count(PendingIn(u.auths, m)) < settings.max_connections + u.extra[m]
      <4> DEFINE a == Count(Alive(v.peers[m]))
                 c == Count(v.peers[m])
                 p == Count(PendingIn(v.auths, m))
                 q == Count(PendingIn(u.auths, m))
                 x == u.extra[m]
                 max == settings.max_connections
      <4>1. {a, c, p, q, x, max, j, num} \subseteq Nat /\ j < num /\ a <= c /\ q <= p + j
            /\ (max > 0 => c + p + num <= max)
        BY <3>1, <3>5, <3>6, <3>9
      <4> HIDE DEF a, c, p, q, x, max
      <4>2. max > 0 => a + q < max + x
        BY <4>1
      <4> QED
        BY <3>4, <4>2 DEF a, q, x, max
    <3>12. Room(u, m, settings)
      BY <3>10, <3>11 DEF Room
    <3> HIDE DEF r
    <3>13. Tried(u, f[k], m, 1)
      BY <3>3, <3>4, <3>8, <3>12, OneTried
    <3>14. Tried(v, f[k], m, j + 1)
      BY <3>1, <3>2, <3>13, OneMoreTried
    <3> QED
      BY <2>3, <3>1, <3>14
  <2> QED
    BY <2>4, <2>5
<1>5. num \in 0..num
  OBVIOUS
<1> QED
  BY <1>4, <1>5

LEMMA ConnectSound ==
    ASSUME settings \in Worlds, NEW v, Sound(v, settings), NEW m \in Managers, v.started[m],
           NEW outcomes
    PROVE  LET x == connectToPeers(v, m, outcomes)
           IN  Sound(x, settings) /\ x.started = v.started /\ x.peers = v.peers
<1> DEFINE potential == Count(v.potential[m])
           here == Count(v.peers[m]) + v.num_pending[m]
           max == settings.max_connections
           total == settings.max_total_connections
           room == IF max = 0 \/ max - here >= potential THEN potential ELSE max - here
           num == IF room + v.total_connections >= total THEN total - v.total_connections ELSE room
           tried == CHOOSE f : f = [i \in 0..num |->
                       IF i = 0 THEN v
                       ELSE LET r == FirstOf(f[i - 1].potential[m])
                            IN  TryPeer(f[i - 1], m, r, outcomes[r])]
           x == connectToPeers(v, m, outcomes)
<1>1. v \in States(settings.max_haves) /\ TorrentSound(v, m, settings)
  BY DEF Sound
<1>2. /\ potential \in Nat /\ v.total_connections \in Nat /\ max \in Nat /\ total \in Nat
      /\ Count(v.peers[m]) \in Nat /\ v.num_pending[m] \in Nat
      /\ v.num_pending[m] = Count(PendingIn(v.auths, m))
  BY <1>1, StateTyped, PotentialTyped, SettingsTyped DEF TorrentSound
<1>3. \/ x = v
      \/ x = tried[num] /\ ~(max > 0 /\ here >= max) /\ v.total_connections < total
  <2>1. GlobalNotOK(v) <=> v.total_connections >= total
    BY DEF GlobalNotOK
  <2>2. LocalNotOK(v, m) <=> max > 0 /\ here >= max
    BY Zenon DEF LocalNotOK
  <2>3. x = v \/ (x = tried[num] /\ ~GlobalNotOK(v) /\ ~LocalNotOK(v, m))
    BY DEF connectToPeers
  <2> HIDE DEF tried, num, x, here, max, total
  <2> QED
    BY <1>2, <2>1, <2>2, <2>3
<1>4. CASE x = v
  BY <1>4
<1>5. CASE x = tried[num] /\ ~(max > 0 /\ here >= max) /\ v.total_connections < total
  <2>0. here \in Nat
    BY <1>2
  <2>1. /\ num \in Nat /\ num <= potential /\ v.total_connections + num <= total
        /\ max > 0 => here + num <= max
    <3> HIDE DEF tried, here, potential, max, total, x
    <3> QED
      BY <1>2, <1>5, <2>0
  <2>2. \E f : Attempts(f, v, m, num, outcomes)
    <3> HIDE DEF num
    <3> QED
      BY <2>1, AttemptsDefined, Zenon
  <2>3. Attempts(tried, v, m, num, outcomes)
    <3> HIDE DEF num
    <3>1. \E f : f = [i \in 0..num |-> IF i = 0 THEN v
                                       ELSE LET r == FirstOf(f[i - 1].potential[m])
                                            IN  TryPeer(f[i - 1], m, r, outcomes[r])]
      BY <2>2 DEF Attempts, Attempt
    <3>2. tried = [i \in 0..num |-> IF i = 0 THEN v
                                    ELSE LET r == FirstOf(tried[i - 1].potential[m])
                                         IN  TryPeer(tried[i - 1], m, r, outcomes[r])]
      BY <3>1, Zenon
    <3> HIDE DEF tried
    <3> QED
      BY <3>2, Zenon DEF Attempts, Attempt
  <2> HIDE DEF tried, num
  <2>4. max > 0 => Count(v.peers[m]) + Count(PendingIn(v.auths, m)) + num <= max
    BY <1>2, <2>1
  <2>5. Tried(v, tried[num], m, num)
    BY <2>1, <2>3, <2>4, AttemptsSound
  <2> HIDE DEF x
  <2> QED
    BY <1>5, <2>5 DEF Tried, x
<1> HIDE DEF x, tried, num
<1> QED
  BY <1>3, <1>4, <1>5 DEF x

-----------------------------------------------------------------------------
(* The steps *)

\* What a step has to show: the settings never change.
LEMMA StepKeeps ==
    ASSUME IInv, settings' = settings, Sound(w', settings), incoming' \in [RemoteSet -> IncomingSet]
    PROVE  IInv'
BY DEF IInv, IncomingSet

\* Steps of the handshakes of our own.
LEMMA OutgoingKeeps ==
    ASSUME IInv, NEW i \in DOMAIN w.auths,
           \/ Connected(i) \/ ConnectFails(i) \/ ExchangeKeys(i) \/ PartOfHandshake(i)
           \/ WholeHandshake(i) \/ HandshakeFails(i) \/ Timeout(i)
    PROVE  IInv'
<1>1. /\ settings \in Worlds /\ Sound(w, settings) /\ w \in States(settings.max_haves)
      /\ incoming \in [RemoteSet -> IncomingSet]
  BY DEF IInv, Sound, IncomingSet
<1>2. settings' = settings /\ incoming' = incoming
  BY DEF Connected, ConnectFails, ExchangeKeys, PartOfHandshake, WholeHandshake,
         HandshakeFails, Timeout, Step
<1>3. w.auths \in Seq(Auths) /\ w.auths[i] \in Auths
  BY <1>1 DEF States
<1>4. SUFFICES Sound(w', settings)
  BY <1>1, <1>2, StepKeeps
<1>5. ASSUME NEW k \in Nat PROVE /\ \A x \in Failures(NoLongerConnecting(w, k), i) : Sound(x, settings)
  <2>1. Sound(NoLongerConnecting(w, k), settings) /\ i \in DOMAIN NoLongerConnecting(w, k).auths
    BY <1>1, NotConnectingSound
  <2>2. ASSUME NEW outcome PROVE Sound(Finished(NoLongerConnecting(w, k), i, FALSE, outcome), settings)
    BY <1>1, <2>1, FinishedSound
  <2> QED
    BY <2>2 DEF Failures
<1>6. \A x \in Failures(w, i) : Sound(x, settings)
  <2>1. ASSUME NEW outcome PROVE Sound(Finished(w, i, FALSE, outcome), settings)
    BY <1>1, FinishedSound
  <2> QED
    BY <2>1 DEF Failures
<1>7. CASE Connected(i)
  <2> DEFINE phase == IF w.auths[i].enc THEN "SENT_YA" ELSE "hs"
             u == [w EXCEPT !.auths[i].phase = phase]
  <2>1. phase \in {"connecting", "deaf", "hs", "part"} \cup EncStates
    BY DEF EncStates
  <2>2. w' = NoLongerConnecting(u, 1)
    BY <1>7 DEF Connected
  <2> HIDE DEF phase
  <2>3. Sound(u, settings)
    BY <1>1, <2>1, PhaseSound
  <2> HIDE DEF u
  <2> QED
    BY <1>1, <2>2, <2>3, NotConnectingSound
<1>8. CASE ConnectFails(i)
  BY <1>5, <1>8 DEF ConnectFails
<1>9. CASE ExchangeKeys(i)
  <2>1. w.auths[i].phase \in EncStates
    BY <1>9 DEF ExchangeKeys, InPhase
  <2>2. PICK phase \in EncRead(w.auths[i].phase) : w' = [w EXCEPT !.auths[i].phase = phase]
    BY <1>9 DEF ExchangeKeys
  <2>3. phase \in {"connecting", "deaf", "hs", "part"} \cup EncStates
    BY <2>1 DEF EncStates, EncRead, handleYB, findVC, handleCryptoSelect, handlePadD
  <2> QED
    BY <1>1, <2>2, <2>3, PhaseSound
<1>10. CASE PartOfHandshake(i)
  <2>1. w' = [w EXCEPT !.auths[i].phase = "part"]
    BY <1>10 DEF PartOfHandshake
  <2> QED
    BY <1>1, <2>1, PhaseSound
<1>11. CASE WholeHandshake(i)
  <2>1. CASE HandshakeOK(w, w.auths[i])
    <3>1. w' = Finished(w, i, TRUE, None) /\ w.auths[i].r # Self
      BY <1>11, <2>1 DEF WholeHandshake, HandshakeOK
    <3> QED
      BY <1>1, <3>1, FinishedSound
  <2>2. CASE ~HandshakeOK(w, w.auths[i])
    BY <1>6, <1>11, <2>2 DEF WholeHandshake
  <2> QED
    BY <2>1, <2>2
<1>12. CASE HandshakeFails(i)
  BY <1>6, <1>12 DEF HandshakeFails
<1>13. CASE Timeout(i)
  BY <1>5, <1>6, <1>13 DEF Timeout
<1> QED
  BY <1>7, <1>8, <1>9, <1>10, <1>11, <1>12, <1>13

\* A connection that comes in has room, or takes that of a bad peer.
LEMMA NewConnectionKeeps ==
    ASSUME settings \in Worlds, Sound(w, settings), NEW m \in Managers, NEW r \in RemoteSet,
           r # Self, w.started[m], ~connectedTo(w, m, r), newConnection(m, r)
    PROVE  Sound(w', settings)
<1>1. w \in States(settings.max_haves) /\ TorrentSound(w, m, settings)
  BY DEF Sound
<1>2. \A p \in w.peers[m] : p.id # r
  BY DEF connectedTo
<1>3. CASE ~LocalNotOK(w, m) /\ ~GlobalNotOK(w)
  <2>1. w' = createPeer(w, m, r, FALSE)
    BY <1>3 DEF newConnection
  <2>2. Slack(w, settings)
    <3>1. w.total_connections \in Nat /\ settings.max_total_connections \in Nat
      BY <1>1, StateTyped, SettingsTyped
    <3>2. w.total_connections < settings.max_total_connections
      BY <1>3, <3>1 DEF GlobalNotOK
    <3> QED
      BY <3>2, CountedRoom
  <2>3. settings.max_connections > 0 =>
          Count(Alive(w.peers[m])) + Count(PendingIn(w.auths, m)) < settings.max_connections + w.extra[m]
    <3> DEFINE a == Count(Alive(w.peers[m]))
               c == Count(w.peers[m])
               p == w.num_pending[m]
               x == w.extra[m]
               max == settings.max_connections
    <3>1. {a, c, p, x, max} \subseteq Nat /\ a <= c /\ p = Count(PendingIn(w.auths, m))
      BY <1>1, StateTyped, SettingsTyped DEF TorrentSound
    <3>2. ~(max > 0 /\ c + p >= max)
      BY <1>3 DEF LocalNotOK
    <3> HIDE DEF a, c, p, x, max
    <3>3. max > 0 => a + p < max + x
      BY <3>1, <3>2
    <3> QED
      BY <3>1, <3>3 DEF a, x, max
  <2>4. Room(w, m, settings)
    BY <2>2, <2>3 DEF Room
  <2> QED
    BY <1>2, <2>1, <2>4, CreatedSound
<1>4. CASE w' = w
  BY <1>4
<1>5. ASSUME NEW victim \in w.peers[m], w' = createPeer(killBadPeer(w, m, victim), m, r, FALSE)
      PROVE  Sound(w', settings)
  <2> DEFINE x == killBadPeer(w, m, victim)
  <2>1. /\ Sound(x, settings) /\ Room(x, m, settings) /\ x.started = w.started
        /\ \A a \in x.peers[m] : \E b \in w.peers[m] : a.id = b.id
    BY KillBadSound
  <2>2. w' = createPeer(x, m, r, FALSE)
    BY <1>5
  <2> HIDE DEF x
  <2>3. \A a \in x.peers[m] : a.id # r
    BY <1>2, <2>1
  <2> QED
    BY <2>1, <2>2, <2>3, CreatedSound
<1> QED
  BY <1>3, <1>4, <1>5 DEF newConnection

LEMMA IncomingKeeps ==
    ASSUME IInv, NEW r \in RemoteSet,
           \/ Accept(r) \/ IncomingExchangesKeys(r) \/ IncomingFails(r)
           \/ \E m \in Managers : IncomingPart(r, m) \/ IncomingWhole(r, m)
    PROVE  IInv'
<1>1. /\ settings \in Worlds /\ Sound(w, settings) /\ incoming \in [RemoteSet -> IncomingSet]
  BY DEF IInv, IncomingSet
<1>2. settings' = settings
  BY DEF Accept, IncomingExchangesKeys, IncomingFails, IncomingPart, IncomingWhole, Step
<1>3. ASSUME NEW to \in IncomingSet, incoming' = [incoming EXCEPT ![r] = to]
      PROVE  incoming' \in [RemoteSet -> IncomingSet]
  BY <1>1, <1>3
<1>4. None \in IncomingSet /\ "hs" \in IncomingSet /\ ServerStates \subseteq IncomingSet
      /\ Managers \subseteq IncomingSet
  BY DEF IncomingSet
<1>5. CASE Accept(r)
  <2>1. w' = w /\ incoming' \in [RemoteSet -> IncomingSet]
    BY <1>3, <1>4, <1>5 DEF Accept, ServerStates
  <2> QED
    BY <1>1, <1>2, <2>1, StepKeeps
<1>6. CASE IncomingExchangesKeys(r)
  <2>1. PICK phase \in ServerRead(incoming[r]) : incoming' = [incoming EXCEPT ![r] = phase]
    BY <1>6 DEF IncomingExchangesKeys
  <2>2. phase \in ServerStates \cup {"hs"}
    <3>1. incoming[r] \in ServerStates
      BY <1>6 DEF IncomingExchangesKeys
    <3>2. handleYA \subseteq ServerStates \cup {"hs"} /\ findReq1 \subseteq ServerStates \cup {"hs"}
          /\ calculateSKey \subseteq ServerStates \cup {"hs"} /\ processVC \subseteq ServerStates \cup {"hs"}
          /\ handlePadC \subseteq ServerStates \cup {"hs"} /\ handleIA \subseteq ServerStates \cup {"hs"}
      BY DEF handleYA, findReq1, calculateSKey, processVC, handlePadC, handleIA, ServerStates
    <3> QED
      BY <3>1, <3>2 DEF ServerRead, ServerStates
  <2>3. w' = w
    BY <1>6 DEF IncomingExchangesKeys
  <2> QED
    BY <1>1, <1>2, <1>3, <1>4, <2>1, <2>2, <2>3, StepKeeps
<1>7. CASE IncomingFails(r)
  <2>1. w' = w /\ incoming' \in [RemoteSet -> IncomingSet]
    BY <1>3, <1>4, <1>7 DEF IncomingFails
  <2> QED
    BY <1>1, <1>2, <2>1, StepKeeps
<1>8. ASSUME NEW m \in Managers, IncomingPart(r, m) PROVE IInv'
  <2>1. w' = w /\ incoming' \in [RemoteSet -> IncomingSet]
    BY <1>3, <1>4, <1>8 DEF IncomingPart
  <2> QED
    BY <1>1, <1>2, <2>1, StepKeeps
<1>9. ASSUME NEW m \in Managers, IncomingWhole(r, m) PROVE IInv'
  <2>1. incoming' \in [RemoteSet -> IncomingSet]
    BY <1>3, <1>4, <1>9 DEF IncomingWhole
  <2>2. CASE ~w.started[m] \/ r = Self \/ connectedTo(w, m, r)
    <3>1. w' = w
      BY <1>9, <2>2 DEF IncomingWhole
    <3> QED
      BY <1>1, <1>2, <2>1, <3>1, StepKeeps
  <2>3. CASE ~(~w.started[m] \/ r = Self \/ connectedTo(w, m, r))
    <3>1. newConnection(m, r)
      BY <1>9, <2>3 DEF IncomingWhole
    <3>2. Sound(w', settings)
      BY <1>1, <2>3, <3>1, NewConnectionKeeps
    <3> QED
      BY <1>1, <1>2, <2>1, <3>2, StepKeeps
  <2> QED
    BY <2>2, <2>3
<1> QED
  BY <1>5, <1>6, <1>7, <1>8, <1>9

\* What a peer sends, and its end.
LEMMA PeerKeeps ==
    ASSUME IInv, NEW m \in Managers, NEW p \in w.peers[m],
           \/ Kill(m, p)
           \/ \E c \in Chunks : OnHave(m, p, c)
           \/ \E bs \in SUBSET Chunks : OnBitSet(m, p, bs)
    PROVE  IInv'
<1>1. /\ settings \in Worlds /\ Sound(w, settings) /\ w \in States(settings.max_haves)
      /\ incoming \in [RemoteSet -> IncomingSet] /\ TorrentSound(w, m, settings)
      /\ settings.max_haves \in Nat
  BY SettingsTyped, SMTT(30) DEF IInv, Sound, IncomingSet
<1>2. settings' = settings /\ incoming' = incoming
  BY Zenon DEF Kill, OnHave, OnBitSet, Step
<1>3. /\ w.peers \in [Managers -> SUBSET Peers] /\ w.available \in [Managers -> SUBSET Chunks]
      /\ w.cnt \in [Managers -> [Chunks -> 0..settings.max_haves]]
      /\ p \in Peers /\ w.cnt[m] \in [Chunks -> 0..settings.max_haves]
      /\ w.available[m] = {c \in Chunks : w.cnt[m][c] > 0}
  BY <1>1 DEF States, TorrentSound, Counted
<1>4. SUFFICES Sound(w', settings)
  BY <1>1, <1>2, StepKeeps
<1>5. ASSUME NEW q \in Peers, q.id = p.id, q.unchoked = p.unchoked, p.killed => q.killed,
             NEW cnt \in [Chunks -> 0..settings.max_haves],
             NEW available, available = {c \in Chunks : cnt[c] > 0},
             \A c \in Chunks : \/ cnt[c] = w.cnt[m][c] /\ (c \in q.has => c \in p.has)
                               \/ cnt[c] = w.cnt[m][c] + 1,
             w' = [w EXCEPT !.peers = [w.peers EXCEPT ![m] = (@ \ {p}) \cup {q}],
                            !.cnt = [w.cnt EXCEPT ![m] = cnt],
                            !.available = [w.available EXCEPT ![m] = available]]
      PROVE  Sound(w', settings)
  <2>1. w' = [w EXCEPT !.peers[m] = (@ \ {p}) \cup {q}, !.cnt[m] = cnt, !.available[m] = available]
    BY <1>1, <1>5 DEF States
  <2>2. PeerBecomes(w, w', m, p, q, cnt, available, settings)
    BY <1>5, <2>1 DEF PeerBecomes
  <2>3. PICK x : x = w'
    OBVIOUS
  <2>4. PeerBecomes(w, x, m, p, q, cnt, available, settings)
    BY <2>2, <2>3
  <2>5. Sound(x, settings)
    BY <1>1, <2>4, ChangedSound, Zenon
  <2> QED
    BY <2>3, <2>5
<1>6. CASE Kill(m, p)
  <2> DEFINE q == [p EXCEPT !.killed = TRUE]
             f == [w.peers EXCEPT ![m] = (@ \ {p}) \cup {q}]
  <2>1. q \in Peers /\ q.id = p.id /\ q.unchoked = p.unchoked /\ q.killed /\ q.has = p.has
    BY <1>3 DEF Peers
  <2>2. w' = [w EXCEPT !.peers[m] = (@ \ {p}) \cup {q}]
    BY <1>6 DEF Kill, Changed
  <2> HIDE DEF q
  <2>3. w' = [w EXCEPT !.peers = f]
    BY <1>1, <2>2 DEF States
  <2>4. /\ [w.cnt EXCEPT ![m] = w.cnt[m]] = w.cnt
        /\ [w.available EXCEPT ![m] = w.available[m]] = w.available
    BY <1>3
  <2>5. f = [w.peers EXCEPT ![m] = (@ \ {p}) \cup {q}]
    OBVIOUS
  <2> HIDE DEF f
  <2>6. [w EXCEPT !.peers = f] = [w EXCEPT !.peers = f, !.cnt = w.cnt, !.available = w.available]
    BY <1>1 DEF States
  <2> DEFINE k == w.cnt[m]
             b == w.available[m]
  <2>7. k \in [Chunks -> 0..settings.max_haves] /\ b = {c \in Chunks : k[c] > 0}
    BY <1>3
  <2>8. \A d \in Chunks : \/ k[d] = w.cnt[m][d] /\ (d \in q.has => d \in p.has)
                          \/ k[d] = w.cnt[m][d] + 1
    BY <2>1
  <2>9. w' = [w EXCEPT !.peers = [w.peers EXCEPT ![m] = (@ \ {p}) \cup {q}],
                       !.cnt = [w.cnt EXCEPT ![m] = k],
                       !.available = [w.available EXCEPT ![m] = b]]
    BY <2>3, <2>4, <2>5, <2>6
  <2> HIDE DEF k, b
  <2> QED
    BY <1>5, <2>1, <2>7, <2>8, <2>9, Zenon
<1>7. ASSUME NEW c \in Chunks, OnHave(m, p, c) PROVE Sound(w', settings)
  <2> DEFINE q == [p EXCEPT !.has = @ \cup {c}]
             f == [w.peers EXCEPT ![m] = (@ \ {p}) \cup {q}]
             k == [w.cnt[m] EXCEPT ![c] = @ + 1]
             b == w.available[m] \cup {c}
             e == [w.cnt EXCEPT ![m] = k]
             a == [w.available EXCEPT ![m] = b]
  <2>1. /\ q \in Peers /\ q.id = p.id /\ q.unchoked = p.unchoked /\ q.killed = p.killed
        /\ q.has = p.has \cup {c}
    BY <1>3 DEF Peers
  <2>2. w' = [[w EXCEPT !.peers[m] = (@ \ {p}) \cup {q}] EXCEPT
                 !.cnt[m][c] = @ + 1, !.available[m] = @ \cup {c}]
    BY <1>7, Zenon DEF OnHave, Changed
  <2> HIDE DEF q
  <2>3. w' = [w EXCEPT !.peers = f, !.cnt = e, !.available = a]
    BY <1>1, <2>2 DEF States
  <2>4. w.cnt[m][c] \in 0..settings.max_haves /\ w.cnt[m][c] < settings.max_haves
    BY <1>3, <1>7, Zenon DEF OnHave
  <2>5. k \in [Chunks -> 0..settings.max_haves] /\ k[c] = w.cnt[m][c] + 1
        /\ \A d \in Chunks \ {c} : k[d] = w.cnt[m][d]
    BY <1>1, <1>3, <2>4
  <2>6. b = w.available[m] \cup {c} /\ f = [w.peers EXCEPT ![m] = (@ \ {p}) \cup {q}]
        /\ e = [w.cnt EXCEPT ![m] = k] /\ a = [w.available EXCEPT ![m] = b]
    OBVIOUS
  <2> HIDE DEF f, k, b, e, a
  <2>7. b = {d \in Chunks : k[d] > 0}
    <3>1. k[c] > 0
      BY <2>4, <2>5
    <3>2. \A d \in Chunks : d \in b <=> k[d] > 0
      BY <1>3, <2>5, <2>6, <3>1
    <3>3. b \subseteq Chunks
      BY <1>3, <2>6
    <3> QED
      BY <3>2, <3>3
  <2>8. \A d \in Chunks : \/ k[d] = w.cnt[m][d] /\ (d \in q.has => d \in p.has)
                          \/ k[d] = w.cnt[m][d] + 1
    BY <2>1, <2>5
  <2>9. w' = [w EXCEPT !.peers = [w.peers EXCEPT ![m] = (@ \ {p}) \cup {q}],
                       !.cnt = [w.cnt EXCEPT ![m] = k],
                       !.available = [w.available EXCEPT ![m] = b]]
    BY <2>3, <2>6, SMTT(30)
  <2> QED
    BY <1>5, <2>1, <2>5, <2>7, <2>8, <2>9, Zenon
<1>8. ASSUME NEW bs \in SUBSET Chunks, OnBitSet(m, p, bs) PROVE Sound(w', settings)
  <2> DEFINE q == [p EXCEPT !.has = bs]
             f == [w.peers EXCEPT ![m] = (@ \ {p}) \cup {q}]
             k == [c \in Chunks |-> IF c \in bs THEN w.cnt[m][c] + 1 ELSE w.cnt[m][c]]
             b == w.available[m] \cup bs
             e == [w.cnt EXCEPT ![m] = k]
             a == [w.available EXCEPT ![m] = b]
  <2>1. /\ q \in Peers /\ q.id = p.id /\ q.unchoked = p.unchoked /\ q.killed = p.killed /\ q.has = bs
    BY <1>3, SMTT(30) DEF Peers
  <2>2. w' = [[w EXCEPT !.peers[m] = (@ \ {p}) \cup {q}] EXCEPT
                 !.cnt[m] = [c \in Chunks |-> IF c \in bs THEN @[c] + 1 ELSE @[c]],
                 !.available[m] = @ \cup bs]
    BY <1>8, Zenon DEF OnBitSet, Changed
  <2> HIDE DEF q
  <2>3. w' = [w EXCEPT !.peers = f, !.cnt = e, !.available = a]
    BY <1>1, <2>2, SMTT(30) DEF States
  <2>4. \A c \in Chunks : /\ w.cnt[m][c] \in 0..settings.max_haves
                          /\ c \in bs => w.cnt[m][c] < settings.max_haves
    BY <1>3, <1>8, Zenon DEF OnBitSet
  <2>5. k \in [Chunks -> 0..settings.max_haves]
        /\ \A c \in Chunks : k[c] = IF c \in bs THEN w.cnt[m][c] + 1 ELSE w.cnt[m][c]
    BY <1>1, <2>4
  <2>6. b = w.available[m] \cup bs /\ f = [w.peers EXCEPT ![m] = (@ \ {p}) \cup {q}]
        /\ e = [w.cnt EXCEPT ![m] = k] /\ a = [w.available EXCEPT ![m] = b]
    OBVIOUS
  <2> HIDE DEF f, k, b, e, a
  <2>7. b = {d \in Chunks : k[d] > 0}
    <3>1. \A d \in Chunks : d \in b <=> k[d] > 0
      BY <1>3, <2>4, <2>5, <2>6
    <3>2. b \subseteq Chunks
      BY <1>3, <2>6
    <3> QED
      BY <3>1, <3>2
  <2>8. \A d \in Chunks : \/ k[d] = w.cnt[m][d] /\ (d \in q.has => d \in p.has)
                          \/ k[d] = w.cnt[m][d] + 1
    BY <2>1, <2>5
  <2>9. w' = [w EXCEPT !.peers = [w.peers EXCEPT ![m] = (@ \ {p}) \cup {q}],
                       !.cnt = [w.cnt EXCEPT ![m] = k],
                       !.available = [w.available EXCEPT ![m] = b]]
    BY <2>3, <2>6
  <2> QED
    BY <1>5, <2>1, <2>5, <2>7, <2>8, <2>9, Zenon
<1> QED
  BY <1>6, <1>7, <1>8

LEMMA UpdateKeeps ==
    ASSUME IInv, NEW m \in Managers, Update(m)
    PROVE  IInv'
<1>1. /\ settings \in Worlds /\ Sound(w, settings)
      /\ incoming \in [RemoteSet -> IncomingSet] /\ w.started[m]
  BY DEF IInv, IncomingSet, Update
<1>2. settings' = settings /\ incoming' = incoming
  BY DEF Update, Step
<1>3. SUFFICES Sound(w', settings)
  BY <1>1, <1>2, StepKeeps
<1> DEFINE u == RemoveKilled(w, m)
<1>4. PICK o \in ConnectOutcomes(m) :
         \/ w' = connectToPeers(u, m, o)
         \/ \E S \in {connectToPeers(u, m, o).peers[m], killSeeders(connectToPeers(u, m, o).peers[m])} :
               w' \in doChoking(connectToPeers(u, m, o), m, S)
  BY DEF Update
<1>5. Sound(u, settings) /\ u.started[m]
  BY <1>1, RemoveKilledSound
<1> HIDE DEF u
<1> DEFINE v == connectToPeers(u, m, o)
<1>6. Sound(v, settings) /\ v.started[m]
  BY <1>1, <1>5, ConnectSound
<1>7. \/ w' = v
      \/ \E S \in {v.peers[m], killSeeders(v.peers[m])} : w' \in doChoking(v, m, S)
  BY <1>4
<1> HIDE DEF v
<1>8. CASE w' = v
  BY <1>6, <1>8
<1>9. ASSUME NEW S \in {v.peers[m], killSeeders(v.peers[m])}, w' \in doChoking(v, m, S)
      PROVE  Sound(w', settings)
  BY <1>1, <1>6, <1>9, ChokingSound
<1> QED
  BY <1>7, <1>8, <1>9

LEMMA AuthsOfTorrents ==
    ASSUME NEW s \in Seq(Auths)
    PROVE  DOMAIN s = 1..Len(s) /\ \A i \in 1..Len(s) : s[i].m \in Managers
<1>1. \A i \in 1..Len(s) : s[i] \in Auths
  OBVIOUS
<1>2. \A a \in Auths : a.m \in Managers
  BY DEF Auths
<1> QED
  BY <1>1, <1>2

\* Starts, stops and what trackers tell.
LEMMA StartKeeps ==
    ASSUME IInv, NEW m \in Managers, Start(m)
    PROVE  IInv'
<1>1. /\ settings \in Worlds /\ Sound(w, settings) /\ w \in States(settings.max_haves)
      /\ incoming \in [RemoteSet -> IncomingSet]
  BY DEF IInv, Sound, IncomingSet
<1>2. settings' = settings /\ incoming' = incoming
  BY DEF Start, Step
<1>3. SUFFICES Sound(w', settings)
  BY <1>1, <1>2, StepKeeps
<1> DEFINE s == [w.started EXCEPT ![m] = TRUE]
           f == [w.potential EXCEPT ![m] = @ \cup w.saved[m]]
<1>4. /\ w.started \in [Managers -> BOOLEAN] /\ w.potential \in [Managers -> SUBSET RemoteSet]
      /\ w.saved \in [Managers -> SUBSET RemoteSet]
  BY <1>1 DEF States
<1>5. w' = [w EXCEPT !.started = s, !.potential = f]
  BY <1>1 DEF Start, start, loadPeerList, States
<1>6. s \in [Managers -> BOOLEAN] /\ f \in [Managers -> SUBSET RemoteSet]
      /\ \A n \in Managers : w.started[n] => s[n]
  BY <1>4
<1> HIDE DEF s, f
<1>7. /\ w' \in States(settings.max_haves) /\ w'.started = s
      /\ w'.peers = w.peers /\ w'.cnt = w.cnt /\ w'.available = w.available
      /\ w'.extra = w.extra /\ w'.auths = w.auths /\ w'.num_pending = w.num_pending
      /\ w'.total_connections = w.total_connections
  BY <1>1, <1>5, <1>6 DEF States
<1> DEFINE x == w'
<1>8. AliveOf(x) = AliveOf(w) /\ ExtraOf(x) = ExtraOf(w)
  BY <1>7 DEF AliveOf, ExtraOf
<1>9. \A n \in Managers : TorrentSound(x, n, settings)
  BY <1>1, <1>6, <1>7 DEF Sound, TorrentSound
<1>10. \A i \in DOMAIN x.auths : x.started[x.auths[i].m]
  <2>0. w.auths \in Seq(Auths)
    BY <1>1 DEF States
  <2>1. \A i \in DOMAIN w.auths : w.auths[i].m \in Managers
    BY <2>0, AuthsOfTorrents
  <2> QED
    BY <1>1, <1>6, <1>7, <2>1 DEF Sound
<1> QED
  BY <1>1, <1>7, <1>8, <1>9, <1>10 DEF Sound

LEMMA StopKeeps ==
    ASSUME IInv, NEW m \in Managers, Stop(m)
    PROVE  IInv'
<1>1. /\ settings \in Worlds /\ Sound(w, settings) /\ w \in States(settings.max_haves)
      /\ incoming \in [RemoteSet -> IncomingSet] /\ TorrentSound(w, m, settings)
      /\ settings.max_haves \in Nat
  BY SettingsTyped DEF IInv, Sound, IncomingSet
<1>2. settings' = settings /\ incoming' = incoming
  BY DEF Stop
<1>3. SUFFICES Sound(w', settings)
  BY <1>1, <1>2, StepKeeps
<1> DEFINE zero == [c \in Chunks |-> 0]
           s == [w.started EXCEPT ![m] = FALSE]
           sv == [w.saved EXCEPT ![m] = w.potential[m] \cup {p.id : p \in {q \in w.peers[m] : q.out}}]
           k == [w.cnt EXCEPT ![m] = zero]
           b == [w.available EXCEPT ![m] = {}]
           l == Others(w.auths, m)
           connecting == {i \in DOMAIN w.auths : w.auths[i].m = m /\ w.auths[i].phase = "connecting"}
           nc == Less(w.num_connecting, Count(connecting))
           np == [w.num_pending EXCEPT ![m] = 0]
           f == [w.peers EXCEPT ![m] = {}]
           t == Less(w.total_connections, Count(w.peers[m]))
<1>4. /\ w.started \in [Managers -> BOOLEAN] /\ w.potential \in [Managers -> SUBSET RemoteSet]
      /\ w.saved \in [Managers -> SUBSET RemoteSet] /\ w.peers \in [Managers -> SUBSET Peers]
      /\ w.cnt \in [Managers -> [Chunks -> 0..settings.max_haves]]
      /\ w.available \in [Managers -> SUBSET Chunks] /\ w.num_pending \in [Managers -> Nat]
      /\ w.auths \in Seq(Auths) /\ w.num_connecting \in Nat /\ w.total_connections \in Nat
  BY <1>1 DEF States
<1>5. w' = [w EXCEPT !.saved = sv, !.started = s, !.cnt = k, !.available = b, !.auths = l,
                     !.num_connecting = nc, !.num_pending = np, !.total_connections = t, !.peers = f]
  <2> DEFINE v == savePeerList(w, m)
             u == stop(v, m)
  <2>1. v = [w EXCEPT !.saved = sv]
    BY <1>1 DEF savePeerList, States
  <2>2. w' = closeAllConnections(u, m)
    BY DEF Stop
  <2> HIDE DEF sv, v
  <2>3. /\ v.auths = w.auths /\ v.started = w.started /\ v.cnt = w.cnt /\ v.available = w.available
        /\ v.num_connecting = w.num_connecting /\ v.num_pending = w.num_pending
        /\ v.peers = w.peers /\ v.total_connections = w.total_connections
    BY <1>1, <2>1 DEF States
  <2>4. u = [v EXCEPT !.started[m] = FALSE, !.cnt[m] = zero, !.available[m] = {}, !.auths = l,
                      !.num_connecting = nc, !.num_pending[m] = 0]
    BY <2>3 DEF stop
  <2> HIDE DEF l, nc, zero, u
  <2>5. u = [w EXCEPT !.saved = sv, !.started = s, !.cnt = k, !.available = b, !.auths = l,
                      !.num_connecting = nc, !.num_pending = np]
    BY <1>1, <2>1, <2>4 DEF States
  <2> HIDE DEF s, k, b, np
  <2>6. u.peers = w.peers /\ u.total_connections = w.total_connections
    BY <1>1, <2>5 DEF States
  <2>7. w' = [u EXCEPT !.total_connections = t, !.peers[m] = {}]
    BY <2>2, <2>6 DEF closeAllConnections
  <2> HIDE DEF t
  <2> QED
    BY <1>1, <2>5, <2>7 DEF States
<1>6. /\ l \in Seq(Auths) /\ Len(l) <= Len(w.auths) /\ Len(l) \in Nat /\ Len(w.auths) \in Nat
      /\ \A j \in 1..Len(l) : \E i \in 1..Len(w.auths) : l[j] = w.auths[i] /\ w.auths[i].m # m
      /\ \A n : n # m => Count(PendingIn(l, n)) = Count(PendingIn(w.auths, n))
      /\ PendingIn(l, m) = {}
  <2>1. w.auths \in Seq(Auths)
    BY <1>4
  <2>2. l = Others(w.auths, m)
    OBVIOUS
  <2> HIDE DEF l
  <2>3. /\ l \in Seq(Auths)
        /\ Len(l) <= Len(w.auths)
        /\ \A j \in 1..Len(l) : \E i \in 1..Len(w.auths) : l[j] = w.auths[i] /\ w.auths[i].m # m
        /\ \A n : n # m => Count(PendingIn(l, n)) = Count(PendingIn(w.auths, n))
        /\ PendingIn(l, m) = {}
    <3>1. PICK a : a = w.auths
      OBVIOUS
    <3>2. a \in Seq(Auths) /\ l = Others(a, m)
      BY <2>1, <2>2, <3>1
    <3>3. /\ l \in Seq(Auths)
          /\ Len(l) <= Len(a)
          /\ \A j \in 1..Len(l) : \E i \in 1..Len(a) : l[j] = a[i] /\ a[i].m # m
          /\ \A n : n # m => Count(PendingIn(l, n)) = Count(PendingIn(a, n))
          /\ PendingIn(l, m) = {}
      BY <3>2, OthersSound
    <3> QED
      BY <3>1, <3>3
  <2>4. Len(l) \in Nat /\ Len(w.auths) \in Nat
    BY <2>1, <2>3
  <2> QED
    BY <2>3, <2>4
<1>7. /\ Count(w.peers[m]) \in Nat /\ Count(Alive(w.peers[m])) \in Nat /\ w.extra[m] \in Nat
      /\ settings.max_connections \in Nat
  BY <1>1, StateTyped, SettingsTyped
<1>8. t \in Nat /\ t + Count(w.peers[m]) >= w.total_connections
  BY <1>4, <1>7 DEF Less
<1>9. nc \in Nat
  <2>0. w.auths \in Seq(Auths)
    BY <1>4
  <2>1. IsFiniteSet(PendingIn(w.auths, m)) /\ connecting \in SUBSET PendingIn(w.auths, m)
    <3>1. IsFiniteSet(PendingIn(w.auths, m))
      BY <2>0, PendingFinite
    <3>2. connecting \in SUBSET PendingIn(w.auths, m)
      BY DEF PendingIn
    <3> QED
      BY <3>1, <3>2
  <2>2. Count(connecting) \in Nat
    BY <2>1, Fewer
  <2> QED
    BY <1>4, <2>2 DEF Less
<1>10. /\ s \in [Managers -> BOOLEAN] /\ np \in [Managers -> Nat] /\ f \in [Managers -> SUBSET Peers]
       /\ k \in [Managers -> [Chunks -> 0..settings.max_haves]] /\ b \in [Managers -> SUBSET Chunks]
       /\ sv \in [Managers -> SUBSET RemoteSet]
  <2>1. zero \in [Chunks -> 0..settings.max_haves]
    BY <1>1
  <2>2. k \in [Managers -> [Chunks -> 0..settings.max_haves]]
    <3> HIDE DEF zero
    <3> QED
      BY <1>4, <2>1
  <2>3. {p.id : p \in {q \in w.peers[m] : q.out}} \subseteq RemoteSet
    BY <1>4 DEF Peers
  <2> QED
    BY <1>4, <2>2, <2>3
<1>11. /\ s[m] = FALSE /\ k[m] = zero /\ b[m] = {} /\ np[m] = 0 /\ f[m] = {}
       /\ \A n \in Managers \ {m} : /\ s[n] = w.started[n] /\ k[n] = w.cnt[n] /\ b[n] = w.available[n]
                                    /\ np[n] = w.num_pending[n] /\ f[n] = w.peers[n]
  BY <1>4
<1> HIDE DEF s, sv, k, b, l, nc, np, f, t
<1> DEFINE x == w'
<1>12. /\ x \in States(settings.max_haves) /\ x.started = s /\ x.cnt = k /\ x.available = b
       /\ x.auths = l /\ x.num_pending = np /\ x.total_connections = t /\ x.peers = f
       /\ x.extra = w.extra
  BY <1>1, <1>5, <1>6, <1>8, <1>9, <1>10, Zenon DEF States
<1> HIDE DEF x
<1>13. SameBut(w, x, m)
  BY <1>6, <1>11, <1>12 DEF SameBut
<1>14. Count(Alive({})) = 0 /\ Count({}) = 0 /\ PeerSet({}) /\ Counted({}, zero, {})
  BY NoPeers
<1>15. TorrentSound(x, m, settings)
  <2>1. Count(PendingIn(x.auths, m)) = 0 /\ x.num_pending[m] = 0 /\ x.peers[m] = {}
    BY <1>6, <1>11, <1>12, <1>14
  <2>2. PeerSet(x.peers[m]) /\ Counted(x.peers[m], x.cnt[m], x.available[m])
    BY <1>11, <1>12, <1>14
  <2>3. Count(Alive(x.peers[m])) + Count(PendingIn(x.auths, m)) <= settings.max_connections + x.extra[m]
    BY <1>7, <1>12, <1>14, <2>1
  <2> QED
    BY <2>1, <2>2, <2>3 DEF TorrentSound
<1>16. \A i \in DOMAIN x.auths : x.started[x.auths[i].m]
  <2>0. w.auths \in Seq(Auths)
    BY <1>4
  <2>1. \A i \in 1..Len(w.auths) : w.started[w.auths[i].m] /\ w.auths[i].m \in Managers
    <3>1. \A i \in 1..Len(w.auths) : w.auths[i].m \in Managers
      BY <2>0, AuthsOfTorrents
    <3>2. \A i \in 1..Len(w.auths) : w.started[w.auths[i].m]
      BY <1>1, <2>0 DEF Sound
    <3> QED
      BY <3>1, <3>2
  <2> QED
    BY <1>6, <1>11, <1>12, <2>1, SMTT(30)
<1>17. Balanced(w, x, m, settings)
  <2> DEFINE c == Count(w.peers[m])
             a == Count(Alive(w.peers[m]))
             e == w.extra[m]
             h == Len(w.auths)
             j == Len(l)
             y == w.total_connections
  <2>1. {c, a, e, h, j, y, t} \subseteq Nat /\ j <= h /\ t + c >= y
    BY <1>4, <1>6, <1>7, <1>8
  <2> HIDE DEF c, a, e, h, j, y
  <2>2. t + c + h >= y + 0 + j /\ 0 + j + e <= a + h + e
    BY <2>1
  <2> QED
    BY <1>11, <1>12, <1>14, <2>2 DEF Balanced, c, a, e, h, j, y
<1>18. Sound(x, settings)
  BY <1>1, <1>12, <1>13, <1>15, <1>16, <1>17, OneTorrent
<1> QED
  BY <1>18 DEF x

LEMMA PotentialKeeps ==
    ASSUME IInv, NEW m \in Managers, NEW r \in settings.swarm[m], addPotentialPeer(m, r)
    PROVE  IInv'
<1>1. /\ settings \in Worlds /\ Sound(w, settings) /\ w \in States(settings.max_haves)
      /\ incoming \in [RemoteSet -> IncomingSet]
  BY DEF IInv, Sound, IncomingSet
<1>2. settings' = settings /\ incoming' = incoming
  BY DEF addPotentialPeer
<1> DEFINE f == [w.potential EXCEPT ![m] = @ \cup {r}]
<1>3. w' = [w EXCEPT !.potential = f]
  BY <1>1 DEF addPotentialPeer, States
<1>4. f \in [Managers -> SUBSET RemoteSet]
  <2>1. w.potential \in [Managers -> SUBSET RemoteSet] /\ r \in RemoteSet
    BY <1>1, SettingsTyped DEF States
  <2> QED
    BY <2>1
<1> HIDE DEF f
<1>5. /\ w' \in States(settings.max_haves)
      /\ w'.peers = w.peers /\ w'.cnt = w.cnt /\ w'.available = w.available
      /\ w'.started = w.started /\ w'.extra = w.extra
      /\ w'.auths = w.auths /\ w'.num_pending = w.num_pending
      /\ w'.total_connections = w.total_connections
  BY <1>1, <1>3, <1>4 DEF States
<1>6. Sound(w', settings)
  BY <1>1, <1>5, Uncounted
<1> QED
  BY <1>1, <1>2, <1>6, StepKeeps

-----------------------------------------------------------------------------
(* The theorems *)

LEMMA InitHolds == Init => IInv
<1> SUFFICES ASSUME Init PROVE IInv
  OBVIOUS
<1>1. settings \in Worlds /\ settings.max_haves \in Nat
      /\ settings.max_connections \in Nat /\ settings.max_total_connections \in Nat
  BY SettingsTyped DEF Init
<1>2. incoming \in [RemoteSet -> IncomingSet]
  BY DEF Init, IncomingSet
<1> DEFINE zero == [c \in Chunks |-> 0]
           nothing == [m \in Managers |-> {}]
<1>3. zero \in [Chunks -> 0..settings.max_haves]
  BY <1>1
<1>4. /\ w.started = [m \in Managers |-> FALSE] /\ w.peers = nothing
      /\ w.cnt = [m \in Managers |-> zero] /\ w.available = nothing
      /\ w.num_pending = [m \in Managers |-> 0] /\ w.extra = [m \in Managers |-> 0]
      /\ w.auths = <<>> /\ w.total_connections = 0
  BY DEF Init
<1>5. w \in States(settings.max_haves)
  <2>1. /\ nothing \in [Managers -> SUBSET Peers] /\ nothing \in [Managers -> SUBSET RemoteSet]
        /\ nothing \in [Managers -> SUBSET Chunks]
    OBVIOUS
  <2>2. <<>> \in Seq(Auths)
    OBVIOUS
  <2>3. [m \in Managers |-> 0] \in [Managers -> Nat]
        /\ [m \in Managers |-> FALSE] \in [Managers -> BOOLEAN]
    OBVIOUS
  <2> HIDE DEF zero
  <2>4. [m \in Managers |-> zero] \in [Managers -> [Chunks -> 0..settings.max_haves]]
    BY <1>3
  <2> HIDE DEF nothing
  <2> QED
    BY <2>1, <2>2, <2>3, <2>4 DEF Init, States, zero, nothing
<1>6. Count(Alive({})) = 0 /\ Count({}) = 0 /\ PeerSet({}) /\ Counted({}, zero, {})
  BY NoPeers
<1> HIDE DEF zero
<1>7. \A m \in Managers : w.peers[m] = {} /\ w.cnt[m] = zero /\ w.available[m] = {}
                          /\ w.num_pending[m] = 0 /\ w.extra[m] = 0
  BY <1>4
<1>8. \A m : PendingIn(w.auths, m) = {}
  BY <1>4 DEF PendingIn
<1>9. \A m \in Managers : TorrentSound(w, m, settings)
  <2> SUFFICES ASSUME NEW m \in Managers PROVE TorrentSound(w, m, settings)
    OBVIOUS
  <2>1. PeerSet(w.peers[m]) /\ Counted(w.peers[m], w.cnt[m], w.available[m])
    BY <1>6, <1>7, Zenon
  <2>2. Count(PendingIn(w.auths, m)) = 0
    BY <1>6, <1>8, Zenon
  <2>3. Count(Alive(w.peers[m])) = 0
    BY <1>6, <1>7, Zenon
  <2>4. w.peers[m] = {} /\ w.num_pending[m] = 0 /\ w.extra[m] = 0
    BY <1>7
  <2> QED
    BY <1>1, <2>1, <2>2, <2>3, <2>4 DEF TorrentSound
<1>10. DOMAIN w.auths = {} /\ Len(w.auths) = 0
  BY <1>4
<1>11. Together(w.peers) = {} /\ Together(AliveOf(w)) = {} /\ Together(ExtraOf(w)) = {}
  <2>1. \A m \in Managers : AliveOf(w)[m] = {}
    BY <1>7 DEF AliveOf, Alive
  <2>2. \A m \in Managers : ExtraOf(w)[m] = {}
    BY <1>7 DEF ExtraOf
  <2> QED
    BY <1>7, <2>1, <2>2 DEF Together
<1>12. /\ w.total_connections >= Count(Together(w.peers)) + Len(w.auths)
       /\ Count(Together(AliveOf(w))) + Len(w.auths)
            <= settings.max_total_connections + Count(Together(ExtraOf(w)))
  <2>1. /\ Count(Together(w.peers)) = 0 /\ Count(Together(AliveOf(w))) = 0
        /\ Count(Together(ExtraOf(w))) = 0
    BY <1>6, <1>11, Zenon
  <2>2. w.total_connections = 0
    BY <1>4
  <2> QED
    BY <1>1, <1>10, <2>1, <2>2
<1>13. Sound(w, settings)
  BY <1>5, <1>9, <1>10, <1>12 DEF Sound
<1> QED
  BY <1>1, <1>2, <1>13 DEF IInv, IncomingSet

LEMMA NextKeeps == IInv /\ [Next]_vars => IInv'
<1> SUFFICES ASSUME IInv, [Next]_vars PROVE IInv'
  OBVIOUS
<1>1. settings.swarm \in [Managers -> SUBSET RemoteSet]
  BY SettingsTyped DEF IInv
<1>2. ASSUME NEW m \in Managers,
             \/ Start(m) \/ Stop(m)
             \/ \E r \in settings.swarm[m] : addPotentialPeer(m, r)
             \/ Update(m)
             \/ \E r \in settings.swarm[m] : IncomingPart(r, m) \/ IncomingWhole(r, m)
             \/ \E p \in w.peers[m] :
                   \/ Kill(m, p)
                   \/ \E c \in Chunks : OnHave(m, p, c)
                   \/ \E bs \in SUBSET Chunks : OnBitSet(m, p, bs)
      PROVE  IInv'
  <2>1. CASE Start(m)
    BY <2>1, StartKeeps
  <2>2. CASE Stop(m)
    BY <2>2, StopKeeps
  <2>3. ASSUME NEW r \in settings.swarm[m], addPotentialPeer(m, r) PROVE IInv'
    BY <2>3, PotentialKeeps
  <2>4. CASE Update(m)
    BY <2>4, UpdateKeeps
  <2>5. ASSUME NEW r \in settings.swarm[m], IncomingPart(r, m) \/ IncomingWhole(r, m) PROVE IInv'
    BY <1>1, <2>5, IncomingKeeps
  <2>6. ASSUME NEW p \in w.peers[m],
               \/ Kill(m, p)
               \/ \E c \in Chunks : OnHave(m, p, c)
               \/ \E bs \in SUBSET Chunks : OnBitSet(m, p, bs)
        PROVE  IInv'
    BY <2>6, PeerKeeps
  <2> QED
    BY <1>2, <2>1, <2>2, <2>3, <2>4, <2>5, <2>6
<1>3. ASSUME NEW r \in RemoteSet, Accept(r) \/ IncomingExchangesKeys(r) \/ IncomingFails(r)
      PROVE  IInv'
  BY <1>3, IncomingKeeps
<1>4. ASSUME NEW i \in DOMAIN w.auths,
             \/ Connected(i) \/ ConnectFails(i) \/ ExchangeKeys(i) \/ PartOfHandshake(i)
             \/ WholeHandshake(i) \/ HandshakeFails(i) \/ Timeout(i)
      PROVE  IInv'
  BY <1>4, OutgoingKeeps
<1>5. CASE UNCHANGED vars
  BY <1>5 DEF vars, IInv
<1> QED
  BY <1>2, <1>3, <1>4, <1>5 DEF Next

\* However handshakes of both directions, updates, starts and stops interleave, the
\* peer managers (peermanager.cpp) stay sound: peers and handshakes are those of
\* torrents that run, and what is counted of them is right.
THEOREM Invariant == Spec => []IInv
<1>1. Init => IInv
  BY InitHolds
<1>2. IInv /\ [Next]_vars => IInv'
  BY NextKeeps
<1> QED
  BY <1>1, <1>2, PTL DEF Spec

\* For every number of torrents and clients and all limits: the pending connections of
\* a torrent are counted exactly, the global count of PeerManager misses no connection,
\* and neither limit is exceeded, whatever is retried, stopped or fails in between.
THEOREM LimitsHold == Spec => []LimitsAreKept
<1>1. IInv => LimitsAreKept
  <2> SUFFICES ASSUME IInv PROVE LimitsAreKept
    OBVIOUS
  <2>1. Sound(w, settings) /\ settings \in Worlds /\ \A m \in Managers : TorrentSound(w, m, settings)
    BY DEF IInv, Sound
  <2>2. TypeOK
    BY DEF IInv, Sound, TypeOK, IncomingSet
  <2>3. \A m \in Managers : Pending(m) = PendingIn(w.auths, m) /\ Living(m) = Alive(w.peers[m])
    BY DEF Pending, PendingIn, Living, Alive
  <2>4. \A m \in Managers : w.num_pending[m] = Count(Pending(m))
    BY <2>1, <2>3 DEF TorrentSound
  <2>5. settings.max_connections > 0 =>
          \A m \in Managers : Connections(m) <= settings.max_connections + w.extra[m]
    BY <2>1, <2>3 DEF TorrentSound, Connections
  <2>6. AllPeers = Together(w.peers) /\ AllLiving = Together(AliveOf(w)) /\ AllExtra = Together(ExtraOf(w))
    BY <2>3 DEF AllPeers, AllLiving, AllExtra, AliveOf, ExtraOf
  <2> QED
    BY <2>1, <2>2, <2>4, <2>5, <2>6 DEF LimitsAreKept, Sound
<1> QED
  BY <1>1, Invariant, PTL

\* A torrent has one connection to a client, although both may begin one at the same
\* time and its address may be tried again during a handshake, and none to ourselves.
THEOREM OneConnectionEach == Spec => []OnePeerEach
<1>1. IInv => OnePeerEach
  BY DEF IInv, Sound, TorrentSound, PeerSet, OnePeerEach
<1> QED
  BY <1>1, Invariant, PTL

\* The chunk counter (chunkcounter.cpp) misses no chunk of a peer, the available chunks
\* are those that are counted, and no more peers are unchoked than there are slots.
THEOREM CountsHold == Spec => []SwarmIsCounted
<1>1. IInv => SwarmIsCounted
  <2> SUFFICES ASSUME IInv PROVE SwarmIsCounted
    OBVIOUS
  <2>1. \A m \in Managers : PeerSet(w.peers[m]) /\ Counted(w.peers[m], w.cnt[m], w.available[m])
    BY DEF IInv, Sound, TorrentSound
  <2> QED
    BY <2>1 DEF PeerSet, Counted, Served, Having, SwarmIsCounted
<1> QED
  BY <1>1, Invariant, PTL
=============================================================================
