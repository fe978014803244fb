------------------------ MODULE ChunkDownloadProofs ------------------------
(***************************************************************************)
(* Proofs about ChunkDownload, for every number of peers and pieces and    *)
(* for every size of the queues.                                           *)
(***************************************************************************)
EXTENDS ChunkDownload, SequenceTheorems, WellFoundedInduction, TLAPS

Queued(d) == Range(d.reqs) \cup Range(d.wait)

\* The queues of a peer are within their limits, and the pieces marked as asked
\* of it are in them unless they have arrived.
Sound(d, have) ==
    /\ d \in PDs
    /\ Len(d.reqs) <= MaxReqs /\ Len(d.wait) <= MaxWait
    /\ d.ds \ have \subseteq Queued(d)

\* In the first session the pieces at hand come from the known providers.
ProvidersKnown ==
    /\ session \in Nat \ {0}
    /\ session = 1 => \A i \in pieces : source[i] \in piece_providers

IInv ==
    /\ TypeOK
    /\ \A p \in Peers : Sound(pd[p], pieces)
    /\ \A p \in Peers \ pdown : pd[p].ds = {}
    /\ chunk # "active" => pdown = {}
    /\ ProvidersKnown
    /\ OnlyBadPeersBlamed

-----------------------------------------------------------------------------
(* Queues *)

\* f goes over s as Without does.
Filters(f, s, i) == f = [n \in 0..Len(s) |-> IF n = 0 THEN <<>>
                                             ELSE IF s[n] = i THEN f[n - 1]
                                             ELSE Append(f[n - 1], s[n])]

\* The list that TQValueList::remove leaves is well defined.
LEMMA FilterDefined ==
    ASSUME NEW s, Len(s) \in Nat, NEW i
    PROVE  \E f : Filters(f, s, i)
<1> DEFINE Val(f, n) == IF n = 0 THEN <<>>
                        ELSE IF s[n] = i THEN f[n - 1] ELSE Append(f[n - 1], s[n])
           Upto(m) == \E f : f = [n \in 0..m |-> Val(f, n)]
           Bad == {m \in 0..Len(s) : ~Upto(m)}
<1>1. Bad \subseteq Nat
  OBVIOUS
<1>2. ASSUME Bad # {} PROVE FALSE
  <2> HIDE DEF Bad
  <2>1. PICK m \in Bad : \A y \in Bad : <<y, m>> \notin OpToRel(<, Nat)
    BY <1>1, <1>2, NatLessThanWellFounded, WFMin, Zenon
  <2>2. \A y \in Bad : ~(y < m)
    BY <1>1, <2>1, Zenon DEF OpToRel
  <2> USE DEF Bad
  <2>3. CASE m = 0
    <3> DEFINE f == [n \in 0..0 |-> <<>>]
    <3>1. f = [n \in 0..0 |-> Val(f, n)]
      OBVIOUS
    <3>2. Upto(0)
      <4> HIDE DEF f
      <4> QED BY <3>1
    <3> QED
      BY <2>3, <3>2
  <2>4. CASE m # 0
    <3>1. m - 1 \in 0..Len(s) /\ m - 1 < m /\ m \in Nat
      BY <2>4
    <3>2. Upto(m - 1)
      <4> HIDE DEF Upto
      <4> QED BY <2>2, <3>1
    <3>3. PICK g : g = [n \in 0..(m - 1) |-> Val(g, n)]
      BY <3>2
    <3> DEFINE f == [n \in 0..m |-> IF n = m THEN Val(g, m) ELSE g[n]]
    <3>4. \A n \in 0..(m - 1) : f[n] = g[n] /\ g[n] = Val(g, n)
      <4>1. \A n \in 0..(m - 1) : f[n] = g[n]
        BY <3>1
      <4> HIDE DEF f
      <4>2. \A n \in 0..(m - 1) : g[n] = Val(g, n)
        BY <3>3
      <4> QED BY <4>1, <4>2
    <3>5. \A n \in 0..m : f[n] = Val(f, n)
      <4> SUFFICES ASSUME NEW n \in 0..m PROVE f[n] = Val(f, n)
        OBVIOUS
      <4>1. n # 0 => n - 1 \in 0..(m - 1) /\ f[n - 1] = g[n - 1]
        BY <3>1, <3>4
      <4>2. f[n] = IF n = m THEN Val(g, m) ELSE g[n]
        OBVIOUS
      <4>3. f[n] = Val(g, n)
        <5> HIDE DEF f, Val
        <5>1. n # m => n \in 0..(m - 1)
          BY <3>1
        <5> QED
          BY <4>2, <5>1, <3>4
      <4> HIDE DEF f
      <4> QED BY <4>1, <4>3
    <3>6. f = [n \in 0..m |-> f[n]]
      OBVIOUS
    <3> HIDE DEF f
    <3>7. f = [n \in 0..m |-> Val(f, n)]
      BY <3>5, <3>6
    <3>8. Upto(m)
      BY <3>7
    <3> QED
      BY <3>8
  <2> QED
    BY <2>3, <2>4
<1>3. Upto(Len(s))
  BY <1>2
<1> QED
  BY <1>3 DEF Filters

\* It holds what was there but i, and is no longer.
LEMMA WithoutSound ==
    ASSUME NEW T, NEW s \in Seq(T), NEW i
    PROVE  /\ Without(s, i) \in Seq(T)
           /\ Range(Without(s, i)) = Range(s) \ {i}
           /\ Len(Without(s, i)) <= Len(s)
<1> DEFINE Val(f, n) == IF n = 0 THEN <<>>
                        ELSE IF s[n] = i THEN f[n - 1] ELSE Append(f[n - 1], s[n])
           u == CHOOSE f : f = [n \in 0..Len(s) |-> Val(f, n)]
           Good(n) == /\ u[n] \in Seq(T)
                      /\ Range(u[n]) = {s[k] : k \in 1..n} \ {i}
                      /\ Len(u[n]) <= n
           Bad == {m \in 0..Len(s) : ~Good(m)}
<1>1. Without(s, i) = u[Len(s)]
  BY DEF Without
<1>2. u = [n \in 0..Len(s) |-> Val(u, n)]
  <2>1. \E f : f = [n \in 0..Len(s) |-> Val(f, n)]
    <3>1. Len(s) \in Nat
      OBVIOUS
    <3>2. PICK f : Filters(f, s, i)
      BY <3>1, FilterDefined, Zenon
    <3> QED
      BY <3>2 DEF Filters
  <2> HIDE DEF Val
  <2> QED
    BY <2>1, Zenon
<1>3. \A n \in 0..Len(s) : u[n] = Val(u, n)
  <2> HIDE DEF u
  <2> QED BY <1>2
<1> HIDE DEF u
<1>4. ASSUME Bad # {} PROVE FALSE
  <2>0. Bad \subseteq Nat
    OBVIOUS
  <2> HIDE DEF Bad
  <2>1. PICK m \in Bad : \A y \in Bad : <<y, m>> \notin OpToRel(<, Nat)
    BY <2>0, <1>4, NatLessThanWellFounded, WFMin, Zenon
  <2>2. \A y \in Bad : ~(y < m)
    BY <2>0, <2>1, Zenon DEF OpToRel
  <2> USE DEF Bad
  <2>3. CASE m = 0
    <3>1. u[m] = <<>>
      BY <1>3, <2>3
    <3>2. Range(<<>>) = {} /\ {s[k] : k \in 1..0} = {}
      BY DEF Range
    <3>3. Good(m)
      BY <3>1, <3>2, <2>3
    <3> QED
      BY <3>3
  <2>4. CASE m # 0
    <3>1. m - 1 \in 0..Len(s) /\ m - 1 < m /\ m \in 1..Len(s)
      BY <2>4
    <3>2. Good(m - 1)
      <4> HIDE DEF Good
      <4> QED BY <2>2, <3>1
    <3>3. s[m] \in T /\ {s[k] : k \in 1..m} = {s[k] : k \in 1..(m - 1)} \cup {s[m]}
      BY <3>1
    <3>4. CASE s[m] = i
      <4>1. u[m] = u[m - 1]
        BY <1>3, <2>4, <3>4
      <4> QED
        BY <3>2, <3>3, <3>4, <4>1
    <3>5. CASE s[m] # i
      <4>1. u[m] = Append(u[m - 1], s[m])
        BY <1>3, <2>4, <3>5
      <4> DEFINE v == u[m - 1]
      <4>2. v \in Seq(T) /\ Range(v) = {s[k] : k \in 1..(m - 1)} \ {i} /\ Len(v) <= m - 1
        BY <3>2
      <4>3. u[m] = Append(v, s[m])
        BY <4>1
      <4> HIDE DEF v
      <4>4. u[m] \in Seq(T) /\ Len(u[m]) = Len(v) + 1
        BY <4>2, <4>3, <3>3
      <4>5. Range(u[m]) = Range(v) \cup {s[m]}
        BY <4>2, <4>3, <3>3, SMTT(30) DEF Range
      <4>6. Len(u[m]) <= m
        BY <4>2, <4>4, <3>1
      <4> QED
        BY <4>2, <4>4, <4>5, <4>6, <3>3, <3>5
    <3> QED
      BY <3>4, <3>5
  <2> QED
    BY <2>3, <2>4
<1>5. Good(Len(s))
  BY <1>4
<1>6. Range(s) = {s[k] : k \in 1..Len(s)}
  BY DEF Range
<1> QED
  BY <1>1, <1>5, <1>6

\* The front and the rest of a queue hold what the queue held.
LEMMA SplitQueue ==
    ASSUME NEW T, NEW s \in Seq(T), NEW n \in 0..Len(s)
    PROVE  LET old == SubSeq(s, 1, n)
               rest == SubSeq(s, n + 1, Len(s))
           IN /\ old \in Seq(T) /\ Len(old) = n
              /\ rest \in Seq(T) /\ Len(rest) = Len(s) - n
              /\ Range(old) \cup Range(rest) = Range(s)
<1> DEFINE old == SubSeq(s, 1, n)
           rest == SubSeq(s, n + 1, Len(s))
<1>1. /\ old \in Seq(T) /\ Len(old) = n
      /\ \A k \in 1..n : old[k] = s[k]
  <2>1. \A k \in 1..n : s[k] \in T
    OBVIOUS
  <2> QED
    BY <2>1, SubSeqProperties
<1>2. /\ rest \in Seq(T) /\ Len(rest) = Len(s) - n
      /\ \A k \in 1..(Len(s) - n) : rest[k] = s[n + k]
  <2>1. \A k \in (n + 1)..Len(s) : s[k] \in T
    OBVIOUS
  <2> QED
    BY <2>1, SubSeqProperties
<1>3. \A k \in 1..Len(s) : k \in 1..n \/ (k - n \in 1..(Len(s) - n) /\ s[k] = rest[k - n])
  BY <1>2
<1> HIDE DEF old, rest
<1>4. Range(old) \subseteq Range(s) /\ Range(rest) \subseteq Range(s)
  <2>1. \A k \in 1..(Len(s) - n) : n + k \in 1..Len(s)
    OBVIOUS
  <2>2. ASSUME NEW x \in Range(old) PROVE x \in Range(s)
    <3>1. PICK k \in 1..n : x = s[k]
      BY <1>1 DEF Range
    <3>2. k \in DOMAIN s
      BY <3>1
    <3> QED
      BY <3>1, <3>2 DEF Range
  <2>3. ASSUME NEW x \in Range(rest) PROVE x \in Range(s)
    <3>1. PICK k \in 1..(Len(s) - n) : x = s[n + k]
      BY <1>2 DEF Range
    <3>2. n + k \in DOMAIN s
      BY <2>1, <3>1
    <3> QED
      BY <3>1, <3>2 DEF Range
  <2> QED
    BY <2>2, <2>3
<1>5. Range(s) \subseteq Range(old) \cup Range(rest)
  BY <1>1, <1>2, <1>3 DEF Range
<1> QED
  BY <1>1, <1>2, <1>4, <1>5 DEF old, rest

LEMMA RangeOfQueue ==
    ASSUME NEW T, NEW s \in Seq(T)
    PROVE  Range(s) = {s[k] : k \in 1..Len(s)}
BY DEF Range

LEMMA JoinQueues ==
    ASSUME NEW T, NEW a \in Seq(T), NEW b \in Seq(T)
    PROVE  /\ a \o b \in Seq(T) /\ Len(a \o b) = Len(a) + Len(b)
           /\ Range(a \o b) = Range(a) \cup Range(b)
<1> DEFINE c == a \o b
<1>1. /\ c \in Seq(T) /\ Len(c) = Len(a) + Len(b)
      /\ \A k \in 1..Len(a) : c[k] = a[k]
      /\ \A k \in 1..Len(b) : c[Len(a) + k] = b[k]
      /\ \A k \in 1..Len(c) : k \in 1..Len(a) \/ (k - Len(a) \in 1..Len(b) /\ c[k] = b[k - Len(a)])
  BY ConcatProperties
<1>2. \A k \in 1..Len(b) : Len(a) + k \in 1..Len(c)
  BY <1>1
<1>3. \A k \in 1..Len(a) : k \in 1..Len(c)
  BY <1>1
<1> HIDE DEF c
<1>4. Range(c) = Range(a) \cup Range(b)
  <2>1. Range(a) = {a[k] : k \in 1..Len(a)} /\ Range(b) = {b[k] : k \in 1..Len(b)}
    BY RangeOfQueue
  <2>2. Range(c) = {c[k] : k \in 1..Len(c)}
    BY <1>1, RangeOfQueue, ZenonT(60)
  <2>3. \A x \in Range(c) : x \in Range(a) \cup Range(b)
    BY <1>1, <2>1, <2>2
  <2>4. \A x \in Range(a) : x \in Range(c)
    BY <1>1, <1>3, <2>1, <2>2
  <2>5. \A x \in Range(b) : x \in Range(c)
    BY <1>1, <1>2, <2>1, <2>2
  <2> QED
    BY <2>3, <2>4, <2>5
<1> QED
  BY <1>1, <1>4 DEF c

\* cancel and piece take one request out of one queue.
LEMMA ForgetSound ==
    ASSUME NEW d \in PDs, NEW i \in Pieces
    PROVE  LET e == Forget(d, i)
           IN /\ e \in PDs
              /\ Len(e.reqs) <= Len(d.reqs) /\ Len(e.wait) <= Len(d.wait)
              /\ Queued(d) \ {i} \subseteq Queued(e)
              /\ e.ds = d.ds /\ e.grabbed = d.grabbed
<1>1. d.wait \in Seq(Pieces) /\ d.reqs \in Seq(Pieces)
  BY DEF PDs
<1> DEFINE w == Without(d.wait, i)
           r == Without(d.reqs, i)
<1>2. /\ w \in Seq(Pieces) /\ Range(w) = Range(d.wait) \ {i} /\ Len(w) <= Len(d.wait)
      /\ r \in Seq(Pieces) /\ Range(r) = Range(d.reqs) \ {i} /\ Len(r) <= Len(d.reqs)
  BY <1>1, WithoutSound
<1>3. Forget(d, i) \in {[d EXCEPT !.wait = w], [d EXCEPT !.reqs = r]}
  BY DEF Forget
<1> HIDE DEF w, r
<1> DEFINE e == Forget(d, i)
<1>4. \/ e = [reqs |-> d.reqs, wait |-> w, ds |-> d.ds, remote |-> d.remote, grabbed |-> d.grabbed]
      \/ e = [reqs |-> r, wait |-> d.wait, ds |-> d.ds, remote |-> d.remote, grabbed |-> d.grabbed]
  BY <1>3 DEF PDs
<1>5. d.ds \subseteq Pieces /\ d.remote \subseteq Pieces /\ d.grabbed \in Nat
  BY DEF PDs
<1>6. Len(d.wait) \in Nat /\ Len(d.reqs) \in Nat
  BY <1>1
<1> HIDE DEF e
<1>7. e \in PDs
  BY <1>1, <1>2, <1>4, <1>5 DEF PDs
<1>8. e.ds = d.ds /\ e.grabbed = d.grabbed
  BY <1>4
<1>9. Len(e.reqs) <= Len(d.reqs) /\ Len(e.wait) <= Len(d.wait)
  BY <1>2, <1>4, <1>6
<1>10. Queued(d) \ {i} \subseteq Queued(e)
  BY <1>2, <1>4 DEF Queued
<1> QED
  BY <1>7, <1>8, <1>9, <1>10 DEF e

LEMMA LeastSound ==
    ASSUME NEW a \in Nat, NEW b \in Nat
    PROVE  Least(a, b) \in 0..a /\ Least(a, b) <= b /\ Least(a, b) \in {a, b}
BY DEF Least

LEMMA MovedUp ==
    ASSUME NEW r \in Nat, NEW w \in Nat, NEW n \in Nat, NEW m \in Nat, r <= m,
           n <= m - r, n \in {w, m - r}
    PROVE  /\ r + n <= m /\ r + n >= r
           /\ w - n = 0 \/ w - n = w + r - m
           /\ w - n <= w
OBVIOUS

\* PeerDownloader::update loses no request and leaves nothing in wait_queue that
\* max_reqs has room for.
LEMMA UpdateSound ==
    ASSUME NEW d \in PDs, Len(d.reqs) <= MaxReqs
    PROVE  LET e == UpdatePD(d)
           IN /\ e \in PDs
              /\ Len(e.reqs) <= MaxReqs /\ Len(e.reqs) >= Len(d.reqs)
              /\ \/ Len(e.wait) = 0
                 \/ Len(e.wait) = Len(d.wait) + Len(d.reqs) - MaxReqs
              /\ Len(e.wait) <= Len(d.wait)
              /\ Queued(e) = Queued(d)
              /\ e.ds = d.ds /\ e.grabbed = d.grabbed
<1> USE LimitsAssumption
<1>1. /\ d.wait \in Seq(Pieces) /\ d.reqs \in Seq(Pieces)
      /\ Len(d.wait) \in Nat /\ Len(d.reqs) \in Nat
  BY DEF PDs
<1> DEFINE n == Least(Len(d.wait), MaxReqs - Len(d.reqs))
           moved == SubSeq(d.wait, 1, n)
           rest == SubSeq(d.wait, n + 1, Len(d.wait))
<1>2. /\ n \in 0..Len(d.wait) /\ n <= MaxReqs - Len(d.reqs)
      /\ n = Len(d.wait) \/ n = MaxReqs - Len(d.reqs)
  <2>1. MaxReqs - Len(d.reqs) \in Nat
    BY <1>1
  <2> QED
    BY <1>1, <2>1, LeastSound
<1>3. UpdatePD(d) = [d EXCEPT !.reqs = d.reqs \o moved, !.wait = rest,
                              !.remote = d.remote \cup Range(moved)]
  BY DEF UpdatePD, PDs
<1> HIDE DEF n
<1>4. /\ moved \in Seq(Pieces) /\ Len(moved) = n
      /\ rest \in Seq(Pieces) /\ Len(rest) = Len(d.wait) - n
      /\ Range(moved) \cup Range(rest) = Range(d.wait)
  BY <1>1, <1>2, SplitQueue
<1> HIDE DEF moved, rest
<1>5. /\ d.reqs \o moved \in Seq(Pieces) /\ Len(d.reqs \o moved) = Len(d.reqs) + n
      /\ Range(d.reqs \o moved) = Range(d.reqs) \cup Range(moved)
  <2> DEFINE a == d.reqs
  <2>1. a \in Seq(Pieces)
    BY <1>1
  <2> HIDE DEF a
  <2>2. /\ a \o moved \in Seq(Pieces) /\ Len(a \o moved) = Len(a) + Len(moved)
        /\ Range(a \o moved) = Range(a) \cup Range(moved)
    <3>1. moved \in Seq(Pieces)
      BY <1>4, Zenon
    <3> QED
      BY <2>1, <3>1, JoinQueues, ZenonT(60)
  <2> QED
    BY <2>2, <1>4 DEF a
<1>6. Range(moved) \subseteq Pieces
  BY <1>4 DEF Range
<1> DEFINE q == d.reqs \o moved
<1> HIDE DEF q
<1>7. UpdatePD(d) = [reqs |-> q, wait |-> rest, ds |-> d.ds,
                     remote |-> d.remote \cup Range(moved), grabbed |-> d.grabbed]
  BY <1>3 DEF PDs, q
<1>8. q \in Seq(Pieces) /\ Len(q) = Len(d.reqs) + n /\ Range(q) = Range(d.reqs) \cup Range(moved)
  BY <1>5 DEF q
<1>9. UpdatePD(d) \in PDs
  BY <1>4, <1>6, <1>7, <1>8 DEF PDs
<1>10. Queued(UpdatePD(d)) = Queued(d)
  BY <1>4, <1>7, <1>8 DEF Queued
<1> DEFINE e == UpdatePD(d)
<1>11. e.reqs = q /\ e.wait = rest /\ e.ds = d.ds /\ e.grabbed = d.grabbed
  BY <1>7
<1>12. e \in PDs /\ Queued(e) = Queued(d)
  BY <1>9, <1>10
<1> HIDE DEF e
<1>13. n \in Nat /\ Len(d.reqs) \in Nat /\ Len(d.wait) \in Nat
  BY <1>1, <1>2
<1>14. /\ Len(e.reqs) <= MaxReqs /\ Len(e.reqs) >= Len(d.reqs)
       /\ Len(e.wait) <= Len(d.wait)
       /\ Len(e.wait) = 0 \/ Len(e.wait) = Len(d.wait) + Len(d.reqs) - MaxReqs
  <2>1. Len(e.reqs) = Len(d.reqs) + n
    BY <1>8, <1>11, Zenon
  <2>2. Len(e.wait) = Len(d.wait) - n
    BY <1>4, <1>11, Zenon
  <2>3. n <= MaxReqs - Len(d.reqs) /\ n \in {Len(d.wait), MaxReqs - Len(d.reqs)}
    BY <1>2
  <2>4. MaxReqs \in Nat
    OBVIOUS
  <2>5. /\ Len(d.reqs) + n <= MaxReqs /\ Len(d.reqs) + n >= Len(d.reqs)
        /\ Len(d.wait) - n = 0 \/ Len(d.wait) - n = Len(d.wait) + Len(d.reqs) - MaxReqs
        /\ Len(d.wait) - n <= Len(d.wait)
    <3> DEFINE r == Len(d.reqs)
               w == Len(d.wait)
    <3>1. r \in Nat /\ w \in Nat /\ n \in Nat /\ r <= MaxReqs
      BY <1>13
    <3>2. n <= MaxReqs - r /\ n \in {w, MaxReqs - r}
      BY <2>3
    <3> HIDE DEF r, w
    <3>3. /\ r + n <= MaxReqs /\ r + n >= r /\ w - n <= w
          /\ w - n = 0 \/ w - n = w + r - MaxReqs
      BY <2>4, <3>1, <3>2, MovedUp
    <3> QED
      BY <3>3 DEF r, w
  <2> QED
    BY <2>1, <2>2, <2>5, Zenon
<1> QED
  BY <1>11, <1>12, <1>14 DEF e

-----------------------------------------------------------------------------
(* Requests *)

\* sendRequests asks for what the queues have room for.
LEMMA OrderFits ==
    ASSUME NEW d, NEW have, d \in PDs, NEW s \in RequestOrders(d, have), s # <<>>,
           Len(d.reqs) <= MaxReqs, Len(d.wait) <= MaxWait
    PROVE  /\ s \in Seq(Pieces) /\ Range(s) \subseteq Pieces
           /\ Len(d.wait) + Len(s) + Len(d.reqs) - MaxReqs <= MaxWait
<1> USE LimitsAssumption
<1> DEFINE r == Len(d.reqs)
           w == Len(d.wait)
           l == Len(s)
           cap == IF w < MaxWait THEN (MaxReqs - r) + (MaxWait - w) ELSE 0
<1>1. w \in Nat /\ r \in Nat /\ r <= MaxReqs /\ w <= MaxWait
  BY DEF PDs
<1>2. s \in Seq(Pieces)
  BY DEF RequestOrders, Orders
<1>3. Range(s) \subseteq Pieces
  BY <1>2 DEF Range
<1>4. l = Least(Cardinality(Wanted(d, have)), cap) /\ l \in Nat /\ l # 0
  BY <1>2, EmptySeq DEF RequestOrders, Capacity, canAddRequest
<1> HIDE DEF r, w, l
<1>5. cap \in Nat
  BY <1>1
<1>6. l <= cap
  BY <1>4, <1>5 DEF Least
<1>7. w + l + r - MaxReqs <= MaxWait
  BY <1>1, <1>4, <1>6
<1> QED
  BY <1>2, <1>3, <1>7 DEF r, w, l

\* Asking a peer for missing pieces keeps its queues sound.
LEMMA sendRequestsSound ==
    ASSUME NEW d, NEW have, Sound(d, have), NEW s \in RequestOrders(d, have)
    PROVE  LET e == sendRequests(d, s)
           IN Sound(e, have) /\ Len(e.reqs) >= Len(d.reqs) /\ e.grabbed = d.grabbed
<1>1. d \in PDs /\ Len(d.reqs) <= MaxReqs /\ Len(d.wait) <= MaxWait /\ d.ds \ have \subseteq Queued(d)
  BY DEF Sound
<1>2. Len(d.wait) \in Nat /\ Len(d.reqs) \in Nat /\ d.wait \in Seq(Pieces)
  BY <1>1 DEF PDs
<1>3. CASE s = <<>>
  BY <1>2, <1>3 DEF sendRequests
<1>4. CASE s # <<>>
  <2>1. /\ s \in Seq(Pieces) /\ Range(s) \subseteq Pieces
        /\ Len(d.wait) + Len(s) + Len(d.reqs) - MaxReqs <= MaxWait
    BY <1>1, <1>4, OrderFits
  <2> DEFINE w == d.wait \o s
             m == [reqs |-> d.reqs, wait |-> w, ds |-> d.ds \cup Range(s),
                   remote |-> d.remote, grabbed |-> d.grabbed]
             e == UpdatePD(m)
  <2>2. w \in Seq(Pieces) /\ Len(w) = Len(d.wait) + Len(s) /\ Range(w) = Range(d.wait) \cup Range(s)
    <3> DEFINE v == d.wait
    <3>1. v \in Seq(Pieces)
      BY <1>2
    <3> HIDE DEF v
    <3>2. /\ v \o s \in Seq(Pieces) /\ Len(v \o s) = Len(v) + Len(s)
          /\ Range(v \o s) = Range(v) \cup Range(s)
      BY <2>1, <3>1, JoinQueues, ZenonT(60)
    <3> QED
      BY <3>2 DEF v
  <2>3. sendRequests(d, s) = e
    <3> DEFINE new == d.ds \cup Range(s)
    <3> HIDE DEF w, new
    <3> DEFINE y == [d EXCEPT !.wait = w, !.ds = new]
    <3>1. y = [d EXCEPT !.wait = w, !.ds = new]
      OBVIOUS
    <3> HIDE DEF y
    <3>2. y = [reqs |-> d.reqs, wait |-> w, ds |-> new, remote |-> d.remote,
               grabbed |-> d.grabbed]
      BY <1>1, <3>1 DEF PDs
    <3>3. m = [d EXCEPT !.wait = w, !.ds = new]
      BY <3>1, <3>2 DEF new
    <3> HIDE DEF m
    <3>4. e = UpdatePD([d EXCEPT !.wait = d.wait \o s, !.ds = d.ds \cup Range(s)])
      BY <3>3 DEF w, new
    <3> HIDE DEF e
    <3> QED
      BY <1>4, <3>4 DEF sendRequests
  <2> HIDE DEF w
  <2>4. m \in PDs
    BY <1>1, <2>1, <2>2 DEF PDs
  <2>5. /\ m.reqs = d.reqs /\ m.wait = w /\ m.ds = d.ds \cup Range(s)
        /\ m.grabbed = d.grabbed
    OBVIOUS
  <2> HIDE DEF m
  <2>6. Len(m.reqs) <= MaxReqs
    BY <1>1, <2>5
  <2>7. /\ e \in PDs
        /\ Len(e.reqs) <= MaxReqs /\ Len(e.reqs) >= Len(m.reqs)
        /\ Len(e.wait) = 0 \/ Len(e.wait) = Len(m.wait) + Len(m.reqs) - MaxReqs
        /\ Queued(e) = Queued(m)
        /\ e.ds = m.ds /\ e.grabbed = m.grabbed
    BY <2>4, <2>6, UpdateSound
  <2> HIDE DEF e
  <2>8. Len(m.wait) + Len(m.reqs) - MaxReqs <= MaxWait
    <3>1. Len(m.wait) = Len(d.wait) + Len(s) /\ Len(m.reqs) = Len(d.reqs)
      BY <2>2, <2>5, Zenon
    <3>2. Len(s) \in Nat
      BY <2>1
    <3> QED
      BY <1>2, <2>1, <3>1, <3>2
  <2>9. Len(e.wait) <= MaxWait
    <3> DEFINE x == Len(m.wait) + Len(m.reqs) - MaxReqs
    <3>1. (Len(e.wait) = 0 \/ Len(e.wait) = x) /\ x <= MaxWait
      BY <2>7, <2>8, Zenon
    <3> HIDE DEF x
    <3> QED
      BY <3>1, LimitsAssumption
  <2>10. e.ds \ have \subseteq Queued(e)
    BY <1>1, <2>2, <2>5, <2>7 DEF Queued
  <2>11. Sound(e, have)
    BY <2>7, <2>9, <2>10 DEF Sound
  <2>12. Len(e.reqs) >= Len(d.reqs) /\ e.grabbed = d.grabbed
    BY <2>5, <2>7
  <2> QED
    BY <2>3, <2>11, <2>12
<1> QED
  BY <1>3, <1>4

\* What notDownloaded and sendRequests do to the peers they reach, and to no other.
LEMMA AskAllSound ==
    ASSUME NEW d, NEW have, NEW to, NEW f \in AskAll(d, have, to),
           \A p \in Peers : Sound(d[p], have)
    PROVE  /\ f \in [Peers -> PDs]
           /\ \A p \in Peers : Sound(f[p], have)
           /\ \A p \in Peers : Len(f[p].reqs) >= Len(d[p].reqs)
           /\ \A p \in Peers \ to : f[p] = d[p]
<1> DEFINE r == [p \in Peers |-> IF p \in to \ choked'
                                 THEN {sendRequests(d[p], s) : s \in RequestOrders(d[p], have)}
                                 ELSE {d[p]}]
<1>1. f \in [Peers -> UNION Range(r)] /\ \A p \in Peers : f[p] \in r[p]
  <2> DEFINE X(e) == [p \in Peers |-> IF p \in to \ choked'
                                      THEN {sendRequests(e[p], s) : s \in RequestOrders(e[p], have)}
                                      ELSE {e[p]}]
             Y(q) == {h \in [Peers -> UNION Range(q)] : \A p \in Peers : h[p] \in q[p]}
  <2>1. AskAll(d, have, to) = UNION {Y(q) : q \in {X(e) : e \in {d}}}
    BY DEF AskAll
  <2>2. X(d) = r
    OBVIOUS
  <2> HIDE DEF X, Y, r
  <2>3. f \in Y(r)
    BY <2>1, <2>2
  <2> QED
    BY <2>3 DEF Y
<1>2. f = [p \in Peers |-> f[p]]
  <2> HIDE DEF r
  <2> QED BY <1>1
<1>3. ASSUME NEW p \in Peers
      PROVE  \/ f[p] = d[p]
             \/ p \in to /\ \E s \in RequestOrders(d[p], have) : f[p] = sendRequests(d[p], s)
  BY <1>1
<1> HIDE DEF r
<1>4. ASSUME NEW p \in Peers
      PROVE  Sound(f[p], have) /\ Len(f[p].reqs) >= Len(d[p].reqs) /\ (p \notin to => f[p] = d[p])
  <2>1. CASE f[p] = d[p]
    <3>1. Sound(d[p], have)
      OBVIOUS
    <3>2. Len(d[p].reqs) \in Nat
      BY <3>1 DEF Sound, PDs
    <3> QED
      BY <2>1, <3>1, <3>2
  <2>2. CASE p \in to /\ \E s \in RequestOrders(d[p], have) : f[p] = sendRequests(d[p], s)
    <3>1. PICK s \in RequestOrders(d[p], have) : f[p] = sendRequests(d[p], s)
      BY <2>2
    <3> DEFINE e == d[p]
    <3>2. Sound(e, have) /\ s \in RequestOrders(e, have) /\ f[p] = sendRequests(e, s)
      BY <3>1
    <3> HIDE DEF e
    <3>3. Sound(f[p], have) /\ Len(f[p].reqs) >= Len(e.reqs)
      BY <3>2, sendRequestsSound
    <3> QED
      BY <3>3, <2>2 DEF e
  <2> QED
    BY <1>3, <2>1, <2>2
<1>5. \A p \in Peers : f[p] \in PDs
  BY <1>4 DEF Sound
<1> QED
  BY <1>2, <1>4, <1>5

-----------------------------------------------------------------------------
(* What a handler does to the peers' queues *)

LEMMA SoundLater ==
    ASSUME NEW d, NEW have, NEW more, have \subseteq more, Sound(d, have)
    PROVE  Sound(d, more)
BY DEF Sound

\* Marks can be taken away.
LEMMA FewerMarks ==
    ASSUME NEW d, NEW have, NEW i, NEW e \in PDs, d \in PDs,
           e.ds \subseteq d.ds \ {i}, Queued(d) \ {i} \subseteq Queued(e),
           Len(e.reqs) <= MaxReqs, Len(e.wait) <= MaxWait, Sound(d, have)
    PROVE  Sound(e, have)
BY DEF Sound

LEMMA UpdateKeepsSound ==
    ASSUME NEW d, NEW have, Sound(d, have)
    PROVE  Sound(UpdatePD(d), have) /\ UpdatePD(d).ds = d.ds
<1> DEFINE e == UpdatePD(d)
<1>1. d \in PDs /\ Len(d.reqs) <= MaxReqs /\ Len(d.wait) <= MaxWait
  BY DEF Sound
<1>2. /\ e \in PDs /\ Len(e.reqs) <= MaxReqs /\ Len(e.wait) <= Len(d.wait)
      /\ Queued(e) = Queued(d) /\ e.ds = d.ds
  BY <1>1, UpdateSound
<1> HIDE DEF e
<1>3. Len(e.wait) \in Nat /\ Len(d.wait) \in Nat
  BY <1>1, <1>2 DEF PDs
<1>4. Len(e.wait) <= MaxWait
  BY <1>1, <1>2, <1>3, LimitsAssumption
<1>5. Sound(e, have)
  BY <1>2, <1>4 DEF Sound
<1> QED
  BY <1>2, <1>5 DEF e

\* A request that timed out goes to the end of the queue.
LEMMA RetransmittedSound ==
    ASSUME NEW d, NEW have, Sound(d, have), NEW n \in 0..Len(d.reqs)
    PROVE  Sound(Retransmitted(d, n), have) /\ Retransmitted(d, n).ds = d.ds
<1> DEFINE q == d.reqs
           old == SubSeq(q, 1, n)
           rest == SubSeq(q, n + 1, Len(q))
           all == rest \o old
           e == Retransmitted(d, n)
<1>1. d \in PDs /\ Len(d.reqs) <= MaxReqs /\ Len(d.wait) <= MaxWait /\ d.ds \ have \subseteq Queued(d)
  BY DEF Sound
<1>2. q \in Seq(Pieces) /\ n \in 0..Len(q)
  BY <1>1 DEF PDs
<1>3. e = [d EXCEPT !.reqs = all, !.remote = d.remote \cup Range(old)]
  BY <1>1 DEF Retransmitted, PDs
<1> HIDE DEF q, e
<1>4. /\ old \in Seq(Pieces) /\ Len(old) = n
      /\ rest \in Seq(Pieces) /\ Len(rest) = Len(q) - n
      /\ Range(old) \cup Range(rest) = Range(q)
  BY <1>2, SplitQueue
<1> HIDE DEF old, rest
<1>5. /\ all \in Seq(Pieces) /\ Len(all) = Len(rest) + Len(old)
      /\ Range(all) = Range(rest) \cup Range(old)
  <2>1. old \in Seq(Pieces) /\ rest \in Seq(Pieces)
    BY <1>4, Zenon
  <2> QED
    BY <2>1, JoinQueues, ZenonT(60)
<1> HIDE DEF all
<1>6. Len(all) = Len(q) /\ Range(all) = Range(q)
  BY <1>2, <1>4, <1>5
<1>7. Range(old) \subseteq Pieces
  BY <1>4 DEF Range
<1>8. e = [reqs |-> all, wait |-> d.wait, ds |-> d.ds, remote |-> d.remote \cup Range(old),
           grabbed |-> d.grabbed]
  BY <1>1, <1>3 DEF PDs
<1>9. e \in PDs
  BY <1>1, <1>5, <1>7, <1>8 DEF PDs
<1>10. e.reqs = all /\ e.wait = d.wait /\ e.ds = d.ds
  BY <1>8
<1>11. Queued(e) = Queued(d)
  BY <1>6, <1>10 DEF Queued, q
<1>12. Len(e.reqs) <= MaxReqs
  BY <1>1, <1>6, <1>10 DEF q
<1> QED
  BY <1>1, <1>9, <1>10, <1>11, <1>12 DEF Sound, e

\* releaseAllPDs takes all marks away and no request.
LEMMA ReleasedSound ==
    ASSUME NEW d, NEW have, d \in [Peers -> PDs], \A p \in Peers : Sound(d[p], have)
    PROVE  /\ Released(d) \in [Peers -> PDs]
           /\ \A p \in Peers : Sound(Released(d)[p], have) /\ Released(d)[p].reqs = d[p].reqs
           /\ \A p \in Peers : IF p \in pdown THEN Released(d)[p].ds = {}
                                              ELSE Released(d)[p] = d[p]
<1> DEFINE r == Released(d)
<1>1. r = [p \in Peers |-> r[p]]
  BY DEF Released
<1>2. ASSUME NEW p \in Peers
      PROVE  /\ r[p] \in PDs /\ Sound(r[p], have) /\ r[p].reqs = d[p].reqs
             /\ IF p \in pdown THEN r[p].ds = {} ELSE r[p] = d[p]
  <2> DEFINE e == d[p]
             g == IF e.grabbed > 0 THEN e.grabbed - 1 ELSE 0
  <2>1. e \in PDs /\ Sound(e, have)
    OBVIOUS
  <2>2. r[p] = IF p \in pdown THEN [e EXCEPT !.ds = {}, !.grabbed = g] ELSE e
    BY <2>1 DEF Released, PDs
  <2> HIDE DEF e, r
  <2>3. g \in Nat
    BY <2>1 DEF PDs
  <2> HIDE DEF g
  <2>4. CASE p \in pdown
    <3>1. r[p] = [reqs |-> e.reqs, wait |-> e.wait, ds |-> {}, remote |-> e.remote,
                  grabbed |-> g]
      BY <2>1, <2>2, <2>4 DEF PDs
    <3>2. r[p] \in PDs /\ r[p].reqs = e.reqs /\ r[p].wait = e.wait /\ r[p].ds = {}
      BY <2>1, <2>3, <3>1 DEF PDs
    <3>3. Sound(r[p], have)
      BY <2>1, <3>2 DEF Sound
    <3> QED
      BY <2>4, <3>2, <3>3 DEF e
  <2>5. CASE p \notin pdown
    BY <2>1, <2>2, <2>5 DEF e
  <2> QED
    BY <2>4, <2>5
<1> HIDE DEF r
<1>3. r \in [Peers -> PDs]
  BY <1>1, <1>2
<1> QED
  BY <1>2, <1>3 DEF r

\* endgameCancel forgets the request together with its mark.
LEMMA EndgameSound ==
    ASSUME NEW d, NEW have, NEW i \in Pieces,
           d \in [Peers -> PDs], \A p \in Peers : Sound(d[p], have)
    PROVE  /\ EndgameCancelled(d, i) \in [Peers -> PDs]
           /\ \A p \in Peers : Sound(EndgameCancelled(d, i)[p], have)
           /\ \A p \in Peers \ pdown : EndgameCancelled(d, i)[p] = d[p]
<1> DEFINE r == EndgameCancelled(d, i)
<1>1. r = [p \in Peers |-> r[p]]
  BY DEF EndgameCancelled
<1>2. ASSUME NEW p \in Peers
      PROVE  r[p] \in PDs /\ Sound(r[p], have) /\ (p \notin pdown => r[p] = d[p])
  <2> DEFINE e == d[p]
             f == Forget(e, i)
  <2>1. e \in PDs /\ Sound(e, have)
    OBVIOUS
  <2>2. r[p] = e \/ (p \in pdown /\ r[p] = [f EXCEPT !.ds = e.ds \ {i}])
    <3>1. r[p] = e \/ (p \in pdown /\ r[p] = [f EXCEPT !.ds = f.ds \ {i}])
      BY DEF EndgameCancelled
    <3>2. f.ds = e.ds
      BY <2>1, ForgetSound
    <3> QED
      BY <3>1, <3>2
  <2> HIDE DEF e, r
  <2>3. /\ f \in PDs
        /\ Len(f.reqs) <= Len(e.reqs) /\ Len(f.wait) <= Len(e.wait)
        /\ Queued(e) \ {i} \subseteq Queued(f)
    BY <2>1, ForgetSound
  <2> HIDE DEF f
  <2>4. CASE r[p] = [f EXCEPT !.ds = e.ds \ {i}] /\ p \in pdown
    <3>1. r[p] = [reqs |-> f.reqs, wait |-> f.wait, ds |-> e.ds \ {i}, remote |-> f.remote,
                  grabbed |-> f.grabbed]
      BY <2>3, <2>4 DEF PDs
    <3>2. r[p] \in PDs /\ r[p].reqs = f.reqs /\ r[p].wait = f.wait /\ r[p].ds = e.ds \ {i}
      BY <2>1, <2>3, <3>1 DEF PDs
    <3>3. Len(r[p].reqs) <= MaxReqs /\ Len(r[p].wait) <= MaxWait
      <4>1. Len(f.reqs) \in Nat /\ Len(f.wait) \in Nat /\ Len(e.reqs) \in Nat /\ Len(e.wait) \in Nat
        BY <2>1, <2>3 DEF PDs
      <4>2. Len(e.reqs) <= MaxReqs /\ Len(e.wait) <= MaxWait
        BY <2>1 DEF Sound
      <4> QED
        BY <2>3, <3>2, <4>1, <4>2, LimitsAssumption
    <3>4. Queued(r[p]) = Queued(f)
      BY <3>2 DEF Queued
    <3>5. Sound(r[p], have)
      BY <2>1, <2>3, <3>2, <3>3, <3>4, FewerMarks
    <3> QED
      BY <2>4, <3>2, <3>5
  <2>5. CASE r[p] = e
    BY <2>1, <2>5 DEF e
  <2> QED
    BY <2>2, <2>4, <2>5
<1> HIDE DEF r
<1>3. r \in [Peers -> PDs]
  BY <1>1, <1>2
<1> QED
  BY <1>2, <1>3 DEF r

\* One peer's queues are replaced, its answer i no longer waited for.
LEMMA ReceivedSound ==
    ASSUME IInv, NEW p \in Peers, NEW i \in Pieces
    PROVE  /\ Received(p, i) \in [Peers -> PDs]
           /\ \A q \in Peers \ {p} : Received(p, i)[q] = pd[q]
           /\ Len(Received(p, i)[p].reqs) <= MaxReqs /\ Len(Received(p, i)[p].wait) <= MaxWait
           /\ Queued(pd[p]) \ {i} \subseteq Queued(Received(p, i)[p])
           /\ Received(p, i)[p].ds = pd[p].ds
<1> DEFINE d == pd[p]
           f == Forget(d, i)
           e == [f EXCEPT !.remote = f.remote \ {i}]
           r == Received(p, i)
<1>1. pd \in [Peers -> PDs] /\ d \in PDs /\ Sound(d, pieces)
  BY DEF IInv, TypeOK
<1>2. r = [pd EXCEPT ![p] = e]
  BY DEF Received, Answered
<1> HIDE DEF d, r
<1>3. /\ f \in PDs
      /\ Len(f.reqs) <= Len(d.reqs) /\ Len(f.wait) <= Len(d.wait)
      /\ Queued(d) \ {i} \subseteq Queued(f) /\ f.ds = d.ds
  BY <1>1, ForgetSound
<1> HIDE DEF f
<1>10. e = [f EXCEPT !.remote = f.remote \ {i}]
  OBVIOUS
<1> HIDE DEF e
<1>4. e = [reqs |-> f.reqs, wait |-> f.wait, ds |-> f.ds, remote |-> f.remote \ {i},
           grabbed |-> f.grabbed]
  BY <1>3, <1>10 DEF PDs
<1>5. e \in PDs
  BY <1>3, <1>4 DEF PDs
<1>6. e.reqs = f.reqs /\ e.wait = f.wait /\ e.ds = f.ds
  BY <1>4
<1> HIDE DEF e
<1>7. r \in [Peers -> PDs] /\ r[p] = e /\ \A q \in Peers \ {p} : r[q] = pd[q]
  BY <1>1, <1>2, <1>5
<1>8. Len(e.reqs) <= MaxReqs /\ Len(e.wait) <= MaxWait
  <2>1. Len(f.reqs) \in Nat /\ Len(f.wait) \in Nat /\ Len(d.reqs) \in Nat /\ Len(d.wait) \in Nat
    BY <1>1, <1>3 DEF PDs
  <2>2. Len(d.reqs) <= MaxReqs /\ Len(d.wait) <= MaxWait
    BY <1>1 DEF Sound
  <2> QED
    BY <1>3, <1>6, <2>1, <2>2, LimitsAssumption
<1>9. Queued(d) \ {i} \subseteq Queued(e)
  BY <1>3, <1>6 DEF Queued
<1> QED
  BY <1>3, <1>6, <1>7, <1>8, <1>9 DEF d, r

\* ChunkDownload::piece leaves nothing marked that is not queued.
LEMMA StoredSound ==
    ASSUME IInv, NEW p \in Peers, NEW i \in Pieces
    PROVE  /\ Stored(p, i) \in [Peers -> PDs]
           /\ \A q \in Peers : Sound(Stored(p, i)[q], pieces)
           /\ \A q \in Peers \ pdown : Stored(p, i)[q].ds = {}
<1> DEFINE v == Received(p, i)
           c == v[p]
           e == [c EXCEPT !.ds = c.ds \ {i}]
           d == [v EXCEPT ![p] = e]
<1>1. /\ v \in [Peers -> PDs]
      /\ \A q \in Peers \ {p} : v[q] = pd[q]
      /\ Len(c.reqs) <= MaxReqs /\ Len(c.wait) <= MaxWait
      /\ Queued(pd[p]) \ {i} \subseteq Queued(c)
      /\ c.ds = pd[p].ds
  BY ReceivedSound
<1>2. Stored(p, i) = EndgameCancelled(d, i)
  <2> HIDE DEF v
  <2>1. [v EXCEPT ![p].ds = @ \ {i}] = d
    BY <1>1
  <2> QED
    BY <2>1 DEF Stored, v
<1> HIDE DEF v
<1>3. c \in PDs
  BY <1>1
<1> HIDE DEF c
<1>12. e = [c EXCEPT !.ds = c.ds \ {i}]
  OBVIOUS
<1> HIDE DEF e
<1>4. e = [reqs |-> c.reqs, wait |-> c.wait, ds |-> c.ds \ {i}, remote |-> c.remote,
           grabbed |-> c.grabbed]
  BY <1>3, <1>12 DEF PDs
<1>5. e \in PDs /\ e.reqs = c.reqs /\ e.wait = c.wait /\ e.ds = c.ds \ {i}
  BY <1>3, <1>4 DEF PDs
<1> HIDE DEF e
<1>6. Sound(pd[p], pieces) /\ pd[p] \in PDs
  BY DEF IInv, TypeOK
<1>7. Queued(e) = Queued(c)
  BY <1>5 DEF Queued
<1>8. Sound(e, pieces)
  BY <1>1, <1>5, <1>6, <1>7, FewerMarks
<1>9. /\ d \in [Peers -> PDs] /\ d[p] = e
      /\ \A q \in Peers \ {p} : d[q] = pd[q]
  BY <1>1, <1>5
<1> HIDE DEF d
<1>10. \A q \in Peers : Sound(d[q], pieces)
  BY <1>8, <1>9 DEF IInv
<1>11. \A q \in Peers \ pdown : d[q].ds = {}
  BY <1>1, <1>5, <1>9 DEF IInv
<1> QED
  BY <1>2, <1>9, <1>10, <1>11, EndgameSound

-----------------------------------------------------------------------------
(* Steps *)

\* The part of the invariant about the queues and marks of the peers.
Queues ==
    /\ pd \in [Peers -> PDs]
    /\ \A p \in Peers : Sound(pd[p], pieces)
    /\ \A p \in Peers \ pdown : pd[p].ds = {}
    /\ chunk # "active" => pdown = {}

\* The part about everything else.
Rest ==
    /\ chunk \in {"none", "active", "done"}
    /\ pieces \subseteq Pieces
    /\ pdown \subseteq Peers /\ piece_providers \subseteq Peers
    /\ peer \in [Peers -> {"new", "connected", "gone"}]
    /\ choked \subseteq Peers
    /\ rerun \in BOOLEAN
    /\ source \in [Pieces -> Peers \cup {NoPeer}]
    /\ blamed \subseteq Peers
    /\ ProvidersKnown
    /\ OnlyBadPeersBlamed

LEMMA Parts == IInv <=> Queues /\ Rest
BY DEF IInv, Queues, Rest, TypeOK, ProvidersKnown

\* A peer whose marks and queues are replaced by sound ones.
LEMMA OnePeerChanges ==
    ASSUME IInv, NEW p \in Peers, NEW e, Sound(e, pieces), e.ds \subseteq pd[p].ds,
           NEW d, d = [pd EXCEPT ![p] = e]
    PROVE  /\ d \in [Peers -> PDs]
           /\ \A q \in Peers : Sound(d[q], pieces)
           /\ \A q \in Peers \ pdown : d[q].ds = {}
<1>1. e \in PDs /\ pd \in [Peers -> PDs]
  BY DEF Sound, IInv, TypeOK
<1>2. /\ d \in [Peers -> PDs] /\ d[p] = e
      /\ \A q \in Peers \ {p} : d[q] = pd[q]
  BY <1>1
<1> QED
  BY <1>2 DEF IInv

\* A handler that ends with the peers of pdown being asked for more.
LEMMA AskedAgain ==
    ASSUME NEW d \in [Peers -> PDs], \A q \in Peers : Sound(d[q], pieces),
           \A q \in Peers \ pdown : d[q].ds = {},
           pd' \in AskAll(d, pieces, pdown), UNCHANGED <<chunk, pieces, pdown>>,
           chunk # "active" => pdown = {}
    PROVE  Queues'
<1>1. /\ pd' \in [Peers -> PDs]
      /\ \A q \in Peers : Sound(pd'[q], pieces)
      /\ \A q \in Peers \ pdown : pd'[q] = d[q]
  BY AskAllSound
<1> QED
  BY <1>1 DEF Queues

LEMMA ConnectKeeps == ASSUME IInv, NEW p \in Peers, Connect(p) \/ Unchoke(p) PROVE IInv'
<1>1. Queues /\ Rest
  BY Parts
<1>2. Queues'
  BY <1>1 DEF Connect, Unchoke, Queues, Sound, Queued
<1>3. Rest'
  BY <1>1 DEF Connect, Unchoke, Rest, ProvidersKnown, OnlyBadPeersBlamed
<1>4. (Queues /\ Rest)' => IInv'
  BY Parts, PTL
<1> QED
  BY <1>2, <1>3, <1>4

LEMMA ChokeKeeps == ASSUME IInv, NEW p \in Peers, Choke(p) PROVE IInv'
<1> DEFINE c == pd[p]
           dropped == Range(c.reqs) \cup Range(c.wait)
           e == [reqs |-> <<>>, wait |-> <<>>, ds |-> c.ds \ dropped, remote |-> c.remote,
                 grabbed |-> c.grabbed]
           d == [pd EXCEPT ![p] = e]
<1>1. Queues /\ Rest
  BY Parts
<1>2. c \in PDs /\ Sound(c, pieces) /\ pd \in [Peers -> PDs]
  BY <1>1 DEF Queues
<1>3. e \in PDs /\ e.reqs = <<>> /\ e.wait = <<>> /\ e.ds = c.ds \ dropped
  BY <1>2 DEF PDs
<1>4. [pd EXCEPT ![p].reqs = <<>>, ![p].wait = <<>>, ![p].ds = @ \ dropped] = d
  <2> DEFINE v == [c EXCEPT !.reqs = <<>>, !.wait = <<>>, !.ds = c.ds \ dropped]
  <2>1. [pd EXCEPT ![p].reqs = <<>>, ![p].wait = <<>>, ![p].ds = @ \ dropped] = [pd EXCEPT ![p] = v]
    BY <1>2
  <2>2. v = [c EXCEPT !.reqs = <<>>, !.wait = <<>>, !.ds = c.ds \ dropped]
    OBVIOUS
  <2> HIDE DEF v
  <2>3. v = e
    BY <1>2, <2>2 DEF PDs
  <2> QED
    BY <2>1, <2>3
<1>5. Choke(p) => \/ pd' = pd
                  \/ pd' = d
                  \/ pd' \in AskAll(d, pieces, pdown)
  <2> HIDE DEF d
  <2> QED
    BY <1>4 DEF Choke
<1> HIDE DEF e
<1>6. Sound(e, pieces)
  <2>1. Len(e.reqs) = 0 /\ Len(e.wait) = 0
    BY <1>3
  <2>2. e.ds \ pieces = {}
    BY <1>2, <1>3 DEF Sound, Queued
  <2> QED
    BY <1>3, <2>1, <2>2, LimitsAssumption DEF Sound
<1>7. /\ d \in [Peers -> PDs]
      /\ \A q \in Peers : Sound(d[q], pieces)
      /\ \A q \in Peers \ pdown : d[q].ds = {}
  <2>1. e.ds \subseteq pd[p].ds
    BY <1>3
  <2> QED
    BY <1>6, <2>1, OnePeerChanges
<1> HIDE DEF d
<1>8. UNCHANGED <<chunk, pieces, pdown>> /\ (chunk # "active" => pdown = {})
  BY <1>1 DEF Choke, Queues
<1>9. Queues'
  <2>1. CASE pd' = pd
    BY <1>1, <1>8, <2>1 DEF Queues
  <2>2. CASE pd' = d
    BY <1>7, <1>8, <2>2 DEF Queues
  <2>3. CASE pd' \in AskAll(d, pieces, pdown)
    BY <1>7, <1>8, <2>3, AskedAgain
  <2> QED
    BY <1>5, <2>1, <2>2, <2>3
<1>10. Rest'
  BY <1>1 DEF Choke, Rest, ProvidersKnown, OnlyBadPeersBlamed
<1>11. (Queues /\ Rest)' => IInv'
  BY Parts, PTL
<1> QED
  BY <1>9, <1>10, <1>11

LEMMA RejectKeeps == ASSUME IInv, NEW p \in Peers, NEW i \in Pieces, Reject(p, i) PROVE IInv'
<1> DEFINE c == pd[p]
           l == Without(c.reqs, i)
           b == [reqs |-> c.reqs, wait |-> c.wait, ds |-> c.ds, remote |-> c.remote \ {i},
                 grabbed |-> c.grabbed]
           e == [b EXCEPT !.reqs = l]
           f == [e EXCEPT !.ds = c.ds \ {i}]
           d == [pd EXCEPT ![p] = b]
           u == [pd EXCEPT ![p] = e]
           v == [pd EXCEPT ![p] = f]
<1>1. Queues /\ Rest
  BY Parts
<1>2. c \in PDs /\ Sound(c, pieces) /\ pd \in [Peers -> PDs]
  BY <1>1 DEF Queues
<1>3. l \in Seq(Pieces) /\ Range(l) = Range(c.reqs) \ {i} /\ Len(l) <= Len(c.reqs)
  <2>1. c.reqs \in Seq(Pieces)
    BY <1>2 DEF PDs
  <2> QED
    BY <2>1, WithoutSound
<1> DEFINE D == [pd EXCEPT ![p].remote = @ \ {i}]
           U == [D EXCEPT ![p].reqs = Without(@, i)]
           V == [U EXCEPT ![p].ds = @ \ {i}]
<1>19. Reject(p, i) => \/ pd' = D
                       \/ i \in Range(c.reqs) /\ p \notin pdown /\ pd' = U
                       \/ pd' \in AskAll(V, pieces, pdown)
  BY Zenon DEF Reject
<1>4. D = d /\ U = u /\ V = v
  <2> DEFINE y == [c EXCEPT !.remote = c.remote \ {i}]
  <2>1. y = [c EXCEPT !.remote = c.remote \ {i}]
    OBVIOUS
  <2>2. [pd EXCEPT ![p].remote = @ \ {i}] = [pd EXCEPT ![p] = y]
    BY <1>2
  <2> HIDE DEF y
  <2>3. y = b
    BY <1>2, <2>1 DEF PDs
  <2>4. D = d
    BY <2>2, <2>3
  <2> HIDE DEF D
  <2>5. U = u
    <3>1. U = [d EXCEPT ![p].reqs = Without(@, i)]
      BY <2>4
    <3> HIDE DEF U
    <3> QED
      BY <1>2, <3>1
  <2> HIDE DEF U
  <2>6. V = v
    <3>1. V = [u EXCEPT ![p].ds = @ \ {i}]
      BY <2>5
    <3> HIDE DEF V
    <3> QED
      BY <1>2, <3>1
  <2> QED
    BY <2>4, <2>5, <2>6
<1>5. Reject(p, i) => \/ pd' = d
                      \/ i \in Range(c.reqs) /\ p \notin pdown /\ pd' = u
                      \/ pd' \in AskAll(v, pieces, pdown)
  <2> HIDE DEF d, u, v, D, U, V, c
  <2> QED
    BY <1>4, <1>19, Zenon
<1> HIDE DEF D, U, V
<1>6. b \in PDs /\ e \in PDs /\ f \in PDs
  BY <1>2, <1>3 DEF PDs
<1>7. /\ b.reqs = c.reqs /\ b.wait = c.wait /\ b.ds = c.ds
      /\ e.reqs = l /\ e.wait = c.wait /\ e.ds = c.ds
      /\ f.reqs = l /\ f.wait = c.wait /\ f.ds = c.ds \ {i}
  OBVIOUS
<1> HIDE DEF b, l
<1>8. Len(l) <= MaxReqs
  <2>1. Len(c.reqs) \in Nat /\ Len(c.reqs) <= MaxReqs /\ Len(l) \in Nat
    BY <1>2, <1>3 DEF PDs, Sound
  <2> QED
    BY <2>1, <1>3, LimitsAssumption
<1> HIDE DEF e, f
<1>9. Sound(b, pieces)
  BY <1>2, <1>6, <1>7 DEF Sound, Queued
<1>10. Sound(f, pieces)
  BY <1>2, <1>3, <1>6, <1>7, <1>8 DEF Sound, Queued
<1>11. p \notin pdown => Sound(e, pieces)
  <2>1. p \notin pdown => c.ds = {}
    BY <1>1 DEF Queues
  <2> QED
    BY <2>1, <1>2, <1>6, <1>7, <1>8 DEF Sound
<1>12. /\ d \in [Peers -> PDs] /\ \A q \in Peers : Sound(d[q], pieces)
       /\ \A q \in Peers \ pdown : d[q].ds = {}
  BY <1>7, <1>9, OnePeerChanges
<1>13. /\ v \in [Peers -> PDs] /\ \A q \in Peers : Sound(v[q], pieces)
       /\ \A q \in Peers \ pdown : v[q].ds = {}
  BY <1>7, <1>10, OnePeerChanges
<1>14. p \notin pdown => /\ u \in [Peers -> PDs] /\ \A q \in Peers : Sound(u[q], pieces)
                         /\ \A q \in Peers \ pdown : u[q].ds = {}
  BY <1>7, <1>11, OnePeerChanges
<1> HIDE DEF c, d, u, v
<1>15. UNCHANGED <<chunk, pieces, pdown>> /\ (chunk # "active" => pdown = {})
  BY <1>1 DEF Reject, Queues
<1>16. Queues'
  <2>1. CASE pd' = d
    BY <1>12, <1>15, <2>1 DEF Queues
  <2>2. CASE p \notin pdown /\ pd' = u
    BY <1>14, <1>15, <2>2 DEF Queues
  <2>3. CASE pd' \in AskAll(v, pieces, pdown)
    BY <1>13, <1>15, <2>3, AskedAgain
  <2> QED
    BY <1>5, <2>1, <2>2, <2>3
<1>17. Rest'
  BY <1>1 DEF Reject, Rest, ProvidersKnown, OnlyBadPeersBlamed
<1>18. (Queues /\ Rest)' => IInv'
  BY Parts, PTL
<1> QED
  BY <1>16, <1>17, <1>18

LEMMA DropKeeps == ASSUME IInv, NEW p \in Peers, NEW i \in Pieces, Drop(p, i) PROVE IInv'
<1> DEFINE c == pd[p]
           b == [reqs |-> c.reqs, wait |-> c.wait, ds |-> c.ds, remote |-> c.remote \ {i},
                 grabbed |-> c.grabbed]
<1>1. Queues /\ Rest
  BY Parts
<1>2. c \in PDs /\ Sound(c, pieces) /\ pd \in [Peers -> PDs]
  BY <1>1 DEF Queues
<1>3. pd' = [pd EXCEPT ![p] = b]
  <2> DEFINE y == [c EXCEPT !.remote = c.remote \ {i}]
  <2>1. y = [c EXCEPT !.remote = c.remote \ {i}]
    OBVIOUS
  <2>2. pd' = [pd EXCEPT ![p] = y]
    BY <1>2 DEF Drop
  <2> HIDE DEF y
  <2>3. y = b
    BY <1>2, <2>1 DEF PDs
  <2> QED
    BY <2>2, <2>3
<1>4. b \in PDs /\ b.reqs = c.reqs /\ b.wait = c.wait /\ b.ds = c.ds
  BY <1>2 DEF PDs
<1> HIDE DEF b
<1>5. Sound(b, pieces)
  BY <1>2, <1>4 DEF Sound, Queued
<1>6. /\ pd' \in [Peers -> PDs] /\ \A q \in Peers : Sound(pd'[q], pieces)
      /\ \A q \in Peers \ pdown : pd'[q].ds = {}
  BY <1>3, <1>4, <1>5, OnePeerChanges
<1>7. Queues'
  BY <1>1, <1>6 DEF Drop, Queues
<1>8. Rest'
  BY <1>1 DEF Drop, Rest, ProvidersKnown, OnlyBadPeersBlamed
<1>9. (Queues /\ Rest)' => IInv'
  BY Parts, PTL
<1> QED
  BY <1>7, <1>8, <1>9

LEMMA NewPDSound == ASSUME NEW have PROVE NewPD \in PDs /\ Sound(NewPD, have) /\ NewPD.ds = {}
<1>1. <<>> \in Seq(Pieces) /\ Len(<<>>) = 0
  OBVIOUS
<1>2. NewPD \in PDs /\ NewPD.ds = {} /\ Len(NewPD.reqs) = 0 /\ Len(NewPD.wait) = 0
  BY <1>1 DEF NewPD, PDs
<1> QED
  BY <1>2, LimitsAssumption DEF Sound

LEMMA PeerKilledKeeps == ASSUME IInv, NEW p \in Peers, PeerKilled(p) PROVE IInv'
<1>1. Queues /\ Rest
  BY Parts
<1>2. NewPD \in PDs /\ Sound(NewPD, pieces) /\ NewPD.ds = {}
  BY NewPDSound
<1>3. /\ pd' \in [Peers -> PDs] /\ pd'[p] = NewPD
      /\ \A q \in Peers \ {p} : pd'[q] = pd[q]
      /\ UNCHANGED <<chunk, pieces>> /\ pdown' = pdown \ {p}
  BY <1>1, <1>2 DEF PeerKilled, Queues
<1>4. Queues'
  BY <1>1, <1>2, <1>3 DEF Queues
<1>5. Rest'
  BY <1>1 DEF PeerKilled, Rest, ProvidersKnown, OnlyBadPeersBlamed
<1>6. (Queues /\ Rest)' => IInv'
  BY Parts, PTL
<1> QED
  BY <1>4, <1>5, <1>6

LEMMA RestartKeeps == ASSUME IInv, Restart PROVE IInv'
<1>1. Queues /\ Rest
  BY Parts
<1>2. NewPD \in PDs /\ Sound(NewPD, pieces') /\ NewPD.ds = {}
  BY NewPDSound
<1>3. /\ pd' = [p \in Peers |-> NewPD] /\ pdown' = {} /\ loadDownloads
      /\ session' = session + 1 /\ piece_providers' = {} /\ choked' = {}
      /\ peer' = [p \in Peers |-> IF peer[p] = "connected" THEN "gone" ELSE peer[p]]
      /\ UNCHANGED <<rerun, blamed>>
  BY DEF Restart
<1>4. Queues'
  BY <1>2, <1>3 DEF Queues
<1>5. Rest'
  <2>1. chunk' \in {"none", "active", "done"} /\ pieces' \subseteq Pieces
    BY <1>1, <1>3 DEF loadDownloads, Rest
  <2>2. source' \in [Pieces -> Peers \cup {NoPeer}]
    BY <1>1, <1>3 DEF loadDownloads, Rest
  <2>3. session' \in Nat \ {0, 1}
    BY <1>1, <1>3 DEF Rest, ProvidersKnown
  <2>4. ProvidersKnown' /\ OnlyBadPeersBlamed'
    BY <2>3 DEF ProvidersKnown, OnlyBadPeersBlamed
  <2> QED
    BY <1>1, <1>3, <2>1, <2>2, <2>4 DEF Rest
<1>6. (Queues /\ Rest)' => IInv'
  BY Parts, PTL
<1> QED
  BY <1>4, <1>5, <1>6

LEMMA UnneededPieceKeeps ==
    ASSUME IInv, NEW p \in Peers, NEW i \in Pieces, UnneededPiece(p, i)
    PROVE  IInv'
<1> DEFINE v == Received(p, i)
           c == v[p]
           e == UpdatePD(c)
<1>1. Queues /\ Rest
  BY Parts
<1>2. /\ v \in [Peers -> PDs]
      /\ \A q \in Peers \ {p} : v[q] = pd[q]
      /\ Len(c.reqs) <= MaxReqs /\ Len(c.wait) <= MaxWait
      /\ Queued(pd[p]) \ {i} \subseteq Queued(c)
      /\ c.ds = pd[p].ds
  BY ReceivedSound
<1>3. pd' = [v EXCEPT ![p] = e] /\ UNCHANGED <<chunk, pieces, pdown>>
  BY <1>2 DEF UnneededPiece
<1> HIDE DEF v
<1>4. c.ds \ pieces \subseteq Queued(c)
  <2>1. CASE i \in pieces
    BY <1>1, <1>2, <2>1 DEF Queues, Sound
  <2>2. CASE chunk # "active"
    BY <1>1, <1>2, <2>2 DEF Queues
  <2> QED
    BY <2>1, <2>2 DEF UnneededPiece
<1>5. Sound(c, pieces)
  BY <1>2, <1>4 DEF Sound
<1> HIDE DEF c
<1>6. Sound(e, pieces) /\ e.ds = pd[p].ds
  BY <1>2, <1>5, UpdateKeepsSound
<1> HIDE DEF e
<1>7. e \in PDs
  BY <1>6 DEF Sound
<1>8. pd' \in [Peers -> PDs] /\ pd'[p] = e /\ \A q \in Peers \ {p} : pd'[q] = pd[q]
  BY <1>2, <1>3, <1>7
<1>9. Queues'
  BY <1>1, <1>3, <1>6, <1>8 DEF Queues
<1>10. Rest'
  BY <1>1 DEF UnneededPiece, Rest, ProvidersKnown, OnlyBadPeersBlamed
<1>11. (Queues /\ Rest)' => IInv'
  BY Parts, PTL
<1> QED
  BY <1>9, <1>10, <1>11

LEMMA PieceStoredKeeps ==
    ASSUME IInv, NEW p \in Peers, NEW i \in Pieces, PieceStored(p, i)
    PROVE  IInv'
<1>1. Queues /\ Rest
  BY Parts
<1>2. PICK d \in AskAll(Stored(p, i), pieces', pdown) : pd' = [d EXCEPT ![p] = UpdatePD(@)]
  BY DEF PieceStored
<1>3. pieces' = pieces \cup {i} /\ UNCHANGED <<chunk, pdown>>
  BY DEF PieceStored, NewPiece
<1> DEFINE x == Stored(p, i)
<1>4. /\ x \in [Peers -> PDs]
      /\ \A q \in Peers : Sound(x[q], pieces)
      /\ \A q \in Peers \ pdown : x[q].ds = {}
  BY StoredSound
<1> HIDE DEF x
<1>5. \A q \in Peers : Sound(x[q], pieces')
  BY <1>3, <1>4, SoundLater
<1>6. d \in AskAll(x, pieces', pdown)
  BY DEF x
<1>7. /\ d \in [Peers -> PDs]
      /\ \A q \in Peers : Sound(d[q], pieces')
      /\ \A q \in Peers \ pdown : d[q] = x[q]
  BY <1>5, <1>6, AskAllSound
<1> DEFINE e == UpdatePD(d[p])
<1>8. Sound(e, pieces') /\ e.ds = d[p].ds
  BY <1>7, UpdateKeepsSound
<1>9. pd' = [d EXCEPT ![p] = e]
  BY <1>2
<1> HIDE DEF e
<1>10. e \in PDs
  BY <1>8 DEF Sound
<1>11. pd' \in [Peers -> PDs] /\ pd'[p] = e /\ \A q \in Peers \ {p} : pd'[q] = d[q]
  BY <1>7, <1>9, <1>10
<1>12. Queues'
  BY <1>1, <1>3, <1>4, <1>7, <1>8, <1>11, ZenonT(60) DEF Queues
<1>13. Rest'
  <2>1. /\ source' = [source EXCEPT ![i] = p] /\ piece_providers' = piece_providers \cup {p}
        /\ UNCHANGED <<chunk, pdown, peer, rerun, session, blamed, choked>>
    BY DEF PieceStored, NewPiece
  <2>2. ProvidersKnown'
    BY <1>1, <1>3, <2>1 DEF Rest, ProvidersKnown
  <2> QED
    BY <1>1, <1>3, <2>1, <2>2 DEF Rest, OnlyBadPeersBlamed
<1>14. (Queues /\ Rest)' => IInv'
  BY Parts, PTL
<1> QED
  BY <1>12, <1>13, <1>14

\* After the last piece no peer is assigned any more.
LEMMA ReleasedKeeps ==
    ASSUME IInv, NEW p \in Peers, NEW i \in Pieces,
           pd' = [Released(Stored(p, i)) EXCEPT ![p] = UpdatePD(@)], pdown' = {}
    PROVE  Queues'
<1> DEFINE x == Stored(p, i)
           r == Released(x)
<1>1. /\ x \in [Peers -> PDs]
      /\ \A q \in Peers : Sound(x[q], pieces)
      /\ \A q \in Peers \ pdown : x[q].ds = {}
  BY StoredSound
<1>2. pd' = [r EXCEPT ![p] = UpdatePD(@)]
  OBVIOUS
<1> HIDE DEF x
<1>3. /\ r \in [Peers -> PDs]
      /\ \A q \in Peers : Sound(r[q], pieces)
      /\ \A q \in Peers : IF q \in pdown THEN r[q].ds = {} ELSE r[q] = x[q]
  BY <1>1, ReleasedSound
<1> HIDE DEF r
<1>4. \A q \in Peers : r[q].ds = {}
  BY <1>1, <1>3
<1> DEFINE e == UpdatePD(r[p])
<1>5. Sound(e, pieces) /\ e.ds = {}
  BY <1>3, <1>4, UpdateKeepsSound
<1>6. pd' = [r EXCEPT ![p] = e]
  BY <1>2
<1> HIDE DEF e
<1>7. e \in PDs
  BY <1>5 DEF Sound
<1>8. pd' \in [Peers -> PDs] /\ pd'[p] = e /\ \A q \in Peers \ {p} : pd'[q] = r[q]
  BY <1>3, <1>6, <1>7
<1>9. \A q \in Peers : pd'[q].ds = {} /\ Sound(pd'[q], pieces)
  BY <1>3, <1>4, <1>5, <1>8
<1>10. \A q \in Peers : Sound(pd'[q], pieces')
  BY <1>9 DEF Sound
<1> QED
  BY <1>8, <1>9, <1>10 DEF Queues

LEMMA ChunkFinishedKeeps ==
    ASSUME IInv, NEW p \in Peers, NEW i \in Pieces, ChunkFinished(p, i)
    PROVE  IInv'
<1>1. Queues /\ Rest
  BY Parts
<1>2. Queues'
  BY ReleasedKeeps DEF ChunkFinished, Finished
<1>3. Rest'
  <2>1. /\ source' = [source EXCEPT ![i] = p] /\ piece_providers' = piece_providers \cup {p}
        /\ pieces' = pieces \cup {i} /\ pdown' = {} /\ chunk' = "done"
        /\ UNCHANGED <<peer, rerun, session, blamed, choked>>
    BY DEF ChunkFinished, Finished, NewPiece
  <2>2. ProvidersKnown'
    BY <1>1, <2>1 DEF Rest, ProvidersKnown
  <2> QED
    BY <1>1, <2>1, <2>2 DEF Rest, OnlyBadPeersBlamed
<1>4. (Queues /\ Rest)' => IInv'
  BY Parts, PTL
<1> QED
  BY <1>2, <1>3, <1>4

\* A chunk all of whose pieces came from one provider is bad only if he is.
LEMMA ChunkFailedKeeps ==
    ASSUME IInv, NEW p \in Peers, NEW i \in Pieces, ChunkFailed(p, i)
    PROVE  IInv'
<1>1. Queues /\ Rest
  BY Parts
<1>2. Queues'
  BY ReleasedKeeps DEF ChunkFailed
<1>3. Rest'
  <2>1. /\ source' = [j \in Pieces |-> NoPeer] /\ piece_providers' = {}
        /\ pieces' = {} /\ pdown' = {} /\ chunk' = "none" /\ rerun' = TRUE
        /\ blamed' = blamed \cup OnlyDownloader(piece_providers \cup {p})
        /\ UNCHANGED <<peer, session, choked>>
    BY DEF ChunkFailed
  <2>2. ProvidersKnown'
    BY <1>1, <2>1 DEF Rest, ProvidersKnown
  <2>3. OnlyBadPeersBlamed'
    <3> SUFFICES ASSUME session = 1, NEW q \in OnlyDownloader(piece_providers \cup {p})
                 PROVE  q \in BadPeers
      BY <1>1, <2>1 DEF Rest, OnlyBadPeersBlamed
    <3>1. piece_providers \cup {p} = {q}
      BY DEF OnlyDownloader
    <3>2. PICK j \in Pieces : [source EXCEPT ![i] = p][j] \in BadPeers \cup {NoPeer}
      BY DEF ChunkFailed, HashOK
    <3>3. j = i \/ j \in pieces
      BY DEF ChunkFailed
    <3>4. [source EXCEPT ![i] = p][j] \in piece_providers \cup {p}
      BY <1>1, <3>3 DEF Rest, ProvidersKnown
    <3>5. [source EXCEPT ![i] = p][j] \in Peers
      BY <1>1, <3>4 DEF Rest
    <3> QED
      BY <3>1, <3>2, <3>4, <3>5, NoPeerAssumption
  <2>4. blamed' \subseteq Peers
    BY <1>1, <2>1 DEF Rest, OnlyDownloader
  <2> QED
    BY <1>1, <2>1, <2>2, <2>3, <2>4 DEF Rest
<1>4. (Queues /\ Rest)' => IInv'
  BY Parts, PTL
<1> QED
  BY <1>2, <1>3, <1>4

\* Downloader::update: assigned peers are asked for more and late requests are sent again.
LEMMA UpdateKeeps ==
    ASSUME IInv, NEW n \in [Peers -> 0..MaxReqs], \A p \in Peers : n[p] <= Len(pd[p].reqs),
           UpdateWith(n)
    PROVE  IInv'
<1> DEFINE rel == IF AllChoked THEN Released(pd) ELSE pd
           down == IF AllChoked THEN {} ELSE pdown
           add == Assignable(rel, down)
           grab == [p \in Peers |-> IF p \in add THEN [rel[p] EXCEPT !.grabbed = @ + 1] ELSE rel[p]]
<1>1. Queues /\ Rest
  BY Parts
<1>2. /\ chunk # "done" /\ rerun' = FALSE
      /\ chunk' = (IF add # {} THEN "active" ELSE chunk)
      /\ pdown' = down \cup add
      /\ \E again \in {{}, down} : \E d \in AskAll(grab, pieces, again \cup add) :
            pd' = [p \in Peers |-> Retransmitted(d[p], Least(n[p], Len(pd[p].reqs)))]
      /\ UNCHANGED <<pieces, piece_providers, peer, session, source, blamed, choked>>
  BY Zenon DEF UpdateWith
<1>3. /\ rel \in [Peers -> PDs]
      /\ \A q \in Peers : Sound(rel[q], pieces) /\ rel[q].reqs = pd[q].reqs
      /\ \A q \in Peers \ down : rel[q].ds = {}
  <2>1. pd \in [Peers -> PDs] /\ \A q \in Peers : Sound(pd[q], pieces)
    BY <1>1 DEF Queues
  <2>2. CASE AllChoked
    <3>1. /\ Released(pd) \in [Peers -> PDs]
          /\ \A q \in Peers : Sound(Released(pd)[q], pieces) /\ Released(pd)[q].reqs = pd[q].reqs
          /\ \A q \in Peers : IF q \in pdown THEN Released(pd)[q].ds = {}
                                             ELSE Released(pd)[q] = pd[q]
      BY <2>1, ReleasedSound
    <3> QED
      BY <1>1, <2>2, <3>1 DEF Queues
  <2>3. CASE ~AllChoked
    BY <1>1, <2>1, <2>3 DEF Queues
  <2> QED
    BY <2>2, <2>3
<1>4. down \subseteq pdown /\ add \subseteq Peers /\ (chunk # "active" => down = {})
  BY <1>1 DEF Queues, Assignable
<1> HIDE DEF rel, down, add
<1>5. /\ grab \in [Peers -> PDs]
      /\ \A q \in Peers : Sound(grab[q], pieces) /\ grab[q].reqs = pd[q].reqs
      /\ \A q \in Peers \ down : grab[q].ds = {}
  <2>1. ASSUME NEW q \in Peers
        PROVE  /\ grab[q] \in PDs /\ Sound(grab[q], pieces) /\ grab[q].reqs = pd[q].reqs
               /\ grab[q].ds = rel[q].ds
    <3> DEFINE c == rel[q]
               e == [c EXCEPT !.grabbed = c.grabbed + 1]
    <3>1. c \in PDs /\ Sound(c, pieces) /\ c.reqs = pd[q].reqs
      BY <1>3
    <3>2. grab[q] \in {c, e}
      OBVIOUS
    <3>3. e = [c EXCEPT !.grabbed = c.grabbed + 1]
      OBVIOUS
    <3> HIDE DEF e
    <3>4. e = [reqs |-> c.reqs, wait |-> c.wait, ds |-> c.ds, remote |-> c.remote,
               grabbed |-> c.grabbed + 1]
      BY <3>1, <3>3 DEF PDs
    <3>5. e \in PDs /\ e.reqs = c.reqs /\ e.wait = c.wait /\ e.ds = c.ds
      BY <3>1, <3>4 DEF PDs
    <3>6. Sound(e, pieces)
      BY <3>1, <3>5 DEF Sound, Queued
    <3> HIDE DEF grab
    <3> QED
      BY <3>1, <3>2, <3>5, <3>6
  <2>2. grab = [p \in Peers |-> grab[p]]
    OBVIOUS
  <2> HIDE DEF grab
  <2> QED
    BY <1>3, <2>1, <2>2
<1> HIDE DEF grab
<1>12. PICK again \in {{}, down} : \E d \in AskAll(grab, pieces, again \cup add) :
            pd' = [p \in Peers |-> Retransmitted(d[p], Least(n[p], Len(pd[p].reqs)))]
  BY <1>2
<1>6. PICK d \in AskAll(grab, pieces, again \cup add) :
            pd' = [p \in Peers |-> Retransmitted(d[p], Least(n[p], Len(pd[p].reqs)))]
  BY <1>12
<1>7. /\ d \in [Peers -> PDs]
      /\ \A q \in Peers : Sound(d[q], pieces)
      /\ \A q \in Peers : Len(d[q].reqs) >= Len(grab[q].reqs)
      /\ \A q \in Peers \ (again \cup add) : d[q] = grab[q]
  <2>1. \A q \in Peers : Sound(grab[q], pieces)
    BY <1>5
  <2> DEFINE to == again \cup add
  <2>2. d \in AskAll(grab, pieces, to)
    OBVIOUS
  <2> HIDE DEF to
  <2>3. /\ d \in [Peers -> PDs]
        /\ \A q \in Peers : Sound(d[q], pieces)
        /\ \A q \in Peers : Len(d[q].reqs) >= Len(grab[q].reqs)
        /\ \A q \in Peers \ to : d[q] = grab[q]
    BY <2>1, <2>2, AskAllSound
  <2> QED
    BY <2>3 DEF to
<1>8. ASSUME NEW q \in Peers
      PROVE  pd'[q] \in PDs /\ Sound(pd'[q], pieces) /\ pd'[q].ds = d[q].ds
  <2> DEFINE c == d[q]
             m == Least(n[q], Len(pd[q].reqs))
  <2>1. pd'[q] = Retransmitted(c, m) /\ Sound(c, pieces)
    BY <1>6, <1>7
  <2>2. m \in 0..Len(c.reqs)
    <3>1. Len(c.reqs) >= Len(pd[q].reqs) /\ n[q] <= Len(pd[q].reqs) /\ n[q] \in Nat
      BY <1>5, <1>7, LimitsAssumption
    <3>2. Len(pd[q].reqs) \in Nat /\ Len(c.reqs) \in Nat
      BY <1>1, <1>7 DEF Queues, PDs
    <3> DEFINE k == Len(pd[q].reqs)
    <3>3. k \in Nat /\ n[q] \in Nat /\ n[q] <= k
      BY <3>1, <3>2
    <3>4. m = Least(n[q], k)
      OBVIOUS
    <3> HIDE DEF k, m
    <3>5. m = n[q]
      BY <3>3, <3>4 DEF Least
    <3> QED
      BY <3>1, <3>2, <3>5 DEF k
  <2> HIDE DEF c, m
  <2>3. Sound(Retransmitted(c, m), pieces) /\ Retransmitted(c, m).ds = c.ds
    BY <2>1, <2>2, RetransmittedSound
  <2> QED
    BY <2>1, <2>3 DEF c, Sound
<1>9. Queues'
  <2>1. pd' \in [Peers -> PDs]
    BY <1>6, <1>8
  <2>2. \A q \in Peers : Sound(pd'[q], pieces')
    BY <1>2, <1>8
  <2>3. \A q \in Peers \ pdown' : pd'[q].ds = {}
    BY <1>2, <1>5, <1>7, <1>8
  <2>4. chunk' # "active" => pdown' = {}
    BY <1>2, <1>4
  <2> QED
    BY <2>1, <2>2, <2>3, <2>4 DEF Queues
<1>10. Rest'
  <2>1. chunk' \in {"none", "active", "done"} /\ pdown' \subseteq Peers
    BY <1>1, <1>2, <1>4 DEF Rest
  <2> QED
    BY <1>1, <1>2, <2>1 DEF Rest, ProvidersKnown, OnlyBadPeersBlamed
<1>11. (Queues /\ Rest)' => IInv'
  BY Parts, PTL
<1> QED
  BY <1>9, <1>10, <1>11

-----------------------------------------------------------------------------
(* Theorems *)

LEMMA InitHolds == Init => IInv
<1> SUFFICES ASSUME Init PROVE Queues /\ Rest
  BY Parts
<1>1. \A p \in Peers : pd[p] = NewPD
  BY DEF Init
<1>2. NewPD \in PDs /\ Sound(NewPD, pieces) /\ NewPD.ds = {}
  BY NewPDSound
<1>3. Queues
  BY <1>1, <1>2 DEF Init, Queues
<1>4. Rest
  <2>1. ProvidersKnown /\ OnlyBadPeersBlamed
    BY DEF Init, ProvidersKnown, OnlyBadPeersBlamed
  <2>2. /\ peer \in [Peers -> {"new", "connected", "gone"}]
        /\ source \in [Pieces -> Peers \cup {NoPeer}]
    BY DEF Init
  <2>3. rerun \in BOOLEAN
    BY DEF Init
  <2> QED
    BY <2>1, <2>2, <2>3 DEF Init, Rest
<1> QED
  BY <1>3, <1>4

LEMMA NextKeeps == IInv /\ [Next]_vars => IInv'
<1> SUFFICES ASSUME IInv, [Next]_vars PROVE IInv'
  OBVIOUS
<1>1. ASSUME NEW p \in Peers, Connect(p) \/ Unchoke(p) \/ Choke(p) \/ PeerKilled(p)
      PROVE  IInv'
  BY <1>1, ConnectKeeps, ChokeKeeps, PeerKilledKeeps
<1>2. ASSUME NEW p \in Peers, NEW i \in Pieces, pieceRecieved(p, i) \/ Reject(p, i) \/ Drop(p, i)
      PROVE  IInv'
  BY <1>2, UnneededPieceKeeps, PieceStoredKeeps, ChunkFinishedKeeps, ChunkFailedKeeps,
     RejectKeeps, DropKeeps DEF pieceRecieved
<1>3. CASE Update
  BY <1>3, UpdateKeeps DEF Update
<1>4. CASE Restart
  BY <1>4, RestartKeeps
<1>5. CASE UNCHANGED vars
  <2>1. Queues /\ Rest
    BY Parts
  <2>2. Queues'
    BY <1>5, <2>1 DEF vars, Queues, Sound, Queued
  <2>3. Rest'
    BY <1>5, <2>1 DEF vars, Rest, ProvidersKnown, OnlyBadPeersBlamed
  <2>4. (Queues /\ Rest)' => IInv'
    BY Parts, PTL
  <2> QED
    BY <2>2, <2>3, <2>4
<1> QED
  BY <1>1, <1>2, <1>3, <1>4, <1>5 DEF Next

\* The queues, marks and providers of every reachable state are sound.
THEOREM Invariant == Spec => []IInv
BY InitHolds, NextKeeps, PTL DEF Spec

\* Every missing piece marked as asked of a peer is in the queues of that peer,
\* which stay within max_reqs and max_wait_queue_size (PeerDownloader::update,
\* ChunkDownload::sendRequests), for any number of peers and pieces.
THEOREM EveryRequestIsOnTheBooks == Spec => []RequestsAreAccounted
<1>1. IInv => RequestsAreAccounted
  BY DEF IInv, RequestsAreAccounted, TypeOK, Sound, Queued
<1> QED
  BY <1>1, Invariant, PTL

\* Downloader::finished kills a peer for bad data only if he sent bad data, as long
\* as no piece came out of the current_chunks file.
THEOREM BlameIsDeserved == Spec => []OnlyBadPeersBlamed
<1>1. IInv => OnlyBadPeersBlamed
  BY DEF IInv
<1> QED
  BY <1>1, Invariant, PTL
=============================================================================
