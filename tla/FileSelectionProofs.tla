------------------------ MODULE FileSelectionProofs ------------------------
(***************************************************************************)
(* The safety of FileSelection for every torrent, whatever the number and  *)
(* the sizes of its files: what the bitset promises is stored, the count   *)
(* of the chunks that are left is right, and no chunk of a wanted file is  *)
(* forgotten.                                                              *)
(***************************************************************************)
EXTENDS FileSelection, FiniteSetTheorems, TLAPS

-----------------------------------------------------------------------------
(* The layout of the files *)

\* A file begins where the one before it ends, or in the chunk after it
Layout ==
    /\ Len(torrent) \in Nat /\ Files = 1 .. Len(torrent)
    /\ \A f \in Files :
          /\ torrent[f].first \in Nat /\ torrent[f].last \in Nat /\ torrent[f].size \in Nat
          /\ torrent[f].first <= torrent[f].last
          /\ torrent[f].size = 0 => torrent[f].first = torrent[f].last
    /\ \A f, g \in Files : f < g => torrent[f].last <= torrent[g].first

\* Division by the size of a chunk keeps the order
LEMMA DivMonotone ==
    ASSUME NEW a \in Nat, NEW b \in Nat, NEW n \in Nat \ {0}, a <= b
    PROVE  a \div n \in Nat /\ a \div n <= b \div n
<1>1. \A x \in Nat : x \div n \in Nat /\ n * (x \div n) <= x /\ x < n * (x \div n) + n
  BY SMT
<1> DEFINE p == a \div n
           q == b \div n
<1>2. p \in Nat /\ q \in Nat /\ n * p <= a /\ b < n * q + n
  BY <1>1
<1> HIDE DEF p, q
<1>3. ASSUME q + 1 <= p PROVE FALSE
  <2>1. n * (q + 1) <= n * p
    BY <1>2, <1>3, SMT
  <2>2. n * (q + 1) = n * q + n
    BY <1>2, SMT
  <2> QED
    BY <2>1, <2>2, <1>2, SMT
<1>4. p <= q
  BY <1>3, <1>2
<1> QED
  BY <1>4, <1>2 DEF p, q

\* loadFiles makes such a layout of any ascending ends
LEMMA LayoutOfFiles ==
    ASSUME NEW ends \in Layouts, torrent = LoadFiles(ends)
    PROVE  Layout
<1> DEFINE off(i) == IF i = 1 THEN 0 ELSE ends[i - 1]
           lst(i) == IF ends[i] > off(i) THEN (ends[i] - 1) \div ChunkSize ELSE off(i) \div ChunkSize
<1>1. /\ ends \in Seq(Nat) /\ ChunkSize \in Nat \ {0} /\ Len(ends) \in Nat
      /\ DOMAIN ends = 1 .. Len(ends) /\ \A i \in 1 .. Len(ends) : ends[i] \in Nat
      /\ \A i, j \in 1 .. Len(ends) : i <= j => ends[i] <= ends[j]
  BY ConstantsAssumption DEF ConstantsAssumption
<1>2. torrent = [i \in 1 .. Len(ends) |->
                   [first |-> off(i) \div ChunkSize, last |-> lst(i), size |-> ends[i] - off(i)]]
  BY <1>1 DEF LoadFiles
<1>3. Len(torrent) = Len(ends) /\ Files = 1 .. Len(ends)
  BY <1>1, <1>2 DEF Files
<1>4. ASSUME NEW i \in 1 .. Len(ends)
      PROVE  off(i) \in Nat /\ off(i) <= ends[i] /\ ends[i] \in Nat
  BY <1>1
<1> HIDE DEF off
<1>5. ASSUME NEW i \in 1 .. Len(ends)
      PROVE  /\ off(i) \div ChunkSize \in Nat /\ lst(i) \in Nat /\ ends[i] - off(i) \in Nat
             /\ off(i) \div ChunkSize <= lst(i)
             /\ ends[i] - off(i) = 0 => lst(i) = off(i) \div ChunkSize
  <2>1. CASE ends[i] > off(i)
    <3>1. ends[i] - 1 \in Nat /\ off(i) <= ends[i] - 1 /\ ends[i] - off(i) \in Nat
      BY <1>4, <2>1
    <3>2. /\ off(i) \div ChunkSize \in Nat
          /\ off(i) \div ChunkSize <= (ends[i] - 1) \div ChunkSize
      BY <1>1, <1>4, <3>1, DivMonotone
    <3>3. (ends[i] - 1) \div ChunkSize \in Nat
      BY <1>1, <3>1, DivMonotone
    <3>4. ends[i] - off(i) # 0
      BY <1>4, <2>1
    <3> QED
      BY <2>1, <3>1, <3>2, <3>3, <3>4
  <2>2. CASE ~(ends[i] > off(i))
    <3>1. off(i) \div ChunkSize \in Nat
      BY <1>1, <1>4, DivMonotone
    <3> QED
      BY <1>4, <2>2, <3>1
  <2> QED
    BY <2>1, <2>2
<1>6. ASSUME NEW i \in 1 .. Len(ends), NEW j \in 1 .. Len(ends), i < j
      PROVE  lst(i) <= off(j) \div ChunkSize
  <2>1. off(j) \in Nat /\ ends[i] <= off(j)
    <3>1. j # 1 /\ j - 1 \in 1 .. Len(ends) /\ i <= j - 1
      BY <1>6, <1>1
    <3> QED
      BY <3>1, <1>1 DEF off
  <2>2. CASE ends[i] > off(i)
    <3>1. ends[i] - 1 \in Nat /\ ends[i] - 1 <= off(j)
      BY <1>4, <2>1, <2>2
    <3> QED
      BY <1>1, <2>1, <2>2, <3>1, DivMonotone
  <2>3. CASE ~(ends[i] > off(i))
    <3>1. off(i) \in Nat /\ off(i) <= off(j)
      BY <1>4, <2>1
    <3> QED
      BY <1>1, <2>1, <2>3, <3>1, DivMonotone
  <2> QED
    BY <2>2, <2>3
<1> HIDE DEF lst
<1> QED
  BY <1>2, <1>3, <1>5, <1>6, <1>1 DEF Layout

\* Chunks are numbers, and each lies in a file
LEMMA ChunksAreShared ==
    ASSUME Layout
    PROVE  /\ \A c \in Chunks : c \in Nat /\ (InOneFile(c) \/ Shared(c))
           /\ \A f \in Files : \A c \in ChunksOf(f) : c \in Nat
           /\ \A c : \A f \in FilesOf(c) : f \in Files /\ c \in ChunksOf(f) /\ c \in Chunks
           /\ \A f \in Files : torrent[f].size # 0 =>
                 \A c \in ChunksOf(f) : f \in FilesOf(c) /\ c \in Chunks
           /\ \A c : ~(InOneFile(c) /\ Shared(c))
           /\ \A c : InOneFile(c) => c \in Chunks
<1>1. \A f \in Files : \A c \in ChunksOf(f) : c \in Nat
  BY DEF Layout, ChunksOf
<1>2. \A f \in Files : torrent[f].size # 0 =>
                 \A c \in ChunksOf(f) : f \in FilesOf(c) /\ c \in Chunks
  BY DEF FilesOf, Chunks
<1>3. \A c : \A f \in FilesOf(c) : f \in Files /\ c \in ChunksOf(f) /\ c \in Chunks
  BY DEF FilesOf, Chunks
<1>4. \A c : InOneFile(c) => c \in Chunks
  BY <1>3 DEF InOneFile
<1>5. \A c : ~(InOneFile(c) /\ Shared(c))
  BY DEF InOneFile, Shared
<1>6. ASSUME NEW c \in Chunks PROVE c \in Nat /\ (InOneFile(c) \/ Shared(c))
  <2>1. PICK f \in Files : torrent[f].size # 0 /\ c \in ChunksOf(f)
    BY DEF Chunks
  <2>2. f \in FilesOf(c) /\ FilesOf(c) \subseteq Files
    BY <2>1 DEF FilesOf
  <2> QED
    BY <2>1, <2>2, <1>1 DEF InOneFile, Shared
<1> QED
  BY <1>1, <1>2, <1>3, <1>4, <1>5, <1>6

\* A shared chunk is the last one of its first file and the first one of the others
LEMMA BorderChunks ==
    ASSUME Layout, NEW c, Shared(c), NEW f \in FilesOf(c)
    PROVE  /\ IsFirst(f, c) => c = torrent[f].last
           /\ ~IsFirst(f, c) => c = torrent[f].first
           /\ c = torrent[f].first \/ c = torrent[f].last
<1>1. \A g \in FilesOf(c) : /\ g \in Files /\ g \in Nat /\ torrent[g].first \in Nat /\ torrent[g].last \in Nat
                            /\ c \in Nat /\ torrent[g].first <= c /\ c <= torrent[g].last
  BY DEF FilesOf, Layout, ChunksOf
<1>2. \A g \in FilesOf(c) : \A h \in FilesOf(c) : g < h => c = torrent[g].last /\ c = torrent[h].first
  BY <1>1 DEF Layout
<1>3. PICK g \in FilesOf(c) : g # f
  BY DEF Shared
<1>4. IsFirst(f, c) => c = torrent[f].last
  BY <1>1, <1>2, <1>3 DEF IsFirst
<1>5. ~IsFirst(f, c) => c = torrent[f].first
  BY <1>1, <1>2 DEF IsFirst
<1> QED
  BY <1>4, <1>5

-----------------------------------------------------------------------------
(* What prioritise, include, exclude and resetChunk do to every chunk *)

\* The priorities a chunk may have, and the types of the three objects
Levels == Priorities \cup {EXCLUDED, ONLY_SEED_PRIORITY, NORMAL_PRIORITY, PREVIEW_PRIORITY}

Cmans ==
    [status : [Chunks -> {"NOT_DOWNLOADED", "BUFFERED", "ON_DISK"}], cprio : [Chunks -> Levels],
     bitset : SUBSET Chunks, excluded : SUBSET Chunks, only_seed : SUBSET Chunks,
     todo : SUBSET Chunks, recalc : BOOLEAN, left : {Cardinality(S) : S \in SUBSET Chunks}]
Downs == [current : SUBSET Chunks, chunks : SUBSET Chunks]
Caches == [Files -> [where : {"output", "dnd", "missing"}, parts : SUBSET Nat, first : Part, last : Part]]
Worlds == [cman : Cmans, down : Downs, cache : Caches]

\* The chunk manager has the same for a chunk
Agree(m, n, c) ==
    /\ n.status[c] = m.status[c] /\ n.cprio[c] = m.cprio[c]
    /\ c \in n.bitset <=> c \in m.bitset
    /\ c \in n.excluded <=> c \in m.excluded
    /\ c \in n.only_seed <=> c \in m.only_seed
    /\ c \in n.todo <=> c \in m.todo

\* What the loop of prioritise does to every chunk
IsPrioritised(m, n, S, p) ==
    \A c \in Chunks :
        /\ c \notin S => Agree(m, n, c)
        /\ c \in S => /\ n.status[c] = m.status[c] /\ n.cprio[c] = p
                      /\ c \in n.excluded <=> c \in m.excluded
                      /\ c \in n.only_seed <=> p = ONLY_SEED_PRIORITY
                      /\ c \in n.todo <=> p \notin {ONLY_SEED_PRIORITY, EXCLUDED} /\ c \notin m.bitset

\* What resetChunk does to every chunk
IsReset(m, n, S) ==
    \A c \in Chunks :
        /\ c \notin S => Agree(m, n, c)
        /\ c \in S => /\ n.status[c] = "NOT_DOWNLOADED" /\ n.cprio[c] = m.cprio[c]
                      /\ c \notin n.bitset
                      /\ c \in n.excluded <=> c \in m.excluded
                      /\ c \in n.only_seed <=> c \in m.only_seed
                      /\ c \in n.todo <=> c \notin m.excluded \cup m.only_seed

\* What the loop of include does to every chunk
IsIncluded(m, n, S) ==
    \A c \in Chunks :
        /\ c \notin S => Agree(m, n, c)
        /\ c \in S => /\ n.status[c] = m.status[c] /\ n.cprio[c] = NORMAL_PRIORITY
                      /\ c \notin n.excluded
                      /\ c \in n.only_seed <=> c \in m.only_seed
                      /\ c \in n.todo <=> c \in m.todo \/ c \notin m.bitset

\* What exclude and onExcluded do to every chunk; d is the downloader before them
IsExcluded(m, d, n, S) ==
    \A c \in Chunks :
        /\ c \notin S => Agree(m, n, c)
        /\ c \in S => /\ n.status[c] = IF c \in d.current THEN "NOT_DOWNLOADED" ELSE m.status[c]
                      /\ n.cprio[c] = EXCLUDED /\ c \notin n.bitset /\ c \in n.excluded
                      /\ c \notin n.only_seed /\ c \notin n.todo

\* The count of the chunks that are left, as ChunksLeftIsFresh states it
Fresh(m) ==
    m.recalc \/ \E S \in SUBSET {c \in LeftSet(m) : Odd(c)} : m.left = Cardinality(LeftSet(m) \ S)

\* chunksLeft changes the count only, which is right then
LEMMA ChunksLeftEffect ==
    ASSUME NEW m \in Cmans
    PROVE  /\ ChunksLeft(m) \in Cmans
           /\ \A c : Agree(m, ChunksLeft(m), c)
           /\ ChunksLeft(m).bitset = m.bitset /\ ChunksLeft(m).cprio = m.cprio
           /\ LeftSet(ChunksLeft(m)) = LeftSet(m)
           /\ ~ChunksLeft(m).recalc
           /\ m.recalc => ChunksLeft(m).left = Cardinality(LeftSet(m))
           /\ ~m.recalc => ChunksLeft(m) = m
           /\ Fresh(m) => Fresh(ChunksLeft(m))
           /\ m.recalc => Fresh(ChunksLeft(m))
<1>1. CASE ~m.recalc
  <2>1. ChunksLeft(m) = m
    BY <1>1 DEF ChunksLeft
  <2> QED
    BY <1>1, <2>1 DEF Agree
<1>2. CASE m.recalc
  <2> DEFINE n == [m EXCEPT !.left = Left(m), !.recalc = FALSE]
  <2>1. ChunksLeft(m) = n
    BY <1>2 DEF ChunksLeft
  <2>2. LeftSet(m) \in SUBSET Chunks /\ Left(m) = Cardinality(LeftSet(m))
    BY DEF LeftSet, Left
  <2>3. Left(m) \in {Cardinality(S) : S \in SUBSET Chunks}
    BY <2>2
  <2>4. n \in Cmans
    BY <2>3 DEF Cmans
  <2>5. /\ n.status = m.status /\ n.cprio = m.cprio /\ n.bitset = m.bitset /\ n.excluded = m.excluded
        /\ n.only_seed = m.only_seed /\ n.todo = m.todo /\ ~n.recalc /\ n.left = Left(m)
    BY DEF Cmans
  <2> HIDE DEF n
  <2>6. LeftSet(n) = LeftSet(m)
    BY <2>5 DEF LeftSet, Excluded
  <2>7. n.left = Cardinality(LeftSet(n) \ {})
    <3>1. LeftSet(n) \ {} = LeftSet(n)
      OBVIOUS
    <3> QED
      BY <2>2, <2>5, <2>6, <3>1
  <2>8. Fresh(n)
    BY <2>7 DEF Fresh
  <2>9. \A c : Agree(m, n, c)
    BY <2>5 DEF Agree
  <2> QED
    BY <1>2, <2>1, <2>2, <2>4, <2>5, <2>6, <2>8, <2>9
<1> QED
  BY <1>1, <1>2

\* prioritise does what IsPrioritised says and touches nothing but the chunk manager
LEMMA PrioritiseEffect ==
    ASSUME NEW w \in Worlds, NEW from, NEW to, NEW p \in Levels
    PROVE  LET v == prioritise(w, from, to, p)
           IN  /\ v \in Worlds /\ v.down = w.down /\ v.cache = w.cache
               /\ v.cman.bitset = w.cman.bitset
               /\ IsPrioritised(w.cman, v.cman, InRange(from, to), p)
<1> DEFINE S == InRange(from, to)
           m == w.cman
           n == [m EXCEPT !.cprio = [c \in Chunks |-> IF c \in S THEN p ELSE @[c]],
                          !.only_seed = IF p = ONLY_SEED_PRIORITY THEN @ \cup S ELSE @ \ S,
                          !.todo = IF p \in {ONLY_SEED_PRIORITY, EXCLUDED} THEN @ \ S
                                   ELSE (@ \ S) \cup (S \ m.bitset)]
           v == [w EXCEPT !.cman = n]
<1>1. prioritise(w, from, to, p) = [v EXCEPT !.cman = ChunksLeft(@)]
  BY DEF prioritise, updateStats
<1>2. S \subseteq Chunks /\ m \in Cmans
  BY DEF InRange, Worlds
<1>3. /\ n.status = m.status /\ n.bitset = m.bitset /\ n.excluded = m.excluded
      /\ n.cprio = [c \in Chunks |-> IF c \in S THEN p ELSE m.cprio[c]]
      /\ n.only_seed = IF p = ONLY_SEED_PRIORITY THEN m.only_seed \cup S ELSE m.only_seed \ S
      /\ n.todo = IF p \in {ONLY_SEED_PRIORITY, EXCLUDED} THEN m.todo \ S
                  ELSE (m.todo \ S) \cup (S \ m.bitset)
  BY <1>2 DEF Cmans
<1>4. n \in Cmans
  <2>1. [c \in Chunks |-> IF c \in S THEN p ELSE m.cprio[c]] \in [Chunks -> Levels]
    BY <1>2 DEF Cmans
  <2>2. n.only_seed \in SUBSET Chunks /\ n.todo \in SUBSET Chunks
    BY <1>2, <1>3 DEF Cmans
  <2>3. n = [m EXCEPT !.cprio = n.cprio, !.only_seed = n.only_seed, !.todo = n.todo]
    BY <1>2, <1>3 DEF Cmans
  <2> QED
    BY <1>2, <1>3, <2>1, <2>2, <2>3 DEF Cmans
<1> HIDE DEF n
<1>5. v.cman = n /\ v.down = w.down /\ v.cache = w.cache
  BY DEF Worlds
<1>6. /\ [v EXCEPT !.cman = ChunksLeft(@)] = [w EXCEPT !.cman = ChunksLeft(n)]
      /\ ChunksLeft(n) \in Cmans
  BY <1>4, ChunksLeftEffect DEF Worlds
<1>7. IsPrioritised(m, n, S, p)
  BY <1>2, <1>3 DEF IsPrioritised, Agree, Cmans
<1>8. IsPrioritised(m, ChunksLeft(n), S, p) /\ ChunksLeft(n).bitset = m.bitset
  <2>1. \A c : Agree(n, ChunksLeft(n), c)
    BY <1>4, ChunksLeftEffect
  <2> QED
    BY <1>4, <1>7, <1>3, <2>1, ChunksLeftEffect DEF IsPrioritised, Agree
<1> HIDE DEF S
<1> QED
  BY <1>1, <1>6, <1>8 DEF Worlds, S

\* prioritise keeps the count right if it excludes nothing and includes nothing but odd
\* chunks
LEMMA PrioritiseKeepsCount ==
    ASSUME NEW w \in Worlds, NEW from, NEW to, NEW p \in Levels, p # EXCLUDED, Fresh(w.cman),
           \A c \in InRange(from, to) : ~Odd(c) => w.cman.cprio[c] # EXCLUDED
    PROVE  Fresh(prioritise(w, from, to, p).cman)
<1> DEFINE S == InRange(from, to)
           m == w.cman
           n == [m EXCEPT !.cprio = [c \in Chunks |-> IF c \in S THEN p ELSE @[c]],
                          !.only_seed = IF p = ONLY_SEED_PRIORITY THEN @ \cup S ELSE @ \ S,
                          !.todo = IF p \in {ONLY_SEED_PRIORITY, EXCLUDED} THEN @ \ S
                                   ELSE (@ \ S) \cup (S \ m.bitset)]
<1>1. prioritise(w, from, to, p).cman = ChunksLeft(n)
  BY DEF prioritise, updateStats, Worlds
<1>2. S \subseteq Chunks /\ m \in Cmans
  BY DEF InRange, Worlds
<1>3. /\ n.bitset = m.bitset /\ n.recalc = m.recalc /\ n.left = m.left
      /\ n.cprio = [c \in Chunks |-> IF c \in S THEN p ELSE m.cprio[c]]
  BY <1>2 DEF Cmans
<1>4. n \in Cmans
  <2>1. [c \in Chunks |-> IF c \in S THEN p ELSE m.cprio[c]] \in [Chunks -> Levels]
    BY <1>2 DEF Cmans
  <2>2. n.only_seed \in SUBSET Chunks /\ n.todo \in SUBSET Chunks
    BY <1>2 DEF Cmans
  <2>3. n = [m EXCEPT !.cprio = n.cprio, !.only_seed = n.only_seed, !.todo = n.todo]
    BY <1>2 DEF Cmans
  <2> QED
    BY <1>2, <1>3, <2>1, <2>2, <2>3 DEF Cmans
<1> HIDE DEF n
<1>5. CASE m.recalc
  <2>1. n.recalc
    BY <1>3, <1>5
  <2>2. Fresh(ChunksLeft(n))
    BY <1>4, <2>1, ChunksLeftEffect
  <2> QED
    BY <1>1, <2>2
<1>6. CASE ~m.recalc
  <2>1. PICK T \in SUBSET {c \in LeftSet(m) : Odd(c)} : m.left = Cardinality(LeftSet(m) \ T)
    BY <1>6 DEF Fresh
  <2>2. LeftSet(m) \subseteq LeftSet(n)
    BY <1>3 DEF LeftSet, Excluded
  <2>3. \A c \in LeftSet(n) \ LeftSet(m) : Odd(c)
    BY <1>3 DEF LeftSet, Excluded
  <2> DEFINE U == T \cup (LeftSet(n) \ LeftSet(m))
  <2>4. U \in SUBSET {c \in LeftSet(n) : Odd(c)} /\ LeftSet(n) \ U = LeftSet(m) \ T
    BY <2>1, <2>2, <2>3
  <2>5. Fresh(n)
    BY <1>3, <2>1, <2>4 DEF Fresh
  <2> QED
    BY <1>1, <1>4, <2>5, ChunksLeftEffect
<1> QED
  BY <1>5, <1>6

\* resetChunk does what IsReset says, and does not ask for a new count
LEMMA ResetEffect ==
    ASSUME NEW m \in Cmans, NEW S, S \subseteq Chunks
    PROVE  /\ Reset(m, S) \in Cmans
           /\ Reset(m, S).bitset = m.bitset \ S
           /\ IsReset(m, Reset(m, S), S)
           /\ Reset(m, S).recalc = m.recalc
           /\ S = {} /\ Fresh(m) => Fresh(Reset(m, S))
<1> DEFINE n == Reset(m, S)
<1>1. /\ n.status = [c \in Chunks |-> IF c \in S THEN "NOT_DOWNLOADED" ELSE m.status[c]]
      /\ n.bitset = m.bitset \ S /\ n.todo = (m.todo \ S) \cup (S \ (m.excluded \cup m.only_seed))
      /\ n.cprio = m.cprio /\ n.excluded = m.excluded /\ n.only_seed = m.only_seed
      /\ n.recalc = m.recalc /\ n.left = m.left
  BY DEF Reset, Cmans
<1>2. n \in Cmans
  <2>1. n.status \in [Chunks -> {"NOT_DOWNLOADED", "BUFFERED", "ON_DISK"}]
    BY <1>1 DEF Cmans
  <2>2. n.bitset \in SUBSET Chunks /\ n.todo \in SUBSET Chunks
    BY <1>1 DEF Cmans
  <2>3. n = [m EXCEPT !.status = n.status, !.bitset = n.bitset, !.todo = n.todo]
    BY <1>1 DEF Reset, Cmans
  <2> QED
    BY <2>1, <2>2, <2>3 DEF Cmans
<1>3. IsReset(m, n, S)
  BY <1>1 DEF IsReset, Agree, Cmans
<1>4. ASSUME S = {}, Fresh(m) PROVE Fresh(n)
  <2>1. n.bitset = m.bitset
    BY <1>1, <1>4
  <2>2. LeftSet(n) = LeftSet(m)
    BY <1>1, <2>1 DEF LeftSet, Excluded
  <2> HIDE DEF n
  <2> QED
    BY <1>1, <1>4, <2>2 DEF Fresh
<1> QED
  BY <1>1, <1>2, <1>3, <1>4

\* include does what IsIncluded says, and the selector gets the chunks back
LEMMA IncludeEffect ==
    ASSUME NEW w \in Worlds, NEW from, NEW to
    PROVE  LET v == include(w, from, to)
           IN  /\ v \in Worlds /\ v.cache = w.cache /\ v.down.current = w.down.current
               /\ v.cman.bitset = w.cman.bitset
               /\ IsIncluded(w.cman, v.cman, InRange(from, to))
               /\ w.down.chunks \subseteq v.down.chunks
               /\ to \in Chunks => \A c \in InRange(from, to) :
                                      w.cman.status[c] # "ON_DISK" => c \in v.down.chunks
               /\ Fresh(v.cman)
<1> DEFINE S == InRange(from, to)
           m == w.cman
           n == [m EXCEPT !.cprio = [c \in Chunks |-> IF c \in S THEN NORMAL_PRIORITY ELSE @[c]],
                          !.excluded = @ \ S, !.todo = @ \cup (S \ m.bitset), !.recalc = TRUE]
           u == updateStats([w EXCEPT !.cman = n])
<1>1. include(w, from, to) = reincluded(u, from, to)
  BY DEF include
<1>2. S \subseteq Chunks /\ m \in Cmans
  BY DEF InRange, Worlds
<1>3. /\ n.status = m.status /\ n.bitset = m.bitset /\ n.only_seed = m.only_seed /\ n.recalc
      /\ n.cprio = [c \in Chunks |-> IF c \in S THEN NORMAL_PRIORITY ELSE m.cprio[c]]
      /\ n.excluded = m.excluded \ S /\ n.todo = m.todo \cup (S \ m.bitset)
  BY <1>2 DEF Cmans
<1>4. n \in Cmans
  <2>1. [c \in Chunks |-> IF c \in S THEN NORMAL_PRIORITY ELSE m.cprio[c]] \in [Chunks -> Levels]
    BY <1>2 DEF Cmans, Levels
  <2>2. n.excluded \in SUBSET Chunks /\ n.todo \in SUBSET Chunks
    BY <1>2, <1>3 DEF Cmans
  <2>3. n = [m EXCEPT !.cprio = n.cprio, !.excluded = n.excluded, !.todo = n.todo, !.recalc = TRUE]
    BY <1>2, <1>3 DEF Cmans
  <2> QED
    BY <1>2, <1>3, <2>1, <2>2, <2>3 DEF Cmans
<1>5. IsIncluded(m, n, S)
  BY <1>2, <1>3 DEF IsIncluded, Agree, Cmans
<1> HIDE DEF n
<1>6. /\ ChunksLeft(n) \in Cmans /\ IsIncluded(m, ChunksLeft(n), S) /\ ChunksLeft(n).bitset = m.bitset
      /\ Fresh(ChunksLeft(n)) /\ ChunksLeft(n).status = m.status
  <2>1. \A c : Agree(n, ChunksLeft(n), c)
    BY <1>4, ChunksLeftEffect
  <2>2. IsIncluded(m, ChunksLeft(n), S)
    BY <1>5, <2>1 DEF IsIncluded, Agree
  <2>3. ChunksLeft(n).status = m.status
    BY <1>3, <1>4 DEF ChunksLeft, Cmans
  <2> QED
    BY <1>3, <1>4, <2>2, <2>3, ChunksLeftEffect
<1>7. u = [w EXCEPT !.cman = ChunksLeft(n)]
  BY DEF updateStats, Worlds
<1>8. u \in Worlds /\ u.cman = ChunksLeft(n) /\ u.down = w.down /\ u.cache = w.cache
  BY <1>6, <1>7 DEF Worlds
<1> HIDE DEF u
<1> DEFINE v == reincluded(u, from, to)
<1>9. CASE to \notin Chunks
  <2>1. v = u
    BY <1>9 DEF reincluded
  <2> HIDE DEF v, S
  <2> QED
    BY <1>1, <1>6, <1>8, <1>9, <2>1 DEF v, S
<1>10. CASE to \in Chunks
  <2> DEFINE T == {c \in InRange(from, to) : u.cman.status[c] # "ON_DISK"}
  <2>1. v = [u EXCEPT !.down.chunks = @ \cup T]
    BY <1>10 DEF reincluded
  <2>2. /\ v.cman = u.cman /\ v.cache = u.cache /\ v.down.current = u.down.current
        /\ v.down.chunks = u.down.chunks \cup T
    BY <2>1, <1>8 DEF Worlds, Downs
  <2>3. T \subseteq Chunks
    BY <1>2
  <2>4. v \in Worlds
    <3>1. [u.down EXCEPT !.chunks = @ \cup T] \in Downs
      BY <1>8, <2>3 DEF Worlds, Downs
    <3>2. v = [u EXCEPT !.down = [u.down EXCEPT !.chunks = @ \cup T]]
      BY <2>1
    <3> HIDE DEF T
    <3> QED
      BY <1>8, <3>1, <3>2 DEF Worlds
  <2>5. \A c \in InRange(from, to) : w.cman.status[c] # "ON_DISK" => c \in v.down.chunks
    BY <2>2, <1>6, <1>8
  <2> HIDE DEF v, S
  <2> QED
    BY <1>1, <1>6, <1>8, <2>2, <2>4, <2>5 DEF v, S
<1> QED
  BY <1>9, <1>10

\* exclude does what IsExcluded says; downloads of the excluded chunks end
LEMMA ExcludeEffect ==
    ASSUME NEW w \in Worlds, NEW from, NEW to
    PROVE  LET v == exclude(w, from, to)
           IN  /\ v \in Worlds /\ v.cache = w.cache
               /\ v.down.current = w.down.current \ InRange(from, to)
               /\ v.down.chunks = w.down.chunks
               /\ v.cman.bitset = w.cman.bitset \ InRange(from, to)
               /\ IsExcluded(w.cman, w.down, v.cman, InRange(from, to))
               /\ Fresh(v.cman)
<1> DEFINE S == InRange(from, to)
           m == w.cman
           n == [m EXCEPT !.cprio = [c \in Chunks |-> IF c \in S THEN EXCLUDED ELSE @[c]],
                          !.excluded = @ \cup S, !.only_seed = @ \ S,
                          !.todo = @ \ S, !.bitset = @ \ S, !.recalc = TRUE]
           u == [w EXCEPT !.cman = n]
           T == {c \in u.down.current : from <= c /\ c <= to /\ u.cman.cprio[c] # ONLY_SEED_PRIORITY}
           r == Reset(n, T)
           x == [u EXCEPT !.down.current = @ \ T, !.cman = Reset(@, T)]
<1>1. exclude(w, from, to) = updateStats(x)
  BY DEF exclude, onExcluded
<1>2. S \subseteq Chunks /\ m \in Cmans
  BY DEF InRange, Worlds
<1>3. /\ n.status = m.status /\ n.recalc
      /\ n.cprio = [c \in Chunks |-> IF c \in S THEN EXCLUDED ELSE m.cprio[c]]
      /\ n.excluded = m.excluded \cup S /\ n.only_seed = m.only_seed \ S
      /\ n.todo = m.todo \ S /\ n.bitset = m.bitset \ S
  BY <1>2 DEF Cmans
<1>4. n \in Cmans
  <2>1. [c \in Chunks |-> IF c \in S THEN EXCLUDED ELSE m.cprio[c]] \in [Chunks -> Levels]
    BY <1>2 DEF Cmans, Levels
  <2>2. /\ n.excluded \in SUBSET Chunks /\ n.todo \in SUBSET Chunks
        /\ n.only_seed \in SUBSET Chunks /\ n.bitset \in SUBSET Chunks
    BY <1>2, <1>3 DEF Cmans
  <2>3. n = [m EXCEPT !.cprio = n.cprio, !.excluded = n.excluded, !.only_seed = n.only_seed,
                      !.todo = n.todo, !.bitset = n.bitset, !.recalc = TRUE]
    BY <1>2, <1>3 DEF Cmans
  <2> QED
    BY <1>2, <1>3, <2>1, <2>2, <2>3 DEF Cmans
<1> HIDE DEF n
<1>5. u.cman = n /\ u.down = w.down /\ u.cache = w.cache /\ u \in Worlds
  BY <1>4 DEF Worlds
<1>6. T = w.down.current \cap S
  <2>1. w.down.current \subseteq Chunks
    BY DEF Worlds, Downs
  <2>2. \A c \in S : n.cprio[c] # ONLY_SEED_PRIORITY
    BY <1>2, <1>3 DEF EXCLUDED, ONLY_SEED_PRIORITY
  <2> QED
    BY <1>5, <2>1, <2>2 DEF InRange
<1> HIDE DEF u, T
<1>7. /\ r \in Cmans /\ r.recalc /\ r.bitset = m.bitset \ S /\ IsReset(n, r, T)
  <2>1. T \subseteq Chunks
    BY <1>2, <1>6
  <2>2. r \in Cmans /\ r.bitset = n.bitset \ T /\ IsReset(n, r, T) /\ r.recalc = n.recalc
    BY <1>4, <2>1, ResetEffect
  <2> QED
    BY <1>3, <1>6, <2>2
<1>8. IsExcluded(m, w.down, r, S)
  <2> SUFFICES ASSUME NEW c \in Chunks
               PROVE  /\ c \notin S => Agree(m, r, c)
                      /\ c \in S => /\ r.status[c] = IF c \in w.down.current THEN "NOT_DOWNLOADED" ELSE m.status[c]
                                    /\ r.cprio[c] = EXCLUDED /\ c \notin r.bitset /\ c \in r.excluded
                                    /\ c \notin r.only_seed /\ c \notin r.todo
    BY DEF IsExcluded
  <2>1. CASE c \notin S
    <3>1. Agree(n, r, c)
      BY <1>6, <1>7, <2>1 DEF IsReset
    <3>2. Agree(m, n, c)
      BY <1>3, <2>1 DEF Agree
    <3> QED
      BY <2>1, <3>1, <3>2 DEF Agree
  <2>2. CASE c \in S /\ c \notin T
    <3>1. Agree(n, r, c)
      BY <1>7, <2>2 DEF IsReset
    <3> QED
      BY <1>3, <1>6, <2>2, <3>1 DEF Agree
  <2>3. CASE c \in T
    BY <1>3, <1>6, <1>7, <2>3 DEF IsReset
  <2> QED
    BY <2>1, <2>2, <2>3
<1> HIDE DEF r
<1>9. /\ x.cman = r /\ x.cache = w.cache /\ x.down.current = w.down.current \ S
      /\ x.down.chunks = w.down.chunks /\ x \in Worlds
  <2>1. x = [u EXCEPT !.down = [u.down EXCEPT !.current = @ \ T], !.cman = r]
    BY <1>5 DEF Worlds, r
  <2>2. [u.down EXCEPT !.current = @ \ T] \in Downs
    BY <1>5 DEF Worlds, Downs
  <2>3. /\ [u.down EXCEPT !.current = @ \ T].current = w.down.current \ S
        /\ [u.down EXCEPT !.current = @ \ T].chunks = w.down.chunks
    BY <1>5, <1>6 DEF Worlds, Downs
  <2> HIDE DEF x
  <2> QED
    BY <1>5, <1>7, <2>1, <2>2, <2>3 DEF Worlds
<1> HIDE DEF x
<1>10. /\ ChunksLeft(r) \in Cmans /\ IsExcluded(m, w.down, ChunksLeft(r), S)
       /\ ChunksLeft(r).bitset = m.bitset \ S /\ Fresh(ChunksLeft(r))
  <2>1. \A c : Agree(r, ChunksLeft(r), c)
    BY <1>7, ChunksLeftEffect
  <2>2. IsExcluded(m, w.down, ChunksLeft(r), S)
    BY <1>8, <2>1 DEF IsExcluded, Agree
  <2> QED
    BY <1>7, <2>2, ChunksLeftEffect
<1> DEFINE v == updateStats(x)
<1>11. v \in Worlds /\ v.cman = ChunksLeft(r) /\ v.down = x.down /\ v.cache = x.cache
  BY <1>9, <1>10 DEF updateStats, Worlds
<1> HIDE DEF S, v
<1> QED
  BY <1>1, <1>9, <1>10, <1>11 DEF v, S

\* What holds of the sets of any chunk, and is kept by every change of the chunk manager:
\* a chunk in todo is neither in the bitset nor excluded
Marked(m) ==
    \A c \in Chunks :
        /\ m.cprio[c] = EXCLUDED => c \in m.excluded
        /\ m.cprio[c] = ONLY_SEED_PRIORITY => c \in m.only_seed
        /\ c \in m.todo => c \notin m.bitset /\ m.cprio[c] \notin {EXCLUDED, ONLY_SEED_PRIORITY}

\* Every change of the chunk manager keeps Marked
LEMMA MarkedIsKept ==
    ASSUME NEW m \in Cmans, NEW n \in Cmans, NEW S, NEW d, Marked(m)
    PROVE  /\ \A p \in Levels : IsPrioritised(m, n, S, p) /\ p # EXCLUDED /\ n.bitset = m.bitset => Marked(n)
           /\ IsReset(m, n, S) => Marked(n)
           /\ IsIncluded(m, n, S) /\ n.bitset = m.bitset => Marked(n)
           /\ IsExcluded(m, d, n, S) => Marked(n)
<1> USE DEF EXCLUDED, ONLY_SEED_PRIORITY, NORMAL_PRIORITY
<1>1. ASSUME NEW c \in Chunks, Agree(m, n, c)
      PROVE  /\ n.cprio[c] = EXCLUDED => c \in n.excluded
             /\ n.cprio[c] = ONLY_SEED_PRIORITY => c \in n.only_seed
             /\ c \in n.todo => c \notin n.bitset /\ n.cprio[c] \notin {EXCLUDED, ONLY_SEED_PRIORITY}
  BY <1>1 DEF Agree, Marked
<1>2. ASSUME NEW p \in Levels, IsPrioritised(m, n, S, p), p # EXCLUDED, n.bitset = m.bitset
      PROVE  Marked(n)
  BY <1>1, <1>2 DEF IsPrioritised, Marked
<1>3. ASSUME IsReset(m, n, S) PROVE Marked(n)
  BY <1>1, <1>3 DEF IsReset, Marked
<1>4. ASSUME IsIncluded(m, n, S), n.bitset = m.bitset PROVE Marked(n)
  BY <1>1, <1>4 DEF IsIncluded, Marked
<1>5. ASSUME IsExcluded(m, d, n, S) PROVE Marked(n)
  BY <1>1, <1>5 DEF IsExcluded, Marked
<1> QED
  BY <1>2, <1>3, <1>4, <1>5

-----------------------------------------------------------------------------
(* What selecting, deselecting and prioritising a file does to every chunk *)

\* After a file has been selected, its chunks are to be downloaded and the selector has
\* them; other chunks are as they were, unless they are odd
IsSelected(w, v, f) ==
    /\ v \in Worlds /\ v.cache = w.cache /\ v.down.current = w.down.current
    /\ v.cman.bitset = w.cman.bitset /\ w.down.chunks \subseteq v.down.chunks
    /\ Fresh(v.cman) /\ Marked(v.cman)
    /\ \A c \in Chunks :
          /\ v.cman.status[c] = w.cman.status[c]
          /\ c \notin ChunksOf(f) /\ ~Odd(c) => Agree(w.cman, v.cman, c)
          /\ c \in ChunksOf(f) =>
                /\ v.cman.cprio[c] \in {NORMAL_PRIORITY, PREVIEW_PRIORITY}
                /\ c \notin v.cman.excluded
                /\ c \in v.cman.only_seed => c \in w.cman.only_seed
                /\ c \in v.cman.todo <=> c \notin w.cman.bitset
                /\ w.cman.status[c] # "ON_DISK" => c \in v.down.chunks

\* The chunks of a multimedia file that come first are still selected
LEMMA PreviewKeepsSelected ==
    ASSUME NEW w, NEW u, NEW f \in Files, IsSelected(w, u, f), NEW from, NEW to,
           \A c \in InRange(from, to) : c \in ChunksOf(f) \/ Odd(c)
    PROVE  IsSelected(w, prioritise(u, from, to, PREVIEW_PRIORITY), f)
<1> DEFINE v == prioritise(u, from, to, PREVIEW_PRIORITY)
           S == InRange(from, to)
<1> USE DEF EXCLUDED, ONLY_SEED_PRIORITY, NORMAL_PRIORITY, PREVIEW_PRIORITY
<1>1. PREVIEW_PRIORITY \in Levels /\ u \in Worlds /\ S \subseteq Chunks
  BY DEF Levels, IsSelected, InRange
<1>2. /\ v \in Worlds /\ v.down = u.down /\ v.cache = u.cache /\ v.cman.bitset = u.cman.bitset
      /\ IsPrioritised(u.cman, v.cman, S, PREVIEW_PRIORITY)
  BY <1>1, PrioritiseEffect
<1>3. Fresh(v.cman)
  <2>1. \A c \in S : ~Odd(c) => u.cman.cprio[c] # EXCLUDED
    BY <1>1 DEF IsSelected
  <2> QED
    BY <1>1, <2>1, PrioritiseKeepsCount DEF IsSelected
<1> HIDE DEF v
<1>4. Marked(v.cman)
  <2>1. u.cman \in Cmans /\ v.cman \in Cmans
    BY <1>1, <1>2 DEF Worlds
  <2> QED
    BY <1>1, <1>2, <2>1, MarkedIsKept DEF IsSelected
<1>5. ASSUME NEW c \in Chunks
      PROVE  /\ v.cman.status[c] = w.cman.status[c]
             /\ c \notin ChunksOf(f) /\ ~Odd(c) => Agree(w.cman, v.cman, c)
             /\ c \in ChunksOf(f) =>
                   /\ v.cman.cprio[c] \in {NORMAL_PRIORITY, PREVIEW_PRIORITY}
                   /\ c \notin v.cman.excluded
                   /\ c \in v.cman.only_seed => c \in w.cman.only_seed
                   /\ c \in v.cman.todo <=> c \notin w.cman.bitset
                   /\ w.cman.status[c] # "ON_DISK" => c \in v.down.chunks
  <2>1. CASE c \in S
    <3>1. /\ v.cman.status[c] = u.cman.status[c] /\ v.cman.cprio[c] = PREVIEW_PRIORITY
          /\ c \in v.cman.excluded <=> c \in u.cman.excluded
          /\ c \notin v.cman.only_seed
          /\ c \in v.cman.todo <=> c \notin u.cman.bitset
      BY <1>2, <2>1 DEF IsPrioritised
    <3> QED
      BY <1>2, <2>1, <3>1 DEF IsSelected
  <2>2. CASE c \notin S
    <3>1. Agree(u.cman, v.cman, c)
      BY <1>2, <2>2 DEF IsPrioritised
    <3> QED
      BY <1>2, <2>2, <3>1 DEF IsSelected, Agree
  <2> QED
    BY <2>1, <2>2
<1> QED
  BY <1>2, <1>3, <1>4, <1>5 DEF IsSelected, v

\* Selecting a file does what IsSelected says, with or without its previews
LEMMA SelectedEffect ==
    ASSUME Layout, NEW w \in Worlds, Marked(w.cman), NEW f \in Files
    PROVE  IsSelected(w, Selected(w, f), f)
<1> DEFINE first == torrent[f].first
           last == torrent[f].last
           o == (last - first) \div 100 + 1
           w1 == include(w, first, last)
           w2 == IF f \in Multimedia THEN prioritise(w1, first, first + o, PREVIEW_PRIORITY) ELSE w1
<1> USE DEF NORMAL_PRIORITY, PREVIEW_PRIORITY
<1>1. first \in Nat /\ last \in Nat /\ first <= last /\ Chunks \subseteq Nat
  BY ChunksAreShared DEF Layout
<1>2. IsSelected(w, w1, f)
  <2>1. /\ w1 \in Worlds /\ w1.cache = w.cache /\ w1.down.current = w.down.current
        /\ w1.cman.bitset = w.cman.bitset /\ w.down.chunks \subseteq w1.down.chunks
        /\ IsIncluded(w.cman, w1.cman, InRange(first, last)) /\ Fresh(w1.cman)
        /\ last \in Chunks => \A c \in InRange(first, last) :
                                 w.cman.status[c] # "ON_DISK" => c \in w1.down.chunks
    BY IncludeEffect
  <2>2. \A c \in Chunks : c \in InRange(first, last) <=> c \in ChunksOf(f)
    BY <1>1 DEF InRange, ChunksOf
  <2>3. \A c \in Chunks : c \in ChunksOf(f) => last \in Chunks
    BY <1>1, ChunksAreShared DEF ChunksOf, Layout
  <2>4. Marked(w1.cman)
    <3>1. w.cman \in Cmans /\ w1.cman \in Cmans
      BY <2>1 DEF Worlds
    <3> QED
      BY <2>1, <3>1, MarkedIsKept
  <2> HIDE DEF w1
  <2>5. ASSUME NEW c \in Chunks
        PROVE  /\ w1.cman.status[c] = w.cman.status[c]
               /\ c \notin ChunksOf(f) /\ ~Odd(c) => Agree(w.cman, w1.cman, c)
               /\ c \in ChunksOf(f) =>
                     /\ w1.cman.cprio[c] \in {NORMAL_PRIORITY, PREVIEW_PRIORITY}
                     /\ c \notin w1.cman.excluded
                     /\ c \in w1.cman.only_seed => c \in w.cman.only_seed
                     /\ c \in w1.cman.todo <=> c \notin w.cman.bitset
                     /\ w.cman.status[c] # "ON_DISK" => c \in w1.down.chunks
    <3>1. CASE c \in ChunksOf(f)
      BY <2>1, <2>2, <2>3, <3>1 DEF IsIncluded, Marked
    <3>2. CASE c \notin ChunksOf(f)
      BY <2>1, <2>2, <3>2 DEF IsIncluded, Agree
    <3> QED
      BY <3>1, <3>2
  <2> QED
    BY <2>1, <2>4, <2>5 DEF IsSelected
<1> HIDE DEF w1
<1>3. o \in Nat /\ o >= 1 /\ (first < last => o <= last - first) /\ (first = last => o = 1)
  BY <1>1
<1> HIDE DEF o
<1>4. ASSUME f \in Multimedia, NEW c \in InRange(first, first + o)
      PROVE  c \in ChunksOf(f) \/ Odd(c)
  <2>1. c \in Nat /\ first <= c /\ c <= first + o
    BY <1>1 DEF InRange
  <2>2. CASE first < last
    BY <1>1, <1>3, <2>1, <2>2 DEF ChunksOf
  <2>3. CASE first = last /\ c = first
    BY <1>1, <2>1, <2>3 DEF ChunksOf
  <2>4. CASE first = last /\ c # first
    <3>1. first = c - 1 /\ last = c - 1
      BY <1>1, <1>3, <2>1, <2>4
    <3> QED
      BY <1>4, <3>1 DEF Odd, Overrun
  <2> QED
    BY <1>1, <2>2, <2>3, <2>4
<1>5. IsSelected(w, w2, f)
  BY <1>2, <1>4, PreviewKeepsSelected
<1> HIDE DEF w2
<1>6. ASSUME last - first > 2, NEW c \in InRange(last - o, last)
      PROVE  c \in ChunksOf(f)
  <2>1. c \in Nat /\ last - o <= c /\ c <= last
    BY <1>1 DEF InRange
  <2> QED
    BY <1>1, <1>3, <1>6, <2>1 DEF ChunksOf
<1>7. CASE f \in Multimedia /\ last - first > 2
  <2>1. IsSelected(w, prioritise(w2, last - o, last, PREVIEW_PRIORITY), f)
    BY <1>5, <1>6, <1>7, PreviewKeepsSelected
  <2> QED
    BY <1>7, <2>1 DEF Selected, w2, w1, o
<1>8. CASE ~(f \in Multimedia /\ last - first > 2)
  BY <1>5, <1>8 DEF Selected, w2, w1, o
<1> QED
  BY <1>7, <1>8

\* A chunk between the borders of a file lies in this file alone
LEMMA InnerChunks ==
    ASSUME Layout, NEW f \in Files, NEW c \in Nat, torrent[f].first < c, c < torrent[f].last
    PROVE  FilesOf(c) = {f} /\ InOneFile(c) /\ ~Shared(c) /\ c \in Chunks
<1>1. torrent[f].size # 0 /\ c \in ChunksOf(f)
  BY DEF Layout, ChunksOf
<1>2. f \in FilesOf(c)
  BY <1>1 DEF FilesOf
<1>3. \A g \in FilesOf(c) : /\ g \in Files /\ g \in Nat /\ f \in Nat
                            /\ torrent[g].first <= c /\ c <= torrent[g].last
                            /\ torrent[g].first \in Nat /\ torrent[g].last \in Nat
                            /\ torrent[f].first \in Nat /\ torrent[f].last \in Nat
  BY DEF FilesOf, ChunksOf, Layout
<1>4. \A g \in FilesOf(c) : g = f
  BY <1>3 DEF Layout
<1>5. FilesOf(c) = {f}
  BY <1>2, <1>4
<1> QED
  BY <1>5, ChunksAreShared DEF InOneFile

\* After a file has been given a priority, its chunks have it, but for those another
\* file gives a higher one
IsGivenPriority(w, v, p, f) ==
    /\ v \in Worlds /\ v.cache = w.cache /\ v.down = w.down
    /\ v.cman.bitset = w.cman.bitset /\ Fresh(v.cman) /\ Marked(v.cman)
    /\ \A c \in Chunks :
          /\ c \notin ChunksOf(f) \/ Higher(p, f, c) => Agree(w.cman, v.cman, c)
          /\ c \in ChunksOf(f) /\ ~Higher(p, f, c) =>
                /\ v.cman.status[c] = w.cman.status[c] /\ v.cman.cprio[c] = p[f]
                /\ c \in v.cman.excluded <=> c \in w.cman.excluded
                /\ c \in v.cman.only_seed <=> p[f] = ONLY_SEED_PRIORITY
                /\ c \in v.cman.todo <=> p[f] # ONLY_SEED_PRIORITY /\ c \notin w.cman.bitset

\* downloadPriorityChanged does what IsGivenPriority says, whatever borders it leaves out
LEMMA PrioritisedEffect ==
    ASSUME Layout, NEW w \in Worlds, Marked(w.cman), Fresh(w.cman), NEW f \in Files,
           NEW p, p[f] \in Levels, p[f] # EXCLUDED,
           \A c \in Chunks : c \in ChunksOf(f) /\ ~Odd(c) => w.cman.cprio[c] # EXCLUDED
    PROVE  IsGivenPriority(w, Prioritised(w, p, f), p, f)
<1> DEFINE first == torrent[f].first
           last == torrent[f].last
           nfirst == IF Higher(p, f, first) THEN first + 1 ELSE first
           nlast == IF Higher(p, f, last) THEN last - 1 ELSE last
           nothing == \/ Higher(p, f, first) /\ first = last
                      \/ Higher(p, f, last) /\ last \in {0, nfirst}
                      \/ nlast < nfirst
           v == prioritise(w, nfirst, nlast, p[f])
<1>1. first \in Nat /\ last \in Nat /\ first <= last /\ Chunks \subseteq Nat
  BY ChunksAreShared DEF Layout
<1>2. \A c \in Nat : first < c /\ c < last => ~Higher(p, f, c)
  BY InnerChunks DEF Higher
<1>3. CASE nothing
  <2>1. Prioritised(w, p, f) = w
    BY <1>3 DEF Prioritised
  <2>2. \A c \in Chunks : c \in ChunksOf(f) => Higher(p, f, c)
    <3>1. CASE first = last
      BY <1>1, <1>3, <3>1 DEF ChunksOf
    <3>2. CASE first < last
      <4>1. Higher(p, f, first) /\ Higher(p, f, last) /\ last = first + 1
        BY <1>1, <1>3, <3>2
      <4> QED
        BY <1>1, <4>1 DEF ChunksOf
    <3> QED
      BY <1>1, <3>1, <3>2
  <2> QED
    BY <2>1, <2>2 DEF IsGivenPriority, Agree
<1>4. CASE ~nothing
  <2>1. Prioritised(w, p, f) = v
    BY <1>4 DEF Prioritised
  <2>2. \A c \in Chunks : c \in InRange(nfirst, nlast) <=> c \in ChunksOf(f) /\ ~Higher(p, f, c)
    <3> SUFFICES ASSUME NEW c \in Chunks
                 PROVE  c \in InRange(nfirst, nlast) <=> c \in ChunksOf(f) /\ ~Higher(p, f, c)
      OBVIOUS
    <3>1. c \in Nat /\ (c \in ChunksOf(f) <=> first <= c /\ c <= last)
      BY <1>1 DEF ChunksOf
    <3>2. c \in InRange(nfirst, nlast) <=> nfirst <= c /\ c <= nlast
      BY DEF InRange
    <3>3. CASE c = first \/ c = last
      BY <1>1, <1>4, <3>1, <3>2, <3>3
    <3>4. CASE c # first /\ c # last
      <4>1. c \in ChunksOf(f) => ~Higher(p, f, c)
        BY <1>1, <1>2, <3>1, <3>4
      <4> QED
        BY <1>1, <3>1, <3>2, <3>4, <4>1
    <3> QED
      BY <3>3, <3>4
  <2>3. /\ v \in Worlds /\ v.down = w.down /\ v.cache = w.cache /\ v.cman.bitset = w.cman.bitset
        /\ IsPrioritised(w.cman, v.cman, InRange(nfirst, nlast), p[f])
    BY PrioritiseEffect
  <2>4. Fresh(v.cman)
    <3>1. \A c \in InRange(nfirst, nlast) : ~Odd(c) => w.cman.cprio[c] # EXCLUDED
      BY <2>2 DEF InRange
    <3> HIDE DEF nfirst, nlast
    <3> QED
      BY <3>1, PrioritiseKeepsCount
  <2>5. Marked(v.cman)
    <3>1. w.cman \in Cmans /\ v.cman \in Cmans
      BY <2>3 DEF Worlds
    <3> HIDE DEF v
    <3> QED
      BY <2>3, <3>1, MarkedIsKept
  <2> HIDE DEF v, nfirst, nlast
  <2>6. IsGivenPriority(w, v, p, f)
    BY <2>2, <2>3, <2>4, <2>5 DEF IsGivenPriority, IsPrioritised
  <2> QED
    BY <2>1, <2>6
<1> QED
  BY <1>3, <1>4

\* The priorities of all files
PriorityMaps == [Files -> Priorities \cup {NORMAL_PRIORITY}]

\* The highest priority is one the files have, or ONLY_SEED_PRIORITY
LEMMA MaxPriorityEffect ==
    ASSUME NEW p \in PriorityMaps, NEW F \in SUBSET Files, \A g \in F : p[g] # EXCLUDED
    PROVE  /\ MaxPriority(p, F) \in {20, 30, 40, 50} /\ MaxPriority(p, F) \in Levels
           /\ \A g \in F : p[g] <= MaxPriority(p, F)
<1> DEFINE S == {ONLY_SEED_PRIORITY} \cup {p[g] : g \in F}
<1> USE DEF EXCLUDED, ONLY_SEED_PRIORITY, NORMAL_PRIORITY
<1>1. S \subseteq {20, 30, 40, 50} /\ 20 \in S /\ S \subseteq Levels /\ \A g \in F : p[g] \in S
  <2>1. \A g \in F : p[g] \in Priorities \cup {NORMAL_PRIORITY}
    BY DEF PriorityMaps
  <2>2. Priorities \subseteq {10, 20, 30, 40, 50}
    BY ConstantsAssumption DEF ConstantsAssumption
  <2>3. \A g \in F : p[g] \in {20, 30, 40, 50} /\ p[g] \in Levels
    BY <2>1, <2>2 DEF Levels
  <2> QED
    BY <2>3 DEF Levels
<1> HIDE DEF S
<1>2. \E x \in S : \A y \in S : x >= y
  <2>1. CASE 50 \in S
    BY <1>1, <2>1
  <2>2. CASE 50 \notin S /\ 40 \in S
    BY <1>1, <2>2
  <2>3. CASE 50 \notin S /\ 40 \notin S /\ 30 \in S
    BY <1>1, <2>3
  <2>4. CASE 50 \notin S /\ 40 \notin S /\ 30 \notin S
    BY <1>1, <2>4
  <2> QED
    BY <2>1, <2>2, <2>3, <2>4
<1>3. Max(S) \in S /\ \A y \in S : Max(S) >= y
  BY <1>2 DEF Max
<1>4. MaxPriority(p, F) = Max(S)
  BY DEF MaxPriority, S
<1>5. \A g \in F : p[g] \in {20, 30, 40, 50} /\ p[g] <= Max(S)
  BY <1>1, <1>3
<1> QED
  BY <1>1, <1>3, <1>4, <1>5

\* After a file has been deselected, each of its chunks is excluded, which no other file
\* wants; or kept for the other files that want it; or as it was, if the whole file lies in
\* one shared chunk
IsOut(w, v, c) ==
    /\ v.cman.cprio[c] = EXCLUDED /\ c \in v.cman.excluded /\ c \notin v.cman.bitset
    /\ c \notin v.cman.only_seed /\ c \notin v.cman.todo /\ c \notin v.down.current
    /\ \/ v.cman.status[c] = "NOT_DOWNLOADED"
       \/ v.cman.status[c] = w.cman.status[c] /\ c \notin w.down.current
    /\ InOneFile(c) /\ c # 0 => v.cman.status[c] = "NOT_DOWNLOADED"
IsKept(w, v, c, p, f) ==
    LET max == MaxPriority(p, WantedBy(p, c, f))
    IN /\ Shared(c) /\ WantedBy(p, c, f) # {}
       /\ v.cman.status[c] = w.cman.status[c] /\ v.cman.cprio[c] = max
       /\ c \in v.cman.bitset <=> c \in w.cman.bitset
       /\ c \in v.cman.excluded <=> c \in w.cman.excluded
       /\ c \in v.cman.only_seed <=> max = ONLY_SEED_PRIORITY
       /\ c \in v.cman.todo <=> max # ONLY_SEED_PRIORITY /\ c \notin w.cman.bitset
       /\ c \in v.down.current <=> c \in w.down.current
IsAsItWas(w, v, c) ==
    Agree(w.cman, v.cman, c) /\ (c \in v.down.current <=> c \in w.down.current)

\* What deselecting a file does to every chunk
IsDeselected(w, v, p, f) ==
    /\ v \in Worlds /\ v.cache = w.cache /\ v.down.chunks = w.down.chunks
    /\ v.cman.bitset \subseteq w.cman.bitset /\ v.down.current \subseteq w.down.current
    /\ Marked(v.cman) /\ (Fresh(w.cman) => Fresh(v.cman))
    /\ \A c \in Chunks :
          /\ c \notin ChunksOf(f) => IsAsItWas(w, v, c)
          /\ c \in ChunksOf(f) =>
                \/ IsOut(w, v, c) /\ (Odd(c) \/ WantedBy(p, c, f) = {})
                \/ IsKept(w, v, c, p, f)
                \/ Shared(c) /\ IsAsItWas(w, v, c)

\* A border chunk that other files want is given their highest priority
LEMMA KeepEffect ==
    ASSUME NEW w \in Worlds, Marked(w.cman), NEW c \in Nat, NEW p \in PriorityMaps, NEW f \in Files,
           Shared(c), WantedBy(p, c, f) # {}, Chunks \subseteq Nat
    PROVE  LET v == prioritise(w, c, c, MaxPriority(p, WantedBy(p, c, f)))
           IN  /\ v \in Worlds /\ v.down = w.down /\ v.cache = w.cache /\ Marked(v.cman)
               /\ v.cman.bitset = w.cman.bitset
               /\ \A e \in Chunks : /\ e # c => Agree(w.cman, v.cman, e)
                                    /\ e = c => IsKept(w, v, e, p, f)
<1> DEFINE max == MaxPriority(p, WantedBy(p, c, f))
           v == prioritise(w, c, c, max)
<1>1. max \in Levels /\ max # EXCLUDED
  <2>1. WantedBy(p, c, f) \in SUBSET Files /\ \A g \in WantedBy(p, c, f) : p[g] # EXCLUDED
    BY DEF WantedBy, FilesOf
  <2> QED
    BY <2>1, MaxPriorityEffect DEF EXCLUDED
<1> HIDE DEF max
<1>2. /\ v \in Worlds /\ v.down = w.down /\ v.cache = w.cache /\ v.cman.bitset = w.cman.bitset
      /\ IsPrioritised(w.cman, v.cman, InRange(c, c), max)
  BY <1>1, PrioritiseEffect
<1> HIDE DEF v
<1>3. \A e \in Chunks : e \in InRange(c, c) <=> e = c
  BY DEF InRange
<1>4. Marked(v.cman)
  <2>1. w.cman \in Cmans /\ v.cman \in Cmans
    BY <1>2 DEF Worlds
  <2> QED
    BY <1>1, <1>2, <2>1, MarkedIsKept
<1>5. ASSUME NEW e \in Chunks, e # c PROVE Agree(w.cman, v.cman, e)
  BY <1>2, <1>3, <1>5 DEF IsPrioritised
<1>6. ASSUME NEW e \in Chunks, e = c PROVE IsKept(w, v, e, p, f)
  <2>1. /\ v.cman.status[c] = w.cman.status[c] /\ v.cman.cprio[c] = max
        /\ c \in v.cman.excluded <=> c \in w.cman.excluded
        /\ c \in v.cman.only_seed <=> max = ONLY_SEED_PRIORITY
        /\ c \in v.cman.todo <=> max # ONLY_SEED_PRIORITY /\ c \notin w.cman.bitset
    BY <1>1, <1>2, <1>3, <1>6 DEF IsPrioritised
  <2> QED
    BY <1>2, <1>6, <2>1 DEF IsKept, max
<1> QED
  BY <1>2, <1>4, <1>5, <1>6 DEF v, max

\* Deselecting a file does what IsDeselected says, whatever borders are kept
LEMMA DeselectedEffect ==
    ASSUME Layout, NEW w \in Worlds, Marked(w.cman), NEW f \in Files, NEW p \in PriorityMaps
    PROVE  IsDeselected(w, Deselected(w, p, f), p, f)
<1> DEFINE first == torrent[f].first
           last == torrent[f].last
           Keep(u, c) == prioritise(u, c, c, MaxPriority(p, WantedBy(p, c, f)))
           w1 == [w EXCEPT !.cman = Reset(@, Own(f))]
           w2 == IF KeepFirst(p, f) THEN Keep(w1, first) ELSE w1
           w3 == IF KeepLast(p, f) THEN Keep(w2, last) ELSE w2
           nfirst == NewFirst(p, f)
           nlast == NewLast(p, f)
           v == exclude(w3, nfirst, nlast)
           kept(c) == (KeepFirst(p, f) /\ c = first) \/ (KeepLast(p, f) /\ c = last)
           X == InRange(nfirst, nlast)
<1>1. first \in Nat /\ last \in Nat /\ first <= last /\ Chunks \subseteq Nat
  BY ChunksAreShared DEF Layout
<1>2. CASE first = last /\ Shared(first)
  <2>1. Deselected(w, p, f) = w
    BY <1>2 DEF Deselected
  <2>2. \A c \in Chunks : c \in ChunksOf(f) => Shared(c)
    BY <1>1, <1>2 DEF ChunksOf
  <2>3. \A c \in Chunks : IsAsItWas(w, w, c)
    BY DEF IsAsItWas, Agree
  <2> QED
    BY <2>1, <2>2, <2>3 DEF IsDeselected
<1>3. CASE ~(first = last /\ Shared(first))
  <2>1. /\ KeepFirst(p, f) => first # last /\ WantedBy(p, first, f) # {} /\ Shared(first)
        /\ KeepLast(p, f) => first # last /\ WantedBy(p, last, f) # {} /\ Shared(last)
    <3>1. first # last => f \in FilesOf(first) /\ f \in FilesOf(last)
      BY <1>1 DEF FilesOf, ChunksOf, Layout
    <3>2. \A c : f \in FilesOf(c) /\ WantedBy(p, c, f) # {} => Shared(c)
      BY DEF WantedBy, Shared
    <3>3. KeepFirst(p, f) => first # last /\ WantedBy(p, first, f) # {}
      BY DEF KeepFirst
    <3>4. KeepLast(p, f) => first # last /\ WantedBy(p, last, f) # {}
      BY DEF KeepLast, NewFirst, KeepFirst
    <3> QED
      BY <3>1, <3>2, <3>3, <3>4
  <2>2. /\ nfirst = IF KeepFirst(p, f) THEN first + 1 ELSE first
        /\ nlast = IF KeepLast(p, f) THEN last - 1 ELSE last
        /\ KeepLast(p, f) => nfirst # last
    BY DEF NewFirst, NewLast, KeepLast
  <2>3. ~(nlast < nfirst)
    BY <1>1, <2>1, <2>2
  <2>4. Deselected(w, p, f) = v
    BY <1>3, <2>3 DEF Deselected
  <2>5. \A c \in Chunks : c \in X <=> c \in ChunksOf(f) /\ ~kept(c)
    <3> SUFFICES ASSUME NEW c \in Chunks PROVE c \in X <=> c \in ChunksOf(f) /\ ~kept(c)
      OBVIOUS
    <3>1. c \in Nat /\ (c \in ChunksOf(f) <=> first <= c /\ c <= last)
      BY <1>1 DEF ChunksOf
    <3>2. c \in X <=> nfirst <= c /\ c <= nlast
      BY DEF InRange
    <3> HIDE DEF X, nfirst, nlast
    <3> QED
      BY <1>1, <2>1, <2>2, <3>1, <3>2
  <2>6. Own(f) \subseteq Chunks
    <3>1. \A c \in first + 1 .. last - 1 : c \in Chunks
      BY <1>1, InnerChunks
    <3> QED
      BY <3>1, ChunksAreShared DEF Own
  <2>7. \A c \in Own(f) : InOneFile(c) /\ c \in ChunksOf(f)
    <3>1. \A c \in first + 1 .. last - 1 : InOneFile(c) /\ c \in ChunksOf(f)
      BY <1>1, InnerChunks DEF ChunksOf
    <3>2. first \in ChunksOf(f) /\ last \in ChunksOf(f)
      BY <1>1 DEF ChunksOf
    <3> QED
      BY <3>1, <3>2 DEF Own
  <2>8. \A c \in ChunksOf(f) : InOneFile(c) /\ c # 0 => c \in Own(f)
    BY <1>1 DEF ChunksOf, Own
  <2>9. /\ w1 \in Worlds /\ w1.down = w.down /\ w1.cache = w.cache /\ Marked(w1.cman)
        /\ w1.cman.bitset \subseteq w.cman.bitset /\ IsReset(w.cman, w1.cman, Own(f))
    <3>1. w.cman \in Cmans
      BY DEF Worlds
    <3> DEFINE r == Reset(w.cman, Own(f))
    <3>2. r \in Cmans /\ r.bitset = w.cman.bitset \ Own(f) /\ IsReset(w.cman, r, Own(f))
      BY <2>6, <3>1, ResetEffect
    <3>3. Marked(r)
      BY <3>1, <3>2, MarkedIsKept
    <3> HIDE DEF r
    <3>4. w1 = [w EXCEPT !.cman = r]
      BY DEF r
    <3> QED
      BY <3>2, <3>3, <3>4 DEF Worlds
  <2> HIDE DEF w1
  <2>10. /\ w2 \in Worlds /\ w2.down = w.down /\ w2.cache = w.cache /\ Marked(w2.cman)
         /\ w2.cman.bitset = w1.cman.bitset
         /\ \A c \in Chunks :
               /\ ~(KeepFirst(p, f) /\ c = first) => Agree(w1.cman, w2.cman, c)
               /\ KeepFirst(p, f) /\ c = first => IsKept(w1, w2, c, p, f)
    <3>1. CASE KeepFirst(p, f)
      <4>1. w2 = Keep(w1, first)
        BY <3>1
      <4> HIDE DEF w2
      <4> QED
        BY <1>1, <2>1, <2>9, <3>1, <4>1, KeepEffect
    <3>2. CASE ~KeepFirst(p, f)
      BY <2>9, <3>2 DEF Agree
    <3> QED
      BY <3>1, <3>2
  <2> HIDE DEF w2
  <2>11. /\ w3 \in Worlds /\ w3.down = w.down /\ w3.cache = w.cache /\ Marked(w3.cman)
         /\ w3.cman.bitset = w1.cman.bitset
         /\ \A c \in Chunks :
               /\ ~(KeepLast(p, f) /\ c = last) => Agree(w2.cman, w3.cman, c)
               /\ KeepLast(p, f) /\ c = last => IsKept(w2, w3, c, p, f)
    <3>1. CASE KeepLast(p, f)
      <4>1. w3 = Keep(w2, last)
        BY <3>1
      <4> HIDE DEF w3
      <4> QED
        BY <1>1, <2>1, <2>10, <3>1, <4>1, KeepEffect
    <3>2. CASE ~KeepLast(p, f)
      BY <2>10, <3>2 DEF Agree
    <3> QED
      BY <3>1, <3>2
  <2> HIDE DEF w3
  <2>12. \A c \in Chunks : kept(c) => IsKept(w, w3, c, p, f)
    <3> SUFFICES ASSUME NEW c \in Chunks, kept(c) PROVE IsKept(w, w3, c, p, f)
      OBVIOUS
    <3>1. c \notin Own(f)
      BY <2>1, <2>7, ChunksAreShared
    <3>2. Agree(w.cman, w1.cman, c)
      BY <2>9, <3>1 DEF IsReset
    <3>3. CASE KeepFirst(p, f) /\ c = first
      <4>1. ~(KeepLast(p, f) /\ c = last)
        BY <2>1, <3>3
      <4> QED
        BY <2>9, <2>10, <2>11, <3>2, <3>3, <4>1 DEF IsKept, Agree
    <3>4. CASE KeepLast(p, f) /\ c = last
      <4>1. ~(KeepFirst(p, f) /\ c = first)
        BY <2>1, <3>4
      <4> QED
        BY <2>9, <2>10, <2>11, <3>2, <3>4, <4>1 DEF IsKept, Agree
    <3> QED
      BY <3>3, <3>4
  <2>13. /\ v \in Worlds /\ v.cache = w.cache /\ v.down.current = w.down.current \ X
         /\ v.down.chunks = w.down.chunks /\ v.cman.bitset = w3.cman.bitset \ X
         /\ IsExcluded(w3.cman, w.down, v.cman, X) /\ Fresh(v.cman)
    BY <2>11, ExcludeEffect
  <2> HIDE DEF v
  <2>14. Marked(v.cman)
    <3>1. w3.cman \in Cmans /\ v.cman \in Cmans
      BY <2>11, <2>13 DEF Worlds
    <3> QED
      BY <2>11, <2>13, <3>1, MarkedIsKept
  <2>15. ASSUME NEW c \in Chunks, c \notin ChunksOf(f) PROVE IsAsItWas(w, v, c)
    <3>1. c \notin X /\ c \notin Own(f) /\ ~kept(c)
      <4>1. first \in ChunksOf(f) /\ last \in ChunksOf(f)
        BY <1>1 DEF ChunksOf
      <4> QED
        BY <2>5, <2>7, <2>15, <4>1
    <3>2. Agree(w.cman, w1.cman, c) /\ Agree(w1.cman, w2.cman, c) /\ Agree(w2.cman, w3.cman, c)
      BY <2>9, <2>10, <2>11, <3>1 DEF IsReset
    <3>3. Agree(w3.cman, v.cman, c)
      BY <2>13, <3>1 DEF IsExcluded
    <3> QED
      BY <2>13, <3>1, <3>2, <3>3 DEF Agree, IsAsItWas
  <2>16. ASSUME NEW c \in Chunks, kept(c) PROVE IsKept(w, v, c, p, f)
    <3>1. c \notin X
      BY <2>5, <2>16
    <3>2. Agree(w3.cman, v.cman, c)
      BY <2>13, <3>1 DEF IsExcluded
    <3> QED
      BY <2>11, <2>12, <2>13, <2>16, <3>1, <3>2 DEF Agree, IsKept
  <2>17. ASSUME NEW c \in Chunks, c \in X
         PROVE  IsOut(w, v, c) /\ (Odd(c) \/ WantedBy(p, c, f) = {})
    <3>1. c \in ChunksOf(f) /\ ~kept(c)
      BY <2>5, <2>17
    <3>2. Agree(w1.cman, w2.cman, c) /\ Agree(w2.cman, w3.cman, c)
      BY <2>10, <2>11, <3>1
    <3>3. /\ c \in Own(f) => w1.cman.status[c] = "NOT_DOWNLOADED"
          /\ c \notin Own(f) => w1.cman.status[c] = w.cman.status[c]
      BY <2>9 DEF IsReset, Agree
    <3>4. /\ v.cman.status[c] = IF c \in w.down.current THEN "NOT_DOWNLOADED" ELSE w1.cman.status[c]
          /\ v.cman.cprio[c] = EXCLUDED /\ c \notin v.cman.bitset /\ c \in v.cman.excluded
          /\ c \notin v.cman.only_seed /\ c \notin v.cman.todo /\ c \notin v.down.current
      BY <2>13, <2>17, <3>2 DEF IsExcluded, Agree
    <3>5. IsOut(w, v, c)
      BY <2>8, <3>1, <3>3, <3>4 DEF IsOut
    <3>6. CASE c # first /\ c # last
      <4>1. FilesOf(c) = {f}
        BY <1>1, <3>1, <3>6, InnerChunks DEF ChunksOf
      <4> QED
        BY <3>5, <4>1 DEF WantedBy
    <3>7. CASE first = last /\ c = first
      <4>1. InOneFile(c) /\ (torrent[f].size # 0 => f \in FilesOf(c))
        BY <1>3, <3>1, <3>7, ChunksAreShared DEF FilesOf
      <4>2. torrent[f].size = 0 => Odd(c)
        BY <3>1 DEF Odd, Overrun
      <4>3. torrent[f].size # 0 => FilesOf(c) = {f}
        BY <4>1 DEF InOneFile
      <4> QED
        BY <3>5, <4>2, <4>3 DEF WantedBy
    <3>8. CASE first # last /\ c = first
      <4>1. WantedBy(p, c, f) = {}
        BY <3>1, <3>8 DEF KeepFirst
      <4> QED
        BY <3>5, <4>1
    <3>9. CASE first # last /\ c = last /\ WantedBy(p, c, f) # {}
      <4>1. nfirst = last
        BY <1>1, <3>1, <3>9 DEF KeepLast
      <4>2. KeepFirst(p, f) /\ first = c - 1
        BY <1>1, <2>2, <3>9, <4>1
      <4>3. Shared(c)
        <5>1. f \in FilesOf(c)
          BY <1>1, <3>1, <3>9 DEF FilesOf, Layout
        <5> QED
          BY <3>9, <5>1 DEF WantedBy, Shared
      <4>4. Odd(c)
        BY <2>1, <3>9, <4>2, <4>3 DEF Odd, Pinched
      <4> QED
        BY <3>5, <4>4
    <3> QED
      BY <1>1, <3>5, <3>6, <3>7, <3>8, <3>9
  <2>18. v.cman.bitset \subseteq w.cman.bitset /\ v.down.current \subseteq w.down.current
    BY <2>9, <2>11, <2>13
  <2>19. IsDeselected(w, v, p, f)
    BY <2>5, <2>13, <2>14, <2>15, <2>16, <2>17, <2>18 DEF IsDeselected
  <2> QED
    BY <2>4, <2>19
<1> QED
  BY <1>2, <1>3

-----------------------------------------------------------------------------
(* What the chunk manager, the downloader and the priorities of the files say of a chunk *)

\* A chunk in the bitset is on disk, and one that is downloaded has a buffer.  exclude
\* leaves chunk 0 and border chunks on disk
Statuses(m, d) ==
    \A c \in Chunks :
        /\ c \in m.bitset => m.status[c] = "ON_DISK"
        /\ m.status[c] = "BUFFERED" <=> c \in d.current
        /\ m.status[c] = "ON_DISK" => c \in m.bitset \/ c = 0 \/ Shared(c)

\* The sets of the chunk manager say what the priorities of the chunks say
SetsAgree(m) ==
    \A c \in Chunks : ~Odd(c) =>
        /\ c \in m.excluded <=> m.cprio[c] = EXCLUDED
        /\ c \in m.only_seed <=> m.cprio[c] = ONLY_SEED_PRIORITY
        /\ c \notin m.bitset /\ m.cprio[c] \notin {EXCLUDED, ONLY_SEED_PRIORITY} => c \in m.todo

\* The selector has the chunks that can be downloaded
Offered(m, d) ==
    \A c \in Chunks :
        ~Odd(c) /\ c \notin m.bitset /\ m.cprio[c] # EXCLUDED /\ m.status[c] # "ON_DISK" => c \in d.chunks

\* A chunk has a priority that its files allow
Wishes(m, p) ==
    \A c \in Chunks : ~Odd(c) => \A g \in FilesOf(c) :
        /\ p[g] # EXCLUDED => m.cprio[c] # EXCLUDED
        /\ p[g] > ONLY_SEED_PRIORITY => m.cprio[c] # ONLY_SEED_PRIORITY
        /\ FilesOf(c) = {g} /\ p[g] = EXCLUDED => m.cprio[c] = EXCLUDED

\* Everything said above of every chunk, but what the selector has
Consistent(m, d, p) ==
    Statuses(m, d) /\ Marked(m) /\ SetsAgree(m) /\ Wishes(m, p)

\* A file has one of five priorities
LEMMA PriorityValues ==
    ASSUME NEW p \in PriorityMaps
    PROVE  \A g \in Files : p[g] \in {10, 20, 30, 40, 50} /\ p[g] \in Levels
<1>1. \A g \in Files : p[g] \in Priorities \cup {NORMAL_PRIORITY}
  BY DEF PriorityMaps
<1>2. Priorities \subseteq {10, 20, 30, 40, 50}
  BY ConstantsAssumption DEF ConstantsAssumption, EXCLUDED, ONLY_SEED_PRIORITY, NORMAL_PRIORITY
<1> QED
  BY <1>1, <1>2 DEF Levels, NORMAL_PRIORITY

\* Deselecting a file
LEMMA DeselectingKeepsConsistent ==
    ASSUME Layout, NEW w \in Worlds, NEW v, NEW p \in PriorityMaps, NEW q \in PriorityMaps,
           NEW f \in Files, q = [p EXCEPT ![f] = EXCLUDED],
           Consistent(w.cman, w.down, p), IsDeselected(w, v, q, f)
    PROVE  /\ Consistent(v.cman, v.down, q)
           /\ Offered(w.cman, w.down) => Offered(v.cman, v.down)
           /\ \A c \in ChunksOf(f) : InOneFile(c) => c \notin v.cman.bitset
<1> USE DEF EXCLUDED, ONLY_SEED_PRIORITY
<1>1. /\ Chunks \subseteq Nat /\ \A c \in Chunks : InOneFile(c) \/ Shared(c)
      /\ \A c : ~(InOneFile(c) /\ Shared(c))
      /\ \A c : \A g \in FilesOf(c) : g \in Files /\ c \in ChunksOf(g)
  BY ChunksAreShared
<1>2. /\ q[f] = EXCLUDED /\ \A g \in Files \ {f} : q[g] = p[g]
      /\ \A g \in Files : q[g] \in {10, 20, 30, 40, 50}
  BY PriorityValues DEF PriorityMaps
<1>3. v \in Worlds /\ v.down.chunks = w.down.chunks /\ Marked(v.cman)
  BY DEF IsDeselected
<1> DEFINE Out(c) == IsOut(w, v, c) /\ (Odd(c) \/ WantedBy(q, c, f) = {})
           Kept(c) == IsKept(w, v, c, q, f)
           Same(c) == IsAsItWas(w, v, c) /\ (c \notin ChunksOf(f) \/ Shared(c))
<1>4. \A c \in Chunks : Out(c) \/ Kept(c) \/ Same(c)
  BY DEF IsDeselected
<1>5. \A c : Kept(c) =>
         LET max == MaxPriority(q, WantedBy(q, c, f))
         IN max \in {20, 30, 40, 50} /\ \A g \in WantedBy(q, c, f) : q[g] <= max
  <2>1. \A c : WantedBy(q, c, f) \in SUBSET Files /\ \A g \in WantedBy(q, c, f) : q[g] # EXCLUDED
    BY DEF WantedBy, FilesOf
  <2> QED
    BY <2>1, MaxPriorityEffect
<1> HIDE DEF Out, Kept, Same
<1>6. Statuses(v.cman, v.down)
  <2> SUFFICES ASSUME NEW c \in Chunks
               PROVE  /\ c \in v.cman.bitset => v.cman.status[c] = "ON_DISK"
                      /\ v.cman.status[c] = "BUFFERED" <=> c \in v.down.current
                      /\ v.cman.status[c] = "ON_DISK" => c \in v.cman.bitset \/ c = 0 \/ Shared(c)
    BY DEF Statuses
  <2>1. /\ c \in w.cman.bitset => w.cman.status[c] = "ON_DISK"
        /\ w.cman.status[c] = "BUFFERED" <=> c \in w.down.current
        /\ w.cman.status[c] = "ON_DISK" => c \in w.cman.bitset \/ c = 0 \/ Shared(c)
    BY DEF Consistent, Statuses
  <2>2. CASE Out(c)
    BY <1>1, <2>1, <2>2 DEF Out, IsOut
  <2>3. CASE Kept(c)
    BY <2>1, <2>3 DEF Kept, IsKept
  <2>4. CASE Same(c)
    BY <2>1, <2>4 DEF Same, IsAsItWas, Agree
  <2> QED
    BY <1>4, <2>2, <2>3, <2>4
<1>7. ASSUME NEW c \in Chunks, Kept(c), ~Odd(c) PROVE w.cman.cprio[c] # EXCLUDED
  <2>1. PICK g \in WantedBy(q, c, f) : TRUE
    BY <1>7 DEF Kept, IsKept
  <2>2. g \in FilesOf(c) /\ g # f /\ p[g] # EXCLUDED
    BY <1>1, <1>2, <2>1 DEF WantedBy
  <2> QED
    BY <1>7, <2>2 DEF Consistent, Wishes
<1>8. SetsAgree(v.cman)
  <2> SUFFICES ASSUME NEW c \in Chunks, ~Odd(c)
               PROVE  /\ c \in v.cman.excluded <=> v.cman.cprio[c] = EXCLUDED
                      /\ c \in v.cman.only_seed <=> v.cman.cprio[c] = ONLY_SEED_PRIORITY
                      /\ c \notin v.cman.bitset /\ v.cman.cprio[c] \notin {EXCLUDED, ONLY_SEED_PRIORITY}
                            => c \in v.cman.todo
    BY DEF SetsAgree
  <2>1. /\ c \in w.cman.excluded <=> w.cman.cprio[c] = EXCLUDED
        /\ c \in w.cman.only_seed <=> w.cman.cprio[c] = ONLY_SEED_PRIORITY
        /\ c \notin w.cman.bitset /\ w.cman.cprio[c] \notin {EXCLUDED, ONLY_SEED_PRIORITY}
              => c \in w.cman.todo
    BY DEF Consistent, SetsAgree
  <2>2. CASE Out(c)
    BY <2>2 DEF Out, IsOut
  <2>3. CASE Kept(c)
    <3>1. v.cman.cprio[c] \in {20, 30, 40, 50} /\ w.cman.cprio[c] # EXCLUDED
      BY <1>5, <1>7, <2>3 DEF Kept, IsKept
    <3>2. /\ c \in v.cman.excluded <=> c \in w.cman.excluded
          /\ c \in v.cman.only_seed <=> v.cman.cprio[c] = ONLY_SEED_PRIORITY
          /\ c \in v.cman.todo <=> v.cman.cprio[c] # ONLY_SEED_PRIORITY /\ c \notin w.cman.bitset
          /\ c \in v.cman.bitset <=> c \in w.cman.bitset
      BY <2>3 DEF Kept, IsKept
    <3> QED
      BY <2>1, <3>1, <3>2
  <2>4. CASE Same(c)
    BY <2>1, <2>4 DEF Same, IsAsItWas, Agree
  <2> QED
    BY <1>4, <2>2, <2>3, <2>4
<1>9. ASSUME Offered(w.cman, w.down) PROVE Offered(v.cman, v.down)
  <2> SUFFICES ASSUME NEW c \in Chunks, ~Odd(c), c \notin v.cman.bitset,
                      v.cman.cprio[c] # EXCLUDED, v.cman.status[c] # "ON_DISK"
               PROVE  c \in v.down.chunks
    BY DEF Offered
  <2>1. c \notin w.cman.bitset /\ w.cman.cprio[c] # EXCLUDED /\ w.cman.status[c] # "ON_DISK"
              => c \in w.down.chunks
    BY <1>9 DEF Offered
  <2>2. CASE Out(c)
    BY <2>2 DEF Out, IsOut
  <2>3. CASE Kept(c)
    BY <1>3, <1>7, <2>1, <2>3 DEF Kept, IsKept
  <2>4. CASE Same(c)
    BY <1>3, <2>1, <2>4 DEF Same, IsAsItWas, Agree
  <2> QED
    BY <1>4, <2>2, <2>3, <2>4
<1>10. Wishes(v.cman, q)
  <2> SUFFICES ASSUME NEW c \in Chunks, ~Odd(c), NEW g \in FilesOf(c)
               PROVE  /\ q[g] # EXCLUDED => v.cman.cprio[c] # EXCLUDED
                      /\ q[g] > ONLY_SEED_PRIORITY => v.cman.cprio[c] # ONLY_SEED_PRIORITY
                      /\ FilesOf(c) = {g} /\ q[g] = EXCLUDED => v.cman.cprio[c] = EXCLUDED
    BY DEF Wishes
  <2>1. /\ p[g] # EXCLUDED => w.cman.cprio[c] # EXCLUDED
        /\ p[g] > ONLY_SEED_PRIORITY => w.cman.cprio[c] # ONLY_SEED_PRIORITY
        /\ FilesOf(c) = {g} /\ p[g] = EXCLUDED => w.cman.cprio[c] = EXCLUDED
    BY DEF Consistent, Wishes
  <2>2. g \in Files /\ c \in ChunksOf(g) /\ (g # f => q[g] = p[g])
    BY <1>1, <1>2
  <2>3. CASE Out(c)
    <3>1. q[g] = EXCLUDED
      BY <1>2, <2>3 DEF Out, WantedBy
    <3> QED
      BY <2>3, <3>1 DEF Out, IsOut
  <2>4. CASE Kept(c)
    <3>1. q[g] > ONLY_SEED_PRIORITY => g \in WantedBy(q, c, f)
      BY <1>2, <2>2 DEF WantedBy
    <3>2. FilesOf(c) # {g}
      BY <2>4 DEF Kept, IsKept, Shared
    <3>3. /\ v.cman.cprio[c] \in {20, 30, 40, 50}
          /\ \A h \in WantedBy(q, c, f) : q[h] <= v.cman.cprio[c]
      BY <1>5, <2>4 DEF Kept, IsKept
    <3>4. q[g] \in {10, 20, 30, 40, 50}
      BY <1>2, <2>2
    <3>5. q[g] > ONLY_SEED_PRIORITY => q[g] <= v.cman.cprio[c]
      BY <3>1, <3>3
    <3>6. q[g] > ONLY_SEED_PRIORITY => v.cman.cprio[c] # ONLY_SEED_PRIORITY
      BY <3>4, <3>5
    <3> QED
      BY <3>2, <3>3, <3>6
  <2>5. CASE Same(c)
    <3>1. v.cman.cprio[c] = w.cman.cprio[c]
      BY <2>5 DEF Same, IsAsItWas, Agree
    <3>2. CASE g # f
      BY <2>1, <2>2, <3>1, <3>2
    <3>3. CASE g = f
      <4>1. FilesOf(c) # {g}
        BY <2>2, <2>5, <3>3 DEF Same, Shared
      <4> QED
        BY <1>2, <3>3, <4>1
    <3> QED
      BY <3>2, <3>3
  <2> QED
    BY <1>4, <2>3, <2>4, <2>5
<1>11. ASSUME NEW c \in ChunksOf(f), InOneFile(c) PROVE c \notin v.cman.bitset
  <2>1. c \in Chunks /\ ~Shared(c)
    BY <1>1, <1>11, ChunksAreShared
  <2>2. Out(c)
    BY <1>4, <2>1 DEF Kept, Same, IsKept
  <2> QED
    BY <2>2 DEF Out, IsOut
<1> QED
  BY <1>3, <1>6, <1>8, <1>9, <1>10, <1>11 DEF Consistent

\* Giving a file that is downloaded another priority
LEMMA PrioritisingKeepsConsistent ==
    ASSUME Layout, NEW w \in Worlds, NEW v, NEW p \in PriorityMaps, NEW q \in PriorityMaps,
           NEW f \in Files, NEW new, new # EXCLUDED, p[f] # EXCLUDED, q = [p EXCEPT ![f] = new],
           Consistent(w.cman, w.down, p), Offered(w.cman, w.down),
           IsGivenPriority(w, v, q, f)
    PROVE  Consistent(v.cman, v.down, q) /\ Offered(v.cman, v.down)
<1> USE DEF EXCLUDED, ONLY_SEED_PRIORITY
<1>1. \A c : \A g \in FilesOf(c) : g \in Files /\ c \in ChunksOf(g)
  BY ChunksAreShared
<1>2. /\ q[f] = new /\ \A g \in Files \ {f} : q[g] = p[g]
      /\ \A g \in Files : q[g] \in {10, 20, 30, 40, 50} /\ p[g] \in {10, 20, 30, 40, 50}
  BY PriorityValues DEF PriorityMaps
<1>3. v.down = w.down /\ Marked(v.cman) /\ v.cman.bitset = w.cman.bitset
  BY DEF IsGivenPriority
<1> DEFINE Given(c) == c \in ChunksOf(f) /\ ~Higher(q, f, c)
<1>4. \A c \in Chunks :
         /\ ~Given(c) => Agree(w.cman, v.cman, c)
         /\ Given(c) =>
               /\ v.cman.status[c] = w.cman.status[c] /\ v.cman.cprio[c] = new
               /\ c \in v.cman.excluded <=> c \in w.cman.excluded
               /\ c \in v.cman.only_seed <=> new = ONLY_SEED_PRIORITY
               /\ c \in v.cman.todo <=> new # ONLY_SEED_PRIORITY /\ c \notin w.cman.bitset
  BY <1>2 DEF IsGivenPriority
<1>5. \A c \in Chunks : v.cman.status[c] = w.cman.status[c]
  BY <1>4 DEF Agree
<1>6. \A c \in Chunks : c \in ChunksOf(f) /\ ~Odd(c) => f \in FilesOf(c)
  BY DEF Odd, Overrun, FilesOf
<1>7. \A c \in Chunks : c \in ChunksOf(f) /\ ~Odd(c) => w.cman.cprio[c] # EXCLUDED
  BY <1>6 DEF Consistent, Wishes
<1> HIDE DEF Given
<1>8. Statuses(v.cman, v.down)
  BY <1>3, <1>5 DEF Consistent, Statuses
<1>9. SetsAgree(v.cman)
  <2> SUFFICES ASSUME NEW c \in Chunks, ~Odd(c)
               PROVE  /\ c \in v.cman.excluded <=> v.cman.cprio[c] = EXCLUDED
                      /\ c \in v.cman.only_seed <=> v.cman.cprio[c] = ONLY_SEED_PRIORITY
                      /\ c \notin v.cman.bitset /\ v.cman.cprio[c] \notin {EXCLUDED, ONLY_SEED_PRIORITY}
                            => c \in v.cman.todo
    BY DEF SetsAgree
  <2>1. /\ c \in w.cman.excluded <=> w.cman.cprio[c] = EXCLUDED
        /\ c \in w.cman.only_seed <=> w.cman.cprio[c] = ONLY_SEED_PRIORITY
        /\ c \notin w.cman.bitset /\ w.cman.cprio[c] \notin {EXCLUDED, ONLY_SEED_PRIORITY}
              => c \in w.cman.todo
    BY DEF Consistent, SetsAgree
  <2>2. CASE Given(c)
    <3>1. w.cman.cprio[c] # EXCLUDED
      BY <1>7, <2>2 DEF Given
    <3> QED
      BY <1>3, <1>4, <2>1, <2>2, <3>1
  <2>3. CASE ~Given(c)
    BY <1>4, <2>1, <2>3 DEF Agree
  <2> QED
    BY <2>2, <2>3
<1>10. Offered(v.cman, v.down)
  <2> SUFFICES ASSUME NEW c \in Chunks, ~Odd(c), c \notin v.cman.bitset,
                      v.cman.cprio[c] # EXCLUDED, v.cman.status[c] # "ON_DISK"
               PROVE  c \in v.down.chunks
    BY DEF Offered
  <2>1. w.cman.cprio[c] # EXCLUDED
    BY <1>4, <1>7 DEF Given, Agree
  <2> QED
    BY <1>3, <1>5, <2>1 DEF Offered
<1>11. Wishes(v.cman, q)
  <2> SUFFICES ASSUME NEW c \in Chunks, ~Odd(c), NEW g \in FilesOf(c)
               PROVE  /\ q[g] # EXCLUDED => v.cman.cprio[c] # EXCLUDED
                      /\ q[g] > ONLY_SEED_PRIORITY => v.cman.cprio[c] # ONLY_SEED_PRIORITY
                      /\ FilesOf(c) = {g} /\ q[g] = EXCLUDED => v.cman.cprio[c] = EXCLUDED
    BY DEF Wishes
  <2>1. \A h \in FilesOf(c) :
           /\ p[h] # EXCLUDED => w.cman.cprio[c] # EXCLUDED
           /\ p[h] > ONLY_SEED_PRIORITY => w.cman.cprio[c] # ONLY_SEED_PRIORITY
           /\ FilesOf(c) = {h} /\ p[h] = EXCLUDED => w.cman.cprio[c] = EXCLUDED
    BY DEF Consistent, Wishes
  <2>2. g \in Files /\ c \in ChunksOf(g) /\ (g # f => q[g] = p[g])
    BY <1>1, <1>2
  <2>3. CASE Given(c)
    <3>1. f \in FilesOf(c)
      BY <1>6, <2>3 DEF Given
    <3>2. q[g] <= new
      <4>1. CASE g = f
        BY <1>2, <2>2, <4>1
      <4>2. CASE g # f
        <5>1. ~(q[g] > q[f])
          BY <2>3, <4>2 DEF Given, Higher
        <5> QED
          BY <1>2, <2>2, <5>1
      <4> QED
        BY <4>1, <4>2
    <3>3. q[g] = EXCLUDED => FilesOf(c) # {g}
      BY <1>2, <3>1
    <3>4. v.cman.cprio[c] = new
      BY <1>4, <2>3
    <3>5. q[g] > ONLY_SEED_PRIORITY => new # ONLY_SEED_PRIORITY
      BY <1>2, <2>2, <3>2
    <3> QED
      BY <3>3, <3>4, <3>5
  <2>4. CASE ~Given(c)
    <3>1. v.cman.cprio[c] = w.cman.cprio[c]
      BY <1>4, <2>4 DEF Agree
    <3>2. CASE g # f
      BY <2>1, <2>2, <3>1, <3>2
    <3>3. CASE g = f
      <4>1. PICK h \in FilesOf(c) \ {f} : q[h] > q[f]
        BY <2>2, <2>4, <3>3 DEF Given, Higher
      <4>2. h \in Files /\ p[h] > new
        BY <1>1, <1>2, <4>1
      <4>3. new \in {20, 30, 40, 50} /\ p[h] \in {10, 20, 30, 40, 50}
        BY <1>2, <4>2
      <4>4. p[h] # EXCLUDED /\ (new > ONLY_SEED_PRIORITY => p[h] > ONLY_SEED_PRIORITY)
        BY <4>2, <4>3
      <4>5. w.cman.cprio[c] # EXCLUDED /\ (new > ONLY_SEED_PRIORITY => w.cman.cprio[c] # ONLY_SEED_PRIORITY)
        BY <2>1, <4>1, <4>4
      <4> QED
        BY <1>2, <3>1, <3>3, <4>5
    <3> QED
      BY <3>2, <3>3
  <2> QED
    BY <2>3, <2>4
<1> QED
  BY <1>3, <1>8, <1>9, <1>10, <1>11 DEF Consistent

\* Selecting a file, and giving it a priority
LEMMA SelectingKeepsConsistent ==
    ASSUME Layout, NEW w \in Worlds, NEW u, NEW v, NEW p \in PriorityMaps, NEW q \in PriorityMaps,
           NEW f \in Files, NEW new, new # EXCLUDED, q = [p EXCEPT ![f] = new],
           Consistent(w.cman, w.down, p), Offered(w.cman, w.down),
           IsSelected(w, u, f),
           NEW x, x.cman = u.cman, x.down = u.down, IsGivenPriority(x, v, q, f)
    PROVE  Consistent(v.cman, v.down, q) /\ Offered(v.cman, v.down)
<1> USE DEF EXCLUDED, ONLY_SEED_PRIORITY, NORMAL_PRIORITY, PREVIEW_PRIORITY
<1>1. \A c : \A g \in FilesOf(c) : g \in Files /\ c \in ChunksOf(g)
  BY ChunksAreShared
<1>2. /\ q[f] = new /\ \A g \in Files \ {f} : q[g] = p[g]
      /\ \A g \in Files : q[g] \in {10, 20, 30, 40, 50} /\ p[g] \in {10, 20, 30, 40, 50}
  BY PriorityValues DEF PriorityMaps
<1>3. /\ v.down = u.down /\ Marked(v.cman) /\ v.cman.bitset = w.cman.bitset
      /\ v.down.current = w.down.current /\ w.down.chunks \subseteq v.down.chunks
  BY DEF IsGivenPriority, IsSelected
<1> DEFINE Given(c) == c \in ChunksOf(f) /\ ~Higher(q, f, c)
<1>4. \A c \in Chunks :
         /\ ~Given(c) => Agree(u.cman, v.cman, c)
         /\ Given(c) =>
               /\ v.cman.status[c] = u.cman.status[c] /\ v.cman.cprio[c] = new
               /\ c \in v.cman.excluded <=> c \in u.cman.excluded
               /\ c \in v.cman.only_seed <=> new = ONLY_SEED_PRIORITY
               /\ c \in v.cman.todo <=> new # ONLY_SEED_PRIORITY /\ c \notin w.cman.bitset
  <2>1. /\ x.cman.bitset = w.cman.bitset
        /\ \A c \in Chunks :
              /\ ~Given(c) => Agree(x.cman, v.cman, c)
              /\ Given(c) =>
                    /\ v.cman.status[c] = x.cman.status[c] /\ v.cman.cprio[c] = q[f]
                    /\ c \in v.cman.excluded <=> c \in x.cman.excluded
                    /\ c \in v.cman.only_seed <=> q[f] = ONLY_SEED_PRIORITY
                    /\ c \in v.cman.todo <=> q[f] # ONLY_SEED_PRIORITY /\ c \notin x.cman.bitset
    BY DEF IsGivenPriority, IsSelected
  <2> QED
    BY <1>2, <2>1
<1>5. \A c \in Chunks :
         /\ u.cman.status[c] = w.cman.status[c]
         /\ c \notin ChunksOf(f) /\ ~Odd(c) => Agree(w.cman, u.cman, c)
         /\ c \in ChunksOf(f) =>
               /\ u.cman.cprio[c] \in {NORMAL_PRIORITY, PREVIEW_PRIORITY}
               /\ c \notin u.cman.excluded
               /\ c \in u.cman.only_seed => c \in w.cman.only_seed
               /\ c \in u.cman.todo <=> c \notin w.cman.bitset
               /\ w.cman.status[c] # "ON_DISK" => c \in v.down.chunks
  BY <1>3 DEF IsSelected
<1>6. \A c \in Chunks : v.cman.status[c] = w.cman.status[c]
  BY <1>4, <1>5 DEF Agree
<1>7. \A c \in Chunks : c \notin ChunksOf(f) /\ ~Odd(c) => Agree(w.cman, v.cman, c)
  BY <1>4, <1>5 DEF Given, Agree
<1>8. \A c \in Chunks : c \in ChunksOf(f) /\ ~Odd(c) => f \in FilesOf(c)
  BY DEF Odd, Overrun, FilesOf
<1>9. ASSUME NEW c \in Chunks, ~Odd(c), c \in ChunksOf(f), ~Given(c)
      PROVE  /\ v.cman.cprio[c] \in {NORMAL_PRIORITY, PREVIEW_PRIORITY}
             /\ c \notin v.cman.excluded /\ c \notin v.cman.only_seed
             /\ c \in v.cman.todo <=> c \notin w.cman.bitset
  <2>1. PICK h \in FilesOf(c) \ {f} : q[h] > q[f]
    BY <1>9 DEF Given, Higher
  <2>2. h \in Files /\ p[h] > new
    BY <1>1, <1>2, <2>1
  <2>3. new \in {20, 30, 40, 50} /\ p[h] \in {10, 20, 30, 40, 50}
    BY <1>2, <2>2
  <2>4. p[h] > ONLY_SEED_PRIORITY
    BY <2>2, <2>3
  <2>5. w.cman.cprio[c] # ONLY_SEED_PRIORITY
    BY <1>9, <2>1, <2>4 DEF Consistent, Wishes
  <2>6. c \notin w.cman.only_seed
    BY <1>9, <2>5 DEF Consistent, SetsAgree
  <2>7. Agree(u.cman, v.cman, c)
    BY <1>4, <1>9
  <2> QED
    BY <1>5, <1>9, <2>6, <2>7 DEF Agree
<1>10. Statuses(v.cman, v.down)
  BY <1>3, <1>6 DEF Consistent, Statuses
<1>11. SetsAgree(v.cman)
  <2> SUFFICES ASSUME NEW c \in Chunks, ~Odd(c)
               PROVE  /\ c \in v.cman.excluded <=> v.cman.cprio[c] = EXCLUDED
                      /\ c \in v.cman.only_seed <=> v.cman.cprio[c] = ONLY_SEED_PRIORITY
                      /\ c \notin v.cman.bitset /\ v.cman.cprio[c] \notin {EXCLUDED, ONLY_SEED_PRIORITY}
                            => c \in v.cman.todo
    BY DEF SetsAgree
  <2>1. CASE c \notin ChunksOf(f)
    BY <1>7, <2>1 DEF Consistent, SetsAgree, Agree
  <2>2. CASE c \in ChunksOf(f) /\ ~Given(c)
    <3> HIDE DEF Given
    <3>1. /\ v.cman.cprio[c] \in {40, 60} /\ c \notin v.cman.excluded /\ c \notin v.cman.only_seed
          /\ c \in v.cman.todo <=> c \notin w.cman.bitset
      BY <1>9, <2>2
    <3> QED
      BY <1>3, <3>1
  <2>3. CASE Given(c)
    <3>1. c \notin u.cman.excluded
      BY <1>5, <2>3 DEF Given
    <3> HIDE DEF Given
    <3> QED
      BY <1>3, <1>4, <2>3, <3>1
  <2> QED
    BY <2>1, <2>2, <2>3
<1>12. Offered(v.cman, v.down)
  <2> SUFFICES ASSUME NEW c \in Chunks, ~Odd(c), c \notin v.cman.bitset,
                      v.cman.cprio[c] # EXCLUDED, v.cman.status[c] # "ON_DISK"
               PROVE  c \in v.down.chunks
    BY DEF Offered
  <2>1. CASE c \notin ChunksOf(f)
    BY <1>3, <1>7, <2>1 DEF Offered, Agree
  <2>2. CASE c \in ChunksOf(f)
    BY <1>5, <1>6, <2>2
  <2> QED
    BY <2>1, <2>2
<1>13. Wishes(v.cman, q)
  <2> SUFFICES ASSUME NEW c \in Chunks, ~Odd(c), NEW g \in FilesOf(c)
               PROVE  /\ q[g] # EXCLUDED => v.cman.cprio[c] # EXCLUDED
                      /\ q[g] > ONLY_SEED_PRIORITY => v.cman.cprio[c] # ONLY_SEED_PRIORITY
                      /\ FilesOf(c) = {g} /\ q[g] = EXCLUDED => v.cman.cprio[c] = EXCLUDED
    BY DEF Wishes
  <2>1. g \in Files /\ c \in ChunksOf(g) /\ (g # f => q[g] = p[g])
    BY <1>1, <1>2
  <2>2. CASE c \notin ChunksOf(f)
    <3>1. g # f /\ v.cman.cprio[c] = w.cman.cprio[c]
      BY <1>7, <2>1, <2>2 DEF Agree
    <3> QED
      BY <2>1, <3>1 DEF Consistent, Wishes
  <2>3. CASE c \in ChunksOf(f)
    <3>1. f \in FilesOf(c)
      BY <1>8, <2>3
    <3>2. q[g] = EXCLUDED => FilesOf(c) # {g}
      BY <1>2, <3>1
    <3>3. CASE ~Given(c)
      <4> HIDE DEF Given
      <4>1. v.cman.cprio[c] \in {40, 60}
        BY <1>9, <2>3, <3>3
      <4> QED
        BY <3>2, <4>1
    <3>4. CASE Given(c)
      <4>1. q[g] <= new
        <5>1. CASE g = f
          BY <1>2, <2>1, <5>1
        <5>2. CASE g # f
          <6>1. ~(q[g] > q[f])
            BY <3>4, <5>2 DEF Given, Higher
          <6> QED
            BY <1>2, <2>1, <6>1
        <5> QED
          BY <5>1, <5>2
      <4>2. q[g] > ONLY_SEED_PRIORITY => new # ONLY_SEED_PRIORITY
        BY <1>2, <2>1, <4>1
      <4>3. v.cman.cprio[c] = new
        BY <1>4, <3>4
      <4> QED
        BY <3>2, <4>2, <4>3
    <3> QED
      BY <3>3, <3>4
  <2> QED
    BY <2>2, <2>3
<1> QED
  BY <1>3, <1>10, <1>11, <1>12, <1>13 DEF Consistent

\* What the cache makes of a file whose selection changes
NewCacheFile(d, f, download) ==
    IF ~download /\ d.where # "dnd" THEN ToDND(d, f)
    ELSE IF download /\ d.where # "output" THEN FromDND(d, f)
    ELSE d

\* The cache changes nothing but the file whose selection changes
LEMMA CacheStatusChangedEffect ==
    ASSUME Layout, NEW w \in Worlds, NEW f \in Files, NEW download \in BOOLEAN,
           NEW x, x = CacheStatusChanged(w, f, download)
    PROVE  /\ x \in Worlds /\ x.cman = w.cman /\ x.down = w.down
           /\ \A g \in Files \ {f} : x.cache[g] = w.cache[g]
           /\ x.cache[f] = NewCacheFile(w.cache[f], f, download)
           /\ x.cache[f].where = IF download THEN "output" ELSE "dnd"
<1> DEFINE CacheFile == [where : {"output", "dnd", "missing"}, parts : SUBSET Nat, first : Part, last : Part]
           d == w.cache[f]
           e == NewCacheFile(d, f, download)
<1>1. w.cache \in [Files -> CacheFile] /\ d \in CacheFile
  BY DEF Worlds, Caches
<1>2. ToDND(d, f) \in CacheFile /\ ToDND(d, f).where = "dnd"
  BY DEF ToDND, Quality, Part
<1>3. FromDND(d, f) \in CacheFile /\ FromDND(d, f).where = "output"
  <2> DEFINE P == {c \in ChunksOf(f) : \/ c = torrent[f].first /\ ReadFirstChunk(d)
                                       \/ c = torrent[f].last /\ c # torrent[f].first /\ ReadLastChunk(d)}
  <2>1. P \in SUBSET Nat
    BY ChunksAreShared
  <2>2. FromDND(d, f) = [EmptyFile EXCEPT !.parts = P]
    BY DEF FromDND
  <2> HIDE DEF P
  <2> QED
    BY <2>1, <2>2 DEF EmptyFile, Part
<1>4. e \in CacheFile /\ e.where = IF download THEN "output" ELSE "dnd"
  BY <1>1, <1>2, <1>3 DEF NewCacheFile
<1>5. CacheStatusChanged(w, f, download) = [w EXCEPT !.cache[f] = e]
  BY DEF CacheStatusChanged, NewCacheFile
<1> HIDE DEF e
<1> DEFINE k == [w.cache EXCEPT ![f] = e]
           v == [w EXCEPT !.cache = k]
<1>6. k \in [Files -> CacheFile] /\ k[f] = e /\ \A g \in Files \ {f} : k[g] = w.cache[g]
  BY <1>1, <1>4
<1>7. [w EXCEPT !.cache[f] = e] = v
  BY DEF Worlds
<1> HIDE DEF k
<1>8. v \in Worlds /\ v.cman = w.cman /\ v.down = w.down /\ v.cache = k
  BY <1>6 DEF Worlds, Caches
<1> HIDE DEF v
<1> QED
  BY <1>4, <1>5, <1>6, <1>7, <1>8 DEF e

\* The whole of setDoNotDownload and setPriority
LEMMA SetPriorityEffect ==
    ASSUME Layout, NEW w \in Worlds, NEW p \in PriorityMaps, NEW f \in Files,
           NEW new \in Priorities \cup {NORMAL_PRIORITY}, p[f] # new,
           Consistent(w.cman, w.down, p), Offered(w.cman, w.down), Fresh(w.cman)
    PROVE  LET v == SetPriority(w, p, f, new)
               q == [p EXCEPT ![f] = new]
           IN  /\ v \in Worlds /\ Consistent(v.cman, v.down, q)
               /\ Offered(v.cman, v.down) /\ Fresh(v.cman)
               /\ v.cman.bitset \subseteq w.cman.bitset /\ v.down.current \subseteq w.down.current
               /\ \A g \in Files \ {f} : v.cache[g] = w.cache[g]
               /\ v.cache[f] = IF new = EXCLUDED \/ p[f] = EXCLUDED
                               THEN NewCacheFile(w.cache[f], f, new # EXCLUDED) ELSE w.cache[f]
               /\ new = EXCLUDED => \A c \in ChunksOf(f) : InOneFile(c) => c \notin v.cman.bitset
               /\ new # EXCLUDED => v.cman.bitset = w.cman.bitset
<1> DEFINE v == SetPriority(w, p, f, new)
           q == [p EXCEPT ![f] = new]
<1>1. q \in PriorityMaps /\ q[f] = new /\ Marked(w.cman)
  BY DEF PriorityMaps, Consistent
<1>2. CASE new = EXCLUDED
  <2> DEFINE u == Deselected(w, q, f)
  <2>1. v = CacheStatusChanged(u, f, FALSE)
    BY <1>2 DEF SetPriority, downloadStatusChanged
  <2>2. IsDeselected(w, u, q, f)
    BY <1>1, DeselectedEffect
  <2> HIDE DEF u, v
  <2>3. /\ Consistent(u.cman, u.down, q) /\ Offered(u.cman, u.down)
        /\ \A c \in ChunksOf(f) : InOneFile(c) => c \notin u.cman.bitset
    BY <1>1, <1>2, <2>2, DeselectingKeepsConsistent
  <2>4. /\ u \in Worlds /\ u.cache = w.cache /\ u.cman.bitset \subseteq w.cman.bitset
        /\ u.down.current \subseteq w.down.current /\ Fresh(u.cman)
    BY <2>2 DEF IsDeselected
  <2>5. /\ v \in Worlds /\ v.cman = u.cman /\ v.down = u.down
        /\ \A g \in Files \ {f} : v.cache[g] = u.cache[g]
        /\ v.cache[f] = NewCacheFile(u.cache[f], f, FALSE)
    <3>1. \A download \in BOOLEAN : v = CacheStatusChanged(u, f, download) =>
             /\ v \in Worlds /\ v.cman = u.cman /\ v.down = u.down
             /\ \A g \in Files \ {f} : v.cache[g] = u.cache[g]
             /\ v.cache[f] = NewCacheFile(u.cache[f], f, download)
      BY <2>4, CacheStatusChangedEffect
    <3> QED
      BY <2>1, <3>1
  <2>6. new # EXCLUDED <=> FALSE
    BY <1>2
  <2>7. v.cache[f] = NewCacheFile(w.cache[f], f, new # EXCLUDED)
    BY <2>4, <2>5, <2>6
  <2> HIDE DEF q
  <2> QED
    BY <1>2, <2>3, <2>4, <2>5, <2>7 DEF v, q
<1>3. CASE new # EXCLUDED /\ p[f] = EXCLUDED
  <2> DEFINE u == Selected(w, f)
             x == CacheStatusChanged(u, f, TRUE)
  <2>1. v = Prioritised(x, q, f)
    BY <1>3 DEF SetPriority, downloadStatusChanged
  <2>2. IsSelected(w, u, f)
    BY <1>1, SelectedEffect
  <2> HIDE DEF u, v
  <2>3. u \in Worlds /\ u.cache = w.cache
    BY <2>2 DEF IsSelected
  <2>4. /\ x \in Worlds /\ x.cman = u.cman /\ x.down = u.down
        /\ \A g \in Files \ {f} : x.cache[g] = u.cache[g]
        /\ x.cache[f] = NewCacheFile(u.cache[f], f, TRUE)
    <3>1. \A download \in BOOLEAN :
             /\ CacheStatusChanged(u, f, download) \in Worlds
             /\ CacheStatusChanged(u, f, download).cman = u.cman
             /\ CacheStatusChanged(u, f, download).down = u.down
             /\ \A g \in Files \ {f} : CacheStatusChanged(u, f, download).cache[g] = u.cache[g]
             /\ CacheStatusChanged(u, f, download).cache[f] = NewCacheFile(u.cache[f], f, download)
      BY <2>3, CacheStatusChangedEffect
    <3> QED
      BY <3>1
  <2> HIDE DEF x
  <2>5. /\ Marked(x.cman) /\ Fresh(x.cman) /\ x.cman.bitset = w.cman.bitset
        /\ x.down.current = w.down.current
        /\ \A c \in Chunks : c \in ChunksOf(f) /\ ~Odd(c) => x.cman.cprio[c] # EXCLUDED
    BY <2>2, <2>4 DEF IsSelected, EXCLUDED, NORMAL_PRIORITY, PREVIEW_PRIORITY
  <2>6. IsGivenPriority(x, v, q, f)
    <3>1. q[f] \in Levels /\ q[f] # EXCLUDED
      BY <1>1, <1>3 DEF Levels
    <3> HIDE DEF q
    <3> QED
      BY <2>1, <2>4, <2>5, <3>1, PrioritisedEffect
  <2>7. Consistent(v.cman, v.down, q) /\ Offered(v.cman, v.down)
    BY <1>1, <1>3, <2>2, <2>4, <2>6, SelectingKeepsConsistent
  <2>8. /\ v \in Worlds /\ v.cache = x.cache /\ v.cman.bitset = w.cman.bitset
        /\ v.down.current = w.down.current /\ Fresh(v.cman)
    BY <2>5, <2>6 DEF IsGivenPriority
  <2>9. new # EXCLUDED <=> TRUE
    BY <1>3
  <2>10. v.cache[f] = NewCacheFile(w.cache[f], f, new # EXCLUDED)
    BY <2>3, <2>4, <2>8, <2>9
  <2> HIDE DEF q
  <2> QED
    BY <1>3, <2>3, <2>4, <2>7, <2>8, <2>10 DEF v, q
<1>4. CASE new # EXCLUDED /\ p[f] # EXCLUDED
  <2>1. v = Prioritised(w, q, f)
    BY <1>4 DEF SetPriority
  <2> HIDE DEF v
  <2>2. \A c \in Chunks : c \in ChunksOf(f) /\ ~Odd(c) => w.cman.cprio[c] # EXCLUDED
    <3>1. \A c \in Chunks : c \in ChunksOf(f) /\ ~Odd(c) => f \in FilesOf(c)
      BY DEF Odd, Overrun, FilesOf
    <3> QED
      BY <1>4, <3>1 DEF Consistent, Wishes
  <2>3. IsGivenPriority(w, v, q, f)
    <3>1. q[f] \in Levels /\ q[f] # EXCLUDED
      BY <1>1, <1>4 DEF Levels
    <3> HIDE DEF q
    <3> QED
      BY <1>1, <2>1, <2>2, <3>1, PrioritisedEffect
  <2>4. Consistent(v.cman, v.down, q) /\ Offered(v.cman, v.down)
    BY <1>1, <1>4, <2>3, PrioritisingKeepsConsistent
  <2>5. v \in Worlds /\ v.cache = w.cache /\ v.cman.bitset = w.cman.bitset /\ v.down = w.down
        /\ Fresh(v.cman)
    BY <2>3 DEF IsGivenPriority
  <2> HIDE DEF q
  <2> QED
    BY <1>4, <2>4, <2>5 DEF v, q
<1> QED
  BY <1>2, <1>3, <1>4

-----------------------------------------------------------------------------
(* The inductive invariant *)

\* A file has a .dnd file if its priority is saved as EXCLUDED; this has a first part unless
\* the file was missing
DiskOf(k, saved, a) ==
    \A f \in Files :
        /\ k[f].where = "dnd" <=> saved[f] = EXCLUDED
        /\ k[f].where = "dnd" /\ f \notin a => k[f].first # "none"
        /\ k[f].parts \subseteq ChunksOf(f)

\* The priorities are saved, or are being loaded file by file into a new chunk manager;
\* a torrent that does not run downloads nothing
PhaseOf(l, p, saved, m, d, run, ch, o) ==
    /\ l = 0 => saved = p
    /\ l # 0 => /\ ~run /\ m.bitset = {} /\ ch = {} /\ o = {}
                /\ \A f \in Files : p[f] = IF f < l THEN saved[f] ELSE NORMAL_PRIORITY
    /\ ch # {} => ~run
    /\ ~run => d.current = {}
    /\ \A ok \in ch : ok \subseteq Chunks

\* HaveIsStored of any cache, chunk manager and history
StoredIn(k, m, o, a) ==
    \A c \in m.bitset :
        \/ ChunkIsGood(k, c) \/ c \in o
        \/ SmallHead(c) \/ (Shared(c) /\ \E f \in a : IsFirst(f, c)) \/ Overrun(c) \/ AfterOverrun(c)

\* The inductive invariant: what is said of the chunks, the disk and the phase of the torrent
IInv ==
    /\ Layout /\ TypeOK
    /\ Consistent(cman, down, priority) /\ Offered(cman, down) /\ Fresh(cman)
    /\ DiskOf(cache, file_priority, absent)
    /\ PhaseOf(loading, priority, file_priority, cman, down, running, check, outdated)
    /\ HaveIsStored

\* A cache between two handlers has no missing files
DiskCaches == [Files -> [where : {"output", "dnd"}, parts : SUBSET Nat, first : Part, last : Part]]

\* The types the invariant gives to every variable
LEMMA InvariantTypes ==
    ASSUME IInv
    PROVE  /\ priority \in PriorityMaps /\ file_priority \in PriorityMaps
           /\ cman \in Cmans /\ down \in Downs /\ cache \in DiskCaches
           /\ index_file \subseteq Chunks /\ current_file \subseteq Chunks /\ outdated \subseteq Chunks
           /\ loading \in 0 .. Len(torrent) + 1 /\ absent \subseteq Files
           /\ StoredIn(cache, cman, outdated, absent)
           /\ World \in Worlds /\ World.cman = cman /\ World.down = down /\ World.cache = cache
<1>1. /\ priority \in PriorityMaps /\ file_priority \in PriorityMaps
      /\ cman \in Cmans /\ down \in Downs /\ cache \in DiskCaches
      /\ index_file \subseteq Chunks /\ current_file \subseteq Chunks /\ outdated \subseteq Chunks
      /\ loading \in 0 .. Len(torrent) + 1 /\ absent \subseteq Files
  BY DEF IInv, TypeOK, PriorityMaps, Cmans, Downs, DiskCaches, Levels
<1>2. StoredIn(cache, cman, outdated, absent)
  BY DEF IInv, HaveIsStored, StoredIn, AfterAbsent
<1>3. cache \in Caches
  BY <1>1 DEF DiskCaches, Caches
<1> QED
  BY <1>1, <1>2, <1>3 DEF World, Worlds

\* The files stay where they are
LEMMA SameLayout ==
    ASSUME torrent' = torrent
    PROVE  /\ Files' = Files /\ Chunks' = Chunks /\ Layout' = Layout
           /\ \A f : ChunksOf(f)' = ChunksOf(f)
           /\ \A c : FilesOf(c)' = FilesOf(c) /\ (Shared(c)' <=> Shared(c)) /\ (Odd(c)' <=> Odd(c))
           /\ \A c : (Overrun(c)' <=> Overrun(c)) /\ (SmallHead(c)' <=> SmallHead(c))
           /\ \A c : (AfterOverrun(c)' <=> AfterOverrun(c)) /\ (InOneFile(c)' <=> InOneFile(c))
           /\ \A f, c : IsFirst(f, c)' <=> IsFirst(f, c)
<1>1. Files' = Files /\ \A f : ChunksOf(f)' = ChunksOf(f)
  BY DEF Files, ChunksOf
<1>2. Chunks' = Chunks
  BY <1>1 DEF Chunks
<1>3. \A c : FilesOf(c)' = FilesOf(c)
  BY <1>1 DEF FilesOf
<1>4. Layout' = Layout
  BY <1>1 DEF Layout
<1>5. \A c : (Shared(c)' <=> Shared(c)) /\ (InOneFile(c)' <=> InOneFile(c))
  BY <1>1, <1>3 DEF Shared, InOneFile
<1>6. \A f, c : IsFirst(f, c)' <=> IsFirst(f, c)
  BY <1>3 DEF IsFirst
<1>7. \A c : Overrun(c)' <=> Overrun(c)
  BY <1>1 DEF Overrun
<1>8. \A c : Odd(c)' <=> Odd(c)
  BY <1>1, <1>5, <1>7 DEF Odd, Pinched
<1>9. \A c : (SmallHead(c)' <=> SmallHead(c)) /\ (AfterOverrun(c)' <=> AfterOverrun(c))
  BY <1>1, <1>3, <1>5, <1>6, <1>7 DEF SmallHead, AfterOverrun
<1> QED
  BY <1>1, <1>2, <1>3, <1>4, <1>5, <1>6, <1>7, <1>8, <1>9

\* So the invariant holds of the next state if its parts hold there of these files
LEMMA NextInvariant ==
    ASSUME torrent' = torrent, Layout,
           priority' \in PriorityMaps, file_priority' \in PriorityMaps,
           cman' \in Cmans, down' \in Downs, cache' \in DiskCaches,
           index_file' \subseteq Chunks, current_file' \subseteq Chunks, outdated' \subseteq Chunks,
           loading' \in 0 .. Len(torrent) + 1, absent' \subseteq Files,
           Consistent(cman', down', priority'), Offered(cman', down'), Fresh(cman'),
           DiskOf(cache', file_priority', absent'),
           PhaseOf(loading', priority', file_priority', cman', down', running', check', outdated'),
           StoredIn(cache', cman', outdated', absent')
    PROVE  IInv'
<1> USE SameLayout
<1>1. TypeOK'
  BY DEF TypeOK, PriorityMaps, Cmans, Downs, DiskCaches, Levels
<1>2. Statuses(cman, down)' /\ Marked(cman)' /\ SetsAgree(cman)' /\ Offered(cman, down)'
  BY DEF Consistent, Statuses, Marked, SetsAgree, Offered
<1>3. Wishes(cman, priority)'
  BY DEF Consistent, Wishes
<1>4. Fresh(cman)'
  <2>1. LeftSet(cman)' = LeftSet(cman')
    BY DEF LeftSet, Excluded
  <2>2. Fresh(cman')
    OBVIOUS
  <2>3. CASE cman'.recalc
    BY <2>3 DEF Fresh
  <2>4. CASE ~cman'.recalc
    <3>1. PICK S \in SUBSET {c \in LeftSet(cman') : Odd(c)} : cman'.left = Cardinality(LeftSet(cman') \ S)
      BY <2>2, <2>4 DEF Fresh
    <3>2. /\ S \in SUBSET {c \in LeftSet(cman)' : Odd(c)'}
          /\ cman'.left = Cardinality(LeftSet(cman)' \ S)
      BY <2>1, <3>1
    <3> QED
      BY <3>2 DEF Fresh
  <2> QED
    BY <2>3, <2>4
<1>5. DiskOf(cache, file_priority, absent)'
  BY DEF DiskOf
<1>6. PhaseOf(loading, priority, file_priority, cman, down, running, check, outdated)'
  BY DEF PhaseOf
<1>7. HaveIsStored'
  <2>1. \A c : ChunkIsGood(cache, c)' <=> ChunkIsGood(cache', c)
    BY DEF ChunkIsGood, PartIsGood
  <2> QED
    BY <2>1 DEF HaveIsStored, StoredIn, AfterAbsent
<1> QED
  BY <1>1, <1>2, <1>3, <1>4, <1>5, <1>6, <1>7 DEF IInv, Consistent

\* The chunk manager and the downloader of a torrent that has just been loaded
LEMMA NewChunkManagerIsConsistent ==
    LET p == [f \in Files |-> NORMAL_PRIORITY]
        d == [current |-> {}, chunks |-> Chunks]
    IN  /\ NewChunkManager \in Cmans /\ NewChunkManager.bitset = {}
        /\ d \in Downs /\ p \in PriorityMaps
        /\ Consistent(NewChunkManager, d, p) /\ Offered(NewChunkManager, d) /\ Fresh(NewChunkManager)
<1> DEFINE p == [f \in Files |-> NORMAL_PRIORITY]
           d == [current |-> {}, chunks |-> Chunks]
           m == NewChunkManager
<1> USE DEF EXCLUDED, ONLY_SEED_PRIORITY, NORMAL_PRIORITY, PREVIEW_PRIORITY
<1>1. PICK S : m = [status |-> [c \in Chunks |-> "NOT_DOWNLOADED"], bitset |-> {}, excluded |-> {},
                    only_seed |-> {}, todo |-> Chunks, recalc |-> TRUE, left |-> 0,
                    cprio |-> [c \in Chunks |-> IF c \in S THEN PREVIEW_PRIORITY ELSE NORMAL_PRIORITY]]
  BY DEF NewChunkManager
<1> HIDE DEF m
<1>2. 0 \in {Cardinality(T) : T \in SUBSET Chunks}
  BY FS_EmptySet
<1>3. m \in Cmans
  <2>1. [c \in Chunks |-> IF c \in S THEN PREVIEW_PRIORITY ELSE NORMAL_PRIORITY] \in [Chunks -> Levels]
    BY DEF Levels
  <2> QED
    BY <1>1, <1>2, <2>1 DEF Cmans
<1>4. \A c \in Chunks : /\ m.status[c] = "NOT_DOWNLOADED" /\ m.cprio[c] \in {40, 60} /\ c \in m.todo
                        /\ c \notin m.bitset /\ c \notin m.excluded /\ c \notin m.only_seed
  BY <1>1
<1>5. m.recalc /\ m.bitset = {}
  BY <1>1
<1>6. p \in PriorityMaps /\ d \in Downs /\ d.current = {} /\ d.chunks = Chunks
  BY DEF PriorityMaps, Downs
<1>7. Statuses(m, d) /\ Marked(m) /\ SetsAgree(m) /\ Offered(m, d) /\ Fresh(m)
  BY <1>4, <1>5, <1>6 DEF Statuses, Marked, SetsAgree, Offered, Fresh
<1>8. Wishes(m, p)
  <2>1. \A c \in Chunks : \A g \in FilesOf(c) : p[g] = NORMAL_PRIORITY
    BY DEF FilesOf
  <2> QED
    BY <1>4, <2>1 DEF Wishes
<1> QED
  BY <1>3, <1>5, <1>6, <1>7, <1>8 DEF Consistent, m

\* The invariant holds of a torrent that has just been added
LEMMA InitInvariant ==
    ASSUME Init
    PROVE  IInv
<1>1. Layout
  BY LayoutOfFiles DEF Init
<1>2. /\ priority = [f \in Files |-> NORMAL_PRIORITY] /\ file_priority = priority /\ loading = 0
      /\ cman = NewChunkManager /\ down = [current |-> {}, chunks |-> Chunks]
      /\ cache = [f \in Files |-> EmptyFile] /\ index_file = {} /\ current_file = {}
      /\ running = FALSE /\ check = {} /\ outdated = {} /\ absent = {}
  BY DEF Init
<1>3. /\ cman \in Cmans /\ down \in Downs /\ priority \in PriorityMaps /\ cman.bitset = {}
      /\ Consistent(cman, down, priority) /\ Offered(cman, down) /\ Fresh(cman)
  BY <1>2, NewChunkManagerIsConsistent
<1>4. cache \in DiskCaches /\ \A f \in Files : cache[f] = EmptyFile
  BY <1>2 DEF DiskCaches, EmptyFile, Part
<1>5. TypeOK
  <2>1. loading \in 0 .. Len(torrent) + 1 /\ absent \subseteq Files
    BY <1>1, <1>2 DEF Layout
  <2> QED
    BY <1>2, <1>3, <1>4, <2>1 DEF TypeOK, PriorityMaps, Cmans, Downs, DiskCaches, Levels
<1>6. DiskOf(cache, file_priority, absent)
  BY <1>2, <1>4 DEF DiskOf, EmptyFile, EXCLUDED, NORMAL_PRIORITY
<1>7. PhaseOf(loading, priority, file_priority, cman, down, running, check, outdated)
  BY <1>2 DEF PhaseOf
<1>8. HaveIsStored
  BY <1>3 DEF HaveIsStored
<1> QED
  BY <1>1, <1>3, <1>5, <1>6, <1>7, <1>8 DEF IInv

-----------------------------------------------------------------------------
(* What the files hold *)

\* What a cache has of one file
DiskFile == [where : {"output", "dnd"}, parts : SUBSET Nat, first : Part, last : Part]

\* A file whose selection changes has an output file or a .dnd file, and no foreign parts
LEMMA NewCacheFileType ==
    ASSUME Layout, NEW f \in Files, NEW download \in BOOLEAN,
           NEW d \in [where : {"output", "dnd", "missing"}, parts : SUBSET Nat, first : Part, last : Part]
    PROVE  /\ NewCacheFile(d, f, download) \in DiskFile
           /\ NewCacheFile(d, f, download).where = IF download THEN "output" ELSE "dnd"
           /\ d.parts \subseteq ChunksOf(f) => NewCacheFile(d, f, download).parts \subseteq ChunksOf(f)
<1>1. ToDND(d, f) \in DiskFile /\ ToDND(d, f).where = "dnd" /\ ToDND(d, f).parts = {}
  BY DEF ToDND, Quality, Part, DiskFile
<1>2. /\ FromDND(d, f) \in DiskFile /\ FromDND(d, f).where = "output"
      /\ FromDND(d, f).parts \subseteq ChunksOf(f)
  <2> DEFINE P == {c \in ChunksOf(f) : \/ c = torrent[f].first /\ ReadFirstChunk(d)
                                       \/ c = torrent[f].last /\ c # torrent[f].first /\ ReadLastChunk(d)}
  <2>1. P \in SUBSET Nat /\ P \subseteq ChunksOf(f)
    BY ChunksAreShared
  <2>2. FromDND(d, f) = [EmptyFile EXCEPT !.parts = P]
    BY DEF FromDND
  <2> HIDE DEF P
  <2> QED
    BY <2>1, <2>2 DEF EmptyFile, Part, DiskFile
<1>3. CASE download
  <2>1. NewCacheFile(d, f, download) = IF d.where # "output" THEN FromDND(d, f) ELSE d
    BY <1>3 DEF NewCacheFile
  <2> QED
    BY <1>2, <1>3, <2>1 DEF DiskFile
<1>4. CASE ~download
  <2>1. NewCacheFile(d, f, download) = IF d.where # "dnd" THEN ToDND(d, f) ELSE d
    BY <1>4 DEF NewCacheFile
  <2> QED
    BY <1>1, <1>4, <2>1 DEF DiskFile
<1> QED
  BY <1>3, <1>4

\* Where a part of a chunk is read
LEMMA PartsRead ==
    ASSUME NEW k \in DiskCaches, NEW f \in Files, NEW c
    PROVE  /\ k[f].where \in {"output", "dnd"}
           /\ k[f].where = "output" => (PartIsGood(k, c, f) <=> c \in k[f].parts)
           /\ k[f].where = "dnd" =>
                 (PartIsGood(k, c, f) <=> /\ ~InOneFile(c)
                                          /\ IsFirst(f, c) => k[f].last = "good"
                                          /\ ~IsFirst(f, c) => k[f].first = "good")
           /\ \A l \in DiskCaches : l[f] = k[f] => (PartIsGood(l, c, f) <=> PartIsGood(k, c, f))
<1>1. \A l \in DiskCaches : l[f].where \in {"output", "dnd"}
  BY DEF DiskCaches
<1> QED
  BY <1>1 DEF PartIsGood, ReadFirstChunk, ReadLastChunk

\* A change of the selection keeps what the bitset promises: the borders of the file go to
\* the .dnd file and back
LEMMA SelectionKeepsStored ==
    ASSUME Layout, NEW k \in DiskCaches, NEW l \in DiskCaches, NEW f \in Files,
           NEW download \in BOOLEAN,
           \A g \in Files \ {f} : l[g] = k[g], l[f] = NewCacheFile(k[f], f, download),
           NEW m, NEW n, m.bitset \subseteq Chunks, n.bitset \subseteq m.bitset,
           ~download => \A c \in ChunksOf(f) : InOneFile(c) => c \notin n.bitset,
           NEW o, NEW a, StoredIn(k, m, o, a)
    PROVE  StoredIn(l, n, o \cap n.bitset, a \ {g \in {f} : torrent[g].last \notin n.bitset})
<1> DEFINE b == a \ {g \in {f} : torrent[g].last \notin n.bitset}
<1> SUFFICES ASSUME NEW c \in n.bitset, ~SmallHead(c), ~Overrun(c), ~AfterOverrun(c), c \notin o,
                    ~(Shared(c) /\ \E e \in b : IsFirst(e, c))
             PROVE  ChunkIsGood(l, c)
  BY DEF StoredIn
<1>1. c \in Chunks /\ \A g \in FilesOf(c) : g \in Files /\ c \in ChunksOf(g)
  BY ChunksAreShared
<1>2. ~(Shared(c) /\ \E e \in a : IsFirst(e, c))
  <2> SUFFICES ASSUME Shared(c), NEW e \in a, IsFirst(e, c) PROVE e \in b
    OBVIOUS
  <2>1. e \in FilesOf(c)
    BY DEF IsFirst
  <2>2. c = torrent[e].last
    BY <2>1, BorderChunks
  <2> QED
    BY <2>2
<1>3. ChunkIsGood(k, c)
  BY <1>2 DEF StoredIn
<1>4. ASSUME NEW g \in FilesOf(c) PROVE PartIsGood(l, c, g)
  <2>1. g \in Files /\ c \in ChunksOf(g) /\ PartIsGood(k, c, g)
    BY <1>1, <1>3 DEF ChunkIsGood
  <2>2. CASE l[g] = k[g]
    BY <2>1, <2>2, PartsRead
  <2>3. CASE g = f /\ ~download /\ k[f].where # "dnd"
    <3>1. l[f] = ToDND(k[f], f)
      BY <2>3 DEF NewCacheFile
    <3>2. k[f].where = "output" /\ c \in k[f].parts
      BY <2>1, <2>3, PartsRead
    <3>3. ~InOneFile(c) /\ Shared(c)
      BY <1>1, <2>1, <2>3, ChunksAreShared
    <3>4. /\ IsFirst(f, c) => c = torrent[f].last
          /\ ~IsFirst(f, c) => c = torrent[f].first
      BY <2>3, <3>3, BorderChunks
    <3>5. /\ l[f].where = "dnd" /\ l[f].first = Quality(torrent[f].first \in k[f].parts)
          /\ torrent[f].first # torrent[f].last => l[f].last = Quality(torrent[f].last \in k[f].parts)
      BY <3>1, <3>2 DEF ToDND
    <3>6. IsFirst(f, c) => torrent[f].first # torrent[f].last
      BY <2>3, <3>3 DEF SmallHead
    <3> QED
      BY <2>3, <3>2, <3>3, <3>4, <3>5, <3>6, PartsRead DEF Quality
  <2>4. CASE g = f /\ download /\ k[f].where # "output"
    <3>1. l[f] = FromDND(k[f], f)
      BY <2>4 DEF NewCacheFile
    <3>2. k[f].where = "dnd"
      BY <2>4, PartsRead
    <3>3. /\ ~InOneFile(c) /\ Shared(c)
          /\ IsFirst(f, c) => k[f].last = "good"
          /\ ~IsFirst(f, c) => k[f].first = "good"
      BY <1>1, <2>1, <2>4, <3>2, PartsRead, ChunksAreShared
    <3>4. /\ IsFirst(f, c) => c = torrent[f].last /\ c # torrent[f].first
          /\ ~IsFirst(f, c) => c = torrent[f].first
      BY <2>4, <3>3, BorderChunks DEF SmallHead
    <3>5. l[f].where = "output" /\ c \in l[f].parts
      BY <2>1, <2>4, <3>1, <3>3, <3>4 DEF FromDND, EmptyFile, ReadFirstChunk, ReadLastChunk
    <3> QED
      BY <2>4, <3>5, PartsRead
  <2>5. g # f => l[g] = k[g]
    BY <2>1
  <2>6. g = f /\ ~(~download /\ k[f].where # "dnd") /\ ~(download /\ k[f].where # "output") => l[g] = k[g]
    BY DEF NewCacheFile
  <2> QED
    BY <2>2, <2>3, <2>4, <2>5, <2>6
<1> QED
  BY <1>4 DEF ChunkIsGood

\* save writes a part of the chunk to each of its files, and to no other
LEMMA SaveEffect ==
    ASSUME Layout, NEW k \in DiskCaches, NEW c \in Chunks
    PROVE  LET l == Save(k, c)
           IN  /\ l \in DiskCaches
               /\ \A f \in Files :
                     /\ f \notin FilesOf(c) => l[f] = k[f]
                     /\ f \in FilesOf(c) /\ k[f].where = "output" =>
                           /\ l[f].where = "output" /\ l[f].parts = k[f].parts \cup {c}
                           /\ l[f].first = k[f].first /\ l[f].last = k[f].last
                     /\ f \in FilesOf(c) /\ k[f].where = "dnd" /\ IsFirst(f, c) =>
                           /\ l[f].where = "dnd" /\ l[f].parts = k[f].parts /\ l[f].first = k[f].first
                           /\ l[f].last = Quality(c = torrent[f].last)
                     /\ f \in FilesOf(c) /\ k[f].where = "dnd" /\ ~IsFirst(f, c) =>
                           /\ l[f].where = "dnd" /\ l[f].parts = k[f].parts /\ l[f].first = "good"
                           /\ k[f].first # "none" => l[f].last = k[f].last
<1>1. Save(k, c) = [f \in Files |-> IF f \in FilesOf(c) THEN SavePart(k[f], c, f) ELSE k[f]]
  BY DEF Save
<1>2. c \in Nat
  BY ChunksAreShared
<1>3. ASSUME NEW f \in Files, f \in FilesOf(c)
      PROVE  /\ SavePart(k[f], c, f) \in DiskFile
             /\ k[f].where = "output" =>
                   /\ SavePart(k[f], c, f).where = "output"
                   /\ SavePart(k[f], c, f).parts = k[f].parts \cup {c}
                   /\ SavePart(k[f], c, f).first = k[f].first /\ SavePart(k[f], c, f).last = k[f].last
             /\ k[f].where = "dnd" /\ IsFirst(f, c) =>
                   /\ SavePart(k[f], c, f).where = "dnd" /\ SavePart(k[f], c, f).parts = k[f].parts
                   /\ SavePart(k[f], c, f).first = k[f].first
                   /\ SavePart(k[f], c, f).last = Quality(c = torrent[f].last)
             /\ k[f].where = "dnd" /\ ~IsFirst(f, c) =>
                   /\ SavePart(k[f], c, f).where = "dnd" /\ SavePart(k[f], c, f).parts = k[f].parts
                   /\ SavePart(k[f], c, f).first = "good"
                   /\ k[f].first # "none" => SavePart(k[f], c, f).last = k[f].last
  <2> DEFINE d == k[f]
  <2>1. d \in DiskFile /\ d.where \in {"output", "dnd"}
    BY DEF DiskCaches, DiskFile
  <2>2. CASE d.where = "output"
    <3>1. SavePart(d, c, f) = [d EXCEPT !.parts = @ \cup {c}]
      BY <2>2 DEF SavePart
    <3> QED
      BY <1>2, <2>1, <2>2, <3>1 DEF DiskFile
  <2>3. CASE d.where = "dnd" /\ IsFirst(f, c)
    <3>1. SavePart(d, c, f) = [d EXCEPT !.last = Quality(c = torrent[f].last)]
      BY <2>3 DEF SavePart, WriteLastChunk
    <3>2. Quality(c = torrent[f].last) \in Part
      BY DEF Quality, Part
    <3> QED
      BY <2>1, <2>3, <3>1, <3>2 DEF DiskFile
  <2>4. CASE d.where = "dnd" /\ ~IsFirst(f, c)
    <3>1. SavePart(d, c, f) =
             [d EXCEPT !.first = "good", !.last = IF d.first = "none" /\ @ # "none" THEN "bad" ELSE @]
      BY <2>4 DEF SavePart, WriteFirstChunk
    <3> QED
      BY <2>1, <2>4, <3>1 DEF DiskFile, Part
  <2> HIDE DEF d
  <2> QED
    BY <2>1, <2>2, <2>3, <2>4 DEF d
<1>4. Save(k, c) \in DiskCaches
  <2>1. \A f \in Files : k[f] \in DiskFile
    BY DEF DiskCaches, DiskFile
  <2> QED
    BY <1>1, <1>3, <2>1 DEF DiskCaches, DiskFile
<1>5. \A f \in Files : Save(k, c)[f] = IF f \in FilesOf(c) THEN SavePart(k[f], c, f) ELSE k[f]
  BY <1>1
<1> QED
  BY <1>3, <1>4, <1>5

\* Saving a chunk keeps what the bitset promises, and adds this chunk
LEMMA SaveKeepsStored ==
    ASSUME Layout, NEW k \in DiskCaches, NEW c \in Chunks, NEW saved, NEW m, NEW n, NEW o, NEW a,
           m.bitset \subseteq Chunks, n.bitset = m.bitset \cup {c},
           DiskOf(k, saved, a), StoredIn(k, m, o, a),
           \A f \in FilesOf(c) : InOneFile(c) /\ k[f].where = "dnd" => Overrun(c)
    PROVE  /\ Save(k, c) \in DiskCaches
           /\ DiskOf(Save(k, c), saved, a) /\ StoredIn(Save(k, c), n, o, a)
<1> DEFINE l == Save(k, c)
<1>1. /\ \A f \in FilesOf(c) : f \in Files /\ c \in ChunksOf(f)
      /\ \A e \in Chunks : InOneFile(e) \/ Shared(e)
  BY ChunksAreShared
<1>2. l \in DiskCaches
  BY SaveEffect
<1>3. \A f \in Files : k[f].where \in {"output", "dnd"}
  BY DEF DiskCaches
<1>4. \A f \in Files : f \notin FilesOf(c) => l[f] = k[f]
  BY SaveEffect
<1>5. \A f \in FilesOf(c) : k[f].where = "output" =>
         l[f].where = "output" /\ l[f].parts = k[f].parts \cup {c}
  BY <1>1, SaveEffect
<1>6. \A f \in FilesOf(c) : k[f].where = "dnd" /\ IsFirst(f, c) =>
         /\ l[f].where = "dnd" /\ l[f].parts = k[f].parts /\ l[f].first = k[f].first
         /\ l[f].last = Quality(c = torrent[f].last)
  BY <1>1, SaveEffect
<1>7. \A f \in FilesOf(c) : k[f].where = "dnd" /\ ~IsFirst(f, c) =>
         /\ l[f].where = "dnd" /\ l[f].parts = k[f].parts /\ l[f].first = "good"
         /\ k[f].first # "none" => l[f].last = k[f].last
  BY <1>1, SaveEffect
<1> HIDE DEF l
<1>8. DiskOf(l, saved, a)
  <2> SUFFICES ASSUME NEW f \in Files
               PROVE  /\ l[f].where = "dnd" <=> saved[f] = EXCLUDED
                      /\ l[f].where = "dnd" /\ f \notin a => l[f].first # "none"
                      /\ l[f].parts \subseteq ChunksOf(f)
    BY DEF DiskOf
  <2>1. /\ k[f].where = "dnd" <=> saved[f] = EXCLUDED
        /\ k[f].where = "dnd" /\ f \notin a => k[f].first # "none"
        /\ k[f].parts \subseteq ChunksOf(f)
    BY DEF DiskOf
  <2> QED
    BY <1>1, <1>3, <1>4, <1>5, <1>6, <1>7, <2>1
<1>9. StoredIn(l, n, o, a)
  <2> SUFFICES ASSUME NEW e \in n.bitset, ~SmallHead(e), ~Overrun(e), ~AfterOverrun(e), e \notin o,
                      ~(Shared(e) /\ \E f \in a : IsFirst(f, e)), NEW f \in FilesOf(e)
               PROVE  PartIsGood(l, e, f)
    BY DEF StoredIn, ChunkIsGood
  <2>1. e \in Chunks /\ f \in Files /\ e \in ChunksOf(f)
    BY ChunksAreShared
  <2>2. CASE e = c
    <3>1. CASE k[f].where = "output"
      BY <1>2, <1>5, <2>1, <2>2, <3>1, PartsRead
    <3>2. CASE k[f].where = "dnd"
      <4>1. ~InOneFile(c) /\ Shared(c)
        BY <1>1, <2>2, <3>2
      <4>2. IsFirst(f, c) => c = torrent[f].last
        BY <2>2, <4>1, BorderChunks
      <4>3. /\ l[f].where = "dnd" /\ (~IsFirst(f, c) => l[f].first = "good")
            /\ (IsFirst(f, c) => l[f].last = Quality(c = torrent[f].last))
        BY <1>6, <1>7, <2>2, <3>2
      <4> QED
        BY <1>2, <2>1, <2>2, <4>1, <4>2, <4>3, PartsRead DEF Quality
    <3> QED
      BY <1>3, <2>1, <3>1, <3>2
  <2>3. CASE e # c
    <3>1. PartIsGood(k, e, f)
      BY <2>3 DEF StoredIn, ChunkIsGood
    <3>2. CASE f \notin FilesOf(c)
      BY <1>2, <1>4, <2>1, <3>1, <3>2, PartsRead
    <3>3. CASE f \in FilesOf(c) /\ k[f].where = "output"
      <4>1. e \in k[f].parts
        BY <2>1, <3>1, <3>3, PartsRead
      <4> QED
        BY <1>2, <1>5, <2>1, <3>3, <4>1, PartsRead
    <3>4. CASE f \in FilesOf(c) /\ k[f].where = "dnd"
      <4>1. /\ ~InOneFile(e) /\ Shared(e)
            /\ IsFirst(f, e) => k[f].last = "good"
            /\ ~IsFirst(f, e) => k[f].first = "good"
        BY <1>1, <2>1, <3>1, <3>4, PartsRead
      <4>2. IsFirst(f, e) => e = torrent[f].last
        BY <4>1, BorderChunks
      <4>3. CASE IsFirst(f, c)
        <5>1. /\ l[f].where = "dnd" /\ l[f].first = k[f].first
          BY <1>6, <3>4, <4>3
        <5>2. ~IsFirst(f, e)
          <6> SUFFICES ASSUME IsFirst(f, e) PROVE FALSE
            OBVIOUS
          <6>1. ~Shared(c)
            BY <2>3, <3>4, <4>2, <4>3, BorderChunks
          <6>2. Overrun(c) /\ c \in ChunksOf(f)
            BY <1>1, <3>4, <6>1
          <6> QED
            BY <2>1, <6>2 DEF AfterOverrun
        <5> QED
          BY <1>2, <2>1, <4>1, <5>1, <5>2, PartsRead
      <4>4. CASE ~IsFirst(f, c)
        <5>1. /\ l[f].where = "dnd" /\ l[f].first = "good" /\ (k[f].first # "none" => l[f].last = k[f].last)
          BY <1>7, <3>4, <4>4
        <5>2. IsFirst(f, e) => k[f].first # "none"
          BY <2>1, <3>4, <4>1 DEF DiskOf
        <5> QED
          BY <1>2, <2>1, <4>1, <5>1, <5>2, PartsRead
      <4> QED
        BY <4>3, <4>4
    <3> QED
      BY <1>3, <2>1, <3>2, <3>3, <3>4
  <2> QED
    BY <2>2, <2>3
<1> QED
  BY <1>2, <1>8, <1>9 DEF l

-----------------------------------------------------------------------------
(* The steps *)

\* A change of the status or the count only
LEMMA SameSelection ==
    ASSUME NEW m \in Cmans, NEW n \in Cmans, n.cprio = m.cprio, n.bitset = m.bitset,
           n.excluded = m.excluded, n.only_seed = m.only_seed, n.todo = m.todo
    PROVE  /\ Marked(m) => Marked(n)
           /\ SetsAgree(m) => SetsAgree(n)
           /\ \A p : Wishes(m, p) => Wishes(n, p)
           /\ n.recalc = m.recalc /\ n.left = m.left /\ Fresh(m) => Fresh(n)
<1>1. LeftSet(n) = LeftSet(m)
  BY DEF LeftSet, Excluded
<1>2. n.recalc = m.recalc /\ n.left = m.left /\ Fresh(m) => Fresh(n)
  BY <1>1 DEF Fresh
<1> QED
  BY <1>2 DEF Marked, SetsAgree, Wishes

\* The user deselects, selects or prioritises a file
LEMMA ChangePriorityKeeps ==
    ASSUME IInv, NEW f \in Files, NEW new \in Priorities, ChangePriority(f, new)
    PROVE  IInv'
<1> DEFINE v == SetPriority(World, priority, f, new)
           q == [priority EXCEPT ![f] = new]
           download == new # EXCLUDED
<1>1. /\ priority \in PriorityMaps /\ cache \in DiskCaches /\ cman \in Cmans
      /\ index_file \subseteq Chunks /\ current_file \subseteq Chunks /\ outdated \subseteq Chunks
      /\ loading \in 0 .. Len(torrent) + 1 /\ absent \subseteq Files
      /\ StoredIn(cache, cman, outdated, absent)
      /\ World \in Worlds /\ World.cman = cman /\ World.down = down /\ World.cache = cache
  BY InvariantTypes
<1>2. /\ Layout /\ Consistent(cman, down, priority) /\ Offered(cman, down) /\ Fresh(cman)
      /\ DiskOf(cache, file_priority, absent)
      /\ PhaseOf(loading, priority, file_priority, cman, down, running, check, outdated)
  BY DEF IInv
<1>3. /\ loading = 0 /\ priority[f] # new /\ file_priority = priority
      /\ cman' = v.cman /\ down' = v.down /\ cache' = v.cache
      /\ priority' = q /\ file_priority' = q
      /\ outdated' = outdated \cap cman'.bitset
      /\ absent' = absent \ {g \in {f} : torrent[g].last \notin cman'.bitset}
      /\ torrent' = torrent /\ loading' = loading /\ index_file' = index_file
      /\ current_file' = current_file /\ running' = running /\ check' = check
  BY <1>2 DEF ChangePriority, Commit, PhaseOf
<1>4. /\ v \in Worlds /\ Consistent(v.cman, v.down, q) /\ Offered(v.cman, v.down) /\ Fresh(v.cman)
      /\ v.cman.bitset \subseteq cman.bitset /\ v.down.current \subseteq down.current
      /\ \A g \in Files \ {f} : v.cache[g] = cache[g]
      /\ v.cache[f] = IF new = EXCLUDED \/ priority[f] = EXCLUDED
                      THEN NewCacheFile(cache[f], f, download) ELSE cache[f]
      /\ ~download => \A c \in ChunksOf(f) : InOneFile(c) => c \notin v.cman.bitset
  <2>1. /\ v \in Worlds /\ Consistent(v.cman, v.down, q) /\ Offered(v.cman, v.down) /\ Fresh(v.cman)
        /\ v.cman.bitset \subseteq World.cman.bitset /\ v.down.current \subseteq World.down.current
        /\ \A g \in Files \ {f} : v.cache[g] = World.cache[g]
        /\ v.cache[f] = IF new = EXCLUDED \/ priority[f] = EXCLUDED
                        THEN NewCacheFile(World.cache[f], f, new # EXCLUDED) ELSE World.cache[f]
        /\ new = EXCLUDED => \A c \in ChunksOf(f) : InOneFile(c) => c \notin v.cman.bitset
    <3>1. /\ new \in Priorities \cup {NORMAL_PRIORITY} /\ Consistent(World.cman, World.down, priority)
          /\ Offered(World.cman, World.down) /\ Fresh(World.cman)
      BY <1>1, <1>2
    <3> QED
      BY <1>1, <1>2, <1>3, <3>1, SetPriorityEffect
  <2> QED
    BY <1>1, <2>1
<1>5. q \in PriorityMaps /\ q[f] = new /\ \A g \in Files \ {f} : q[g] = priority[g]
  BY <1>1 DEF PriorityMaps
<1> HIDE DEF v, q
<1>6. /\ \A g \in Files : cache[g] \in DiskFile
      /\ cache[f].where = "dnd" <=> priority[f] = EXCLUDED
      /\ cache[f].where = "output" <=> priority[f] # EXCLUDED
  BY <1>1, <1>2, <1>3 DEF DiskCaches, DiskFile, DiskOf
<1>7. v.cache[f] = NewCacheFile(cache[f], f, download)
  <2>1. new # EXCLUDED /\ priority[f] # EXCLUDED => NewCacheFile(cache[f], f, download) = cache[f]
    BY <1>6 DEF NewCacheFile
  <2> QED
    BY <1>4, <2>1
<1>8. /\ v.cache[f] \in DiskFile /\ v.cache[f].where = IF download THEN "output" ELSE "dnd"
      /\ v.cache[f].parts \subseteq ChunksOf(f)
  <2>1. cache[f] \in [where : {"output", "dnd", "missing"}, parts : SUBSET Nat, first : Part, last : Part]
    BY <1>6 DEF DiskFile
  <2>2. cache[f].parts \subseteq ChunksOf(f) /\ download \in BOOLEAN
    BY <1>2 DEF DiskOf
  <2> QED
    BY <1>2, <1>7, <2>1, <2>2, NewCacheFileType
<1>9. cache' \in DiskCaches
  <2>1. v.cache \in Caches
    BY <1>4 DEF Worlds
  <2>2. \A g \in Files : v.cache[g] \in DiskFile
    BY <1>4, <1>6, <1>8
  <2> QED
    BY <1>3, <2>1, <2>2 DEF Caches, DiskCaches, DiskFile
<1>10. StoredIn(cache', cman', outdated', absent')
  <2>1. cman.bitset \subseteq Chunks /\ download \in BOOLEAN
    BY <1>1 DEF Cmans
  <2> HIDE DEF download
  <2> QED
    BY <1>1, <1>2, <1>3, <1>4, <1>7, <1>9, <2>1, SelectionKeepsStored
<1>11. DiskOf(cache', file_priority', absent')
  <2> SUFFICES ASSUME NEW g \in Files
               PROVE  /\ v.cache[g].where = "dnd" <=> q[g] = EXCLUDED
                      /\ v.cache[g].where = "dnd" /\ g \notin absent' => v.cache[g].first # "none"
                      /\ v.cache[g].parts \subseteq ChunksOf(g)
    BY <1>3 DEF DiskOf
  <2>1. CASE g # f
    BY <1>2, <1>3, <1>4, <1>5, <2>1 DEF DiskOf
  <2>2. CASE g = f
    <3>1. v.cache[f].where = "dnd" <=> new = EXCLUDED
      BY <1>8
    <3>2. new = EXCLUDED => v.cache[f].first # "none"
      <4> SUFFICES ASSUME new = EXCLUDED PROVE v.cache[f].first # "none"
        OBVIOUS
      <4>1. cache[f].where = "output"
        BY <1>3, <1>6
      <4>2. v.cache[f] = ToDND(cache[f], f)
        BY <1>7, <4>1 DEF NewCacheFile
      <4> QED
        BY <4>1, <4>2 DEF ToDND, Quality
    <3> QED
      BY <1>5, <1>8, <2>2, <3>1, <3>2
  <2> QED
    BY <2>1, <2>2
<1>12. PhaseOf(loading', priority', file_priority', cman', down', running', check', outdated')
  BY <1>2, <1>3, <1>4 DEF PhaseOf
<1>13. /\ cman' \in Cmans /\ down' \in Downs /\ Consistent(cman', down', priority')
       /\ Offered(cman', down') /\ Fresh(cman') /\ priority' \in PriorityMaps /\ file_priority' \in PriorityMaps
       /\ outdated' \subseteq Chunks /\ absent' \subseteq Files
  BY <1>1, <1>3, <1>4, <1>5 DEF Worlds
<1> HIDE DEF download
<1> QED
  BY <1>1, <1>2, <1>3, <1>9, <1>10, <1>11, <1>12, <1>13, NextInvariant

\* A chunk that is offered is not in the bitset, and is BUFFERED from now on
LEMMA StartDownloadKeeps ==
    ASSUME IInv, NEW c \in Chunks, StartDownload(c)
    PROVE  IInv'
<1>1. /\ priority \in PriorityMaps /\ file_priority \in PriorityMaps /\ cache \in DiskCaches
      /\ cman \in Cmans /\ down \in Downs
      /\ index_file \subseteq Chunks /\ current_file \subseteq Chunks /\ outdated \subseteq Chunks
      /\ loading \in 0 .. Len(torrent) + 1 /\ absent \subseteq Files
      /\ StoredIn(cache, cman, outdated, absent)
  BY InvariantTypes
<1>2. /\ Layout /\ Consistent(cman, down, priority) /\ Offered(cman, down) /\ Fresh(cman)
      /\ DiskOf(cache, file_priority, absent)
      /\ PhaseOf(loading, priority, file_priority, cman, down, running, check, outdated)
  BY DEF IInv
<1>3. /\ running /\ c \in down.chunks \ (cman.bitset \cup down.current)
      /\ cman.status[c] = "NOT_DOWNLOADED"
      /\ cman' = [cman EXCEPT !.status[c] = "BUFFERED"]
      /\ down' = [current |-> down.current \cup {c}, chunks |-> down.chunks \ cman.bitset]
      /\ torrent' = torrent /\ priority' = priority /\ file_priority' = file_priority
      /\ loading' = loading /\ cache' = cache /\ index_file' = index_file
      /\ current_file' = current_file /\ running' = running /\ check' = check
      /\ outdated' = outdated /\ absent' = absent
  BY DEF StartDownload
<1>4. /\ cman' \in Cmans /\ down' \in Downs
      /\ cman'.status = [cman.status EXCEPT ![c] = "BUFFERED"]
      /\ cman'.cprio = cman.cprio /\ cman'.bitset = cman.bitset /\ cman'.excluded = cman.excluded
      /\ cman'.only_seed = cman.only_seed /\ cman'.todo = cman.todo
      /\ cman'.recalc = cman.recalc /\ cman'.left = cman.left
      /\ down'.current = down.current \cup {c} /\ down'.chunks = down.chunks \ cman.bitset
  BY <1>1, <1>3 DEF Cmans, Downs
<1>5. cman.status \in [Chunks -> {"NOT_DOWNLOADED", "BUFFERED", "ON_DISK"}]
  BY <1>1 DEF Cmans
<1>6. Statuses(cman', down')
  BY <1>2, <1>3, <1>4, <1>5 DEF Consistent, Statuses
<1>7. Offered(cman', down')
  BY <1>2, <1>3, <1>4, <1>5 DEF Offered
<1>8. Consistent(cman', down', priority') /\ Fresh(cman')
  <2>1. Marked(cman') /\ SetsAgree(cman') /\ Wishes(cman', priority) /\ Fresh(cman')
    BY <1>1, <1>2, <1>4, SameSelection DEF Consistent
  <2>2. priority' = priority
    BY <1>3
  <2> QED
    BY <1>6, <2>1, <2>2 DEF Consistent
<1>9. PhaseOf(loading', priority', file_priority', cman', down', running', check', outdated')
  BY <1>2, <1>3, <1>4 DEF PhaseOf
<1>10. StoredIn(cache', cman', outdated', absent')
  BY <1>1, <1>3, <1>4 DEF StoredIn
<1> QED
  BY <1>1, <1>2, <1>3, <1>4, <1>7, <1>8, <1>9, <1>10, NextInvariant

\* A chunk that is complete is saved in all of its files before it enters the bitset
LEMMA FinishChunkKeeps ==
    ASSUME IInv, NEW c \in Chunks, FinishChunk(c)
    PROVE  IInv'
<1>1. /\ priority \in PriorityMaps /\ file_priority \in PriorityMaps /\ cache \in DiskCaches
      /\ cman \in Cmans /\ down \in Downs
      /\ index_file \subseteq Chunks /\ current_file \subseteq Chunks /\ outdated \subseteq Chunks
      /\ loading \in 0 .. Len(torrent) + 1 /\ absent \subseteq Files
      /\ StoredIn(cache, cman, outdated, absent)
  BY InvariantTypes
<1>2. /\ Layout /\ Consistent(cman, down, priority) /\ Offered(cman, down) /\ Fresh(cman)
      /\ DiskOf(cache, file_priority, absent)
      /\ PhaseOf(loading, priority, file_priority, cman, down, running, check, outdated)
  BY DEF IInv
<1>3. /\ running /\ c \in down.current
      /\ down' = [down EXCEPT !.current = @ \ {c}]
      /\ torrent' = torrent /\ priority' = priority /\ file_priority' = file_priority
      /\ loading' = loading /\ current_file' = current_file /\ running' = running /\ check' = check
      /\ outdated' = outdated /\ absent' = absent
  BY DEF FinishChunk
<1>4. down' \in Downs /\ down'.current = down.current \ {c} /\ down'.chunks = down.chunks
  BY <1>1, <1>3 DEF Downs
<1>5. /\ cman.status \in [Chunks -> {"NOT_DOWNLOADED", "BUFFERED", "ON_DISK"}]
      /\ cman.bitset \subseteq Chunks /\ cman.todo \subseteq Chunks
  BY <1>1 DEF Cmans
<1>6. cman.status[c] = "BUFFERED" /\ c \notin cman.bitset /\ loading = 0
  BY <1>2, <1>3 DEF Consistent, Statuses, PhaseOf
<1>7. CASE Excluded(cman, c)
  <2>1. /\ cman' = [cman EXCEPT !.status[c] = "NOT_DOWNLOADED"] /\ cache' = cache
        /\ index_file' = index_file
    BY <1>7 DEF FinishChunk
  <2>2. /\ cman' \in Cmans /\ cman'.status = [cman.status EXCEPT ![c] = "NOT_DOWNLOADED"]
        /\ cman'.cprio = cman.cprio /\ cman'.bitset = cman.bitset /\ cman'.excluded = cman.excluded
        /\ cman'.only_seed = cman.only_seed /\ cman'.todo = cman.todo
        /\ cman'.recalc = cman.recalc /\ cman'.left = cman.left
    BY <1>1, <2>1 DEF Cmans
  <2>3. Statuses(cman', down')
    BY <1>2, <1>3, <1>4, <1>5, <1>6, <2>2 DEF Consistent, Statuses
  <2>4. Offered(cman', down')
    BY <1>2, <1>4, <1>5, <1>7, <2>2 DEF Offered, Excluded
  <2>5. Consistent(cman', down', priority') /\ Fresh(cman')
    BY <1>1, <1>2, <1>3, <2>2, <2>3, SameSelection DEF Consistent
  <2>6. PhaseOf(loading', priority', file_priority', cman', down', running', check', outdated')
    BY <1>2, <1>3, <1>4, <2>2 DEF PhaseOf
  <2>7. StoredIn(cache', cman', outdated', absent')
    BY <1>1, <1>3, <2>1, <2>2 DEF StoredIn
  <2> QED
    BY <1>1, <1>2, <1>3, <1>4, <2>1, <2>2, <2>4, <2>5, <2>6, <2>7, NextInvariant
<1>8. CASE ~Excluded(cman, c)
  <2>1. /\ cman' = [cman EXCEPT !.status[c] = "ON_DISK", !.bitset = @ \cup {c},
                                !.todo = @ \ {c}, !.recalc = TRUE]
        /\ cache' = Save(cache, c) /\ index_file' = index_file \cup {c}
    BY <1>8 DEF FinishChunk
  <2>2. /\ cman' \in Cmans /\ cman'.status = [cman.status EXCEPT ![c] = "ON_DISK"]
        /\ cman'.cprio = cman.cprio /\ cman'.bitset = cman.bitset \cup {c}
        /\ cman'.excluded = cman.excluded /\ cman'.only_seed = cman.only_seed
        /\ cman'.todo = cman.todo \ {c} /\ cman'.recalc
    BY <1>1, <1>5, <2>1 DEF Cmans
  <2>3. Statuses(cman', down')
    BY <1>2, <1>3, <1>4, <1>5, <1>6, <2>2 DEF Consistent, Statuses
  <2>4. Offered(cman', down')
    BY <1>2, <1>4, <1>5, <2>2 DEF Offered
  <2>5. Marked(cman') /\ SetsAgree(cman') /\ Fresh(cman')
    BY <1>2, <2>2 DEF Consistent, Marked, SetsAgree, Fresh
  <2>6. Wishes(cman', priority')
    BY <1>2, <1>3, <2>2 DEF Consistent, Wishes
  <2>7. PhaseOf(loading', priority', file_priority', cman', down', running', check', outdated')
    BY <1>2, <1>3, <1>4, <1>6 DEF PhaseOf
  <2>8. ASSUME NEW f \in FilesOf(c), InOneFile(c), cache[f].where = "dnd" PROVE Overrun(c)
    <3>1. f \in Files /\ priority[f] = EXCLUDED
      BY <1>2, <1>6, <2>8 DEF DiskOf, PhaseOf, FilesOf
    <3>2. FilesOf(c) = {f} /\ ~Shared(c)
      BY <2>8 DEF InOneFile, Shared
    <3>3. Odd(c)
      BY <1>2, <1>8, <3>1, <3>2 DEF Consistent, Wishes, Excluded
    <3> QED
      BY <3>2, <3>3 DEF Odd, Pinched
  <2>9. /\ cache' \in DiskCaches /\ DiskOf(cache', file_priority', absent')
        /\ StoredIn(cache', cman', outdated', absent')
    BY <1>1, <1>2, <1>3, <1>5, <2>1, <2>2, <2>8, SaveKeepsStored
  <2>10. index_file' \subseteq Chunks
    BY <1>1, <2>1
  <2> QED
    BY <1>1, <1>2, <1>3, <1>4, <2>2, <2>3, <2>4, <2>5, <2>6, <2>7, <2>9, <2>10, NextInvariant
       DEF Consistent
<1> QED
  BY <1>7, <1>8

\* A chunk that turns out to be corrupted leaves the bitset and is offered again
LEMMA GrabCorruptedKeeps ==
    ASSUME IInv, NEW c \in Chunks, GrabCorrupted(c)
    PROVE  IInv'
<1>1. /\ priority \in PriorityMaps /\ file_priority \in PriorityMaps /\ cache \in DiskCaches
      /\ cman \in Cmans /\ down \in Downs
      /\ current_file \subseteq Chunks /\ outdated \subseteq Chunks
      /\ loading \in 0 .. Len(torrent) + 1 /\ absent \subseteq Files
      /\ StoredIn(cache, cman, outdated, absent)
  BY InvariantTypes
<1>2. /\ Layout /\ Consistent(cman, down, priority) /\ Offered(cman, down) /\ Fresh(cman)
      /\ DiskOf(cache, file_priority, absent)
      /\ PhaseOf(loading, priority, file_priority, cman, down, running, check, outdated)
  BY DEF IInv
<1> DEFINE m == Reset(cman, {c})
<1>3. /\ running /\ cman.status[c] = "ON_DISK"
      /\ cman' = [m EXCEPT !.recalc = TRUE]
      /\ index_file' = SavedIndex(cman') /\ down' = [down EXCEPT !.chunks = @ \cup {c}]
      /\ outdated' = outdated \ {c}
      /\ torrent' = torrent /\ priority' = priority /\ file_priority' = file_priority
      /\ loading' = loading /\ cache' = cache
      /\ current_file' = current_file /\ running' = running /\ check' = check /\ absent' = absent
  BY DEF GrabCorrupted
<1>4. m \in Cmans /\ m.bitset = cman.bitset \ {c} /\ IsReset(cman, m, {c})
  BY <1>1, ResetEffect
<1> HIDE DEF m
<1>5. Marked(m)
  BY <1>1, <1>2, <1>4, MarkedIsKept DEF Consistent
<1>6. /\ cman' \in Cmans /\ cman'.status = m.status /\ cman'.cprio = m.cprio /\ cman'.bitset = m.bitset
      /\ cman'.excluded = m.excluded /\ cman'.only_seed = m.only_seed /\ cman'.todo = m.todo
      /\ cman'.recalc
  BY <1>3, <1>4 DEF Cmans
<1>7. down' \in Downs /\ down'.current = down.current /\ down'.chunks = down.chunks \cup {c}
  BY <1>1, <1>3 DEF Downs
<1>8. Statuses(cman', down')
  BY <1>2, <1>3, <1>4, <1>6, <1>7 DEF Consistent, Statuses, IsReset, Agree
<1>9. SetsAgree(cman')
  BY <1>2, <1>4, <1>6 DEF Consistent, SetsAgree, IsReset, Agree
<1>10. Offered(cman', down')
  BY <1>2, <1>4, <1>6, <1>7 DEF Offered, IsReset, Agree
<1>11. Wishes(cman', priority') /\ Marked(cman') /\ Fresh(cman')
  <2>1. \A e \in Chunks : cman'.cprio[e] = cman.cprio[e]
    BY <1>4, <1>6 DEF IsReset, Agree
  <2>2. Wishes(cman', priority')
    BY <1>2, <1>3, <2>1 DEF Consistent, Wishes
  <2> QED
    BY <1>5, <1>6, <2>2 DEF Marked, Fresh
<1>12. PhaseOf(loading', priority', file_priority', cman', down', running', check', outdated')
  BY <1>2, <1>3, <1>7 DEF PhaseOf
<1>13. StoredIn(cache', cman', outdated', absent')
  BY <1>1, <1>3, <1>4, <1>6 DEF StoredIn
<1>14. index_file' \subseteq Chunks /\ outdated' \subseteq Chunks
  BY <1>1, <1>3 DEF SavedIndex
<1> QED
  BY <1>1, <1>2, <1>3, <1>6, <1>7, <1>8, <1>9, <1>10, <1>11, <1>12, <1>13, <1>14, NextInvariant
     DEF Consistent

\* The timer counts the chunks that are left
LEMMA UpdateStatsKeeps ==
    ASSUME IInv, UpdateStats
    PROVE  IInv'
<1>1. /\ priority \in PriorityMaps /\ file_priority \in PriorityMaps /\ cache \in DiskCaches
      /\ cman \in Cmans /\ down \in Downs
      /\ index_file \subseteq Chunks /\ current_file \subseteq Chunks /\ outdated \subseteq Chunks
      /\ loading \in 0 .. Len(torrent) + 1 /\ absent \subseteq Files
      /\ StoredIn(cache, cman, outdated, absent)
  BY InvariantTypes
<1>2. /\ Layout /\ Consistent(cman, down, priority) /\ Offered(cman, down) /\ Fresh(cman)
      /\ DiskOf(cache, file_priority, absent)
      /\ PhaseOf(loading, priority, file_priority, cman, down, running, check, outdated)
  BY DEF IInv
<1>3. /\ cman' = ChunksLeft(cman) /\ down' = down
      /\ torrent' = torrent /\ priority' = priority /\ file_priority' = file_priority
      /\ loading' = loading /\ cache' = cache /\ index_file' = index_file
      /\ current_file' = current_file /\ running' = running /\ check' = check
      /\ outdated' = outdated /\ absent' = absent
  BY DEF UpdateStats
<1>4. /\ cman' \in Cmans /\ cman'.bitset = cman.bitset /\ Fresh(cman')
      /\ \A c : Agree(cman, cman', c)
  BY <1>1, <1>2, <1>3, ChunksLeftEffect
<1>5. Consistent(cman', down', priority') /\ Offered(cman', down')
  BY <1>2, <1>3, <1>4 DEF Consistent, Statuses, Marked, SetsAgree, Wishes, Offered, Agree
<1>6. PhaseOf(loading', priority', file_priority', cman', down', running', check', outdated')
  BY <1>2, <1>3, <1>4 DEF PhaseOf
<1>7. StoredIn(cache', cman', outdated', absent')
  BY <1>1, <1>3, <1>4 DEF StoredIn
<1> QED
  BY <1>1, <1>2, <1>3, <1>4, <1>5, <1>6, <1>7, NextInvariant

\* Stopping a torrent resets the chunks of its downloads
LEMMA StopKeeps ==
    ASSUME IInv, Stop
    PROVE  IInv'
<1>1. /\ priority \in PriorityMaps /\ file_priority \in PriorityMaps /\ cache \in DiskCaches
      /\ cman \in Cmans /\ down \in Downs
      /\ index_file \subseteq Chunks /\ current_file \subseteq Chunks /\ outdated \subseteq Chunks
      /\ loading \in 0 .. Len(torrent) + 1 /\ absent \subseteq Files
      /\ StoredIn(cache, cman, outdated, absent)
  BY InvariantTypes
<1>2. /\ Layout /\ Consistent(cman, down, priority) /\ Offered(cman, down) /\ Fresh(cman)
      /\ DiskOf(cache, file_priority, absent)
      /\ PhaseOf(loading, priority, file_priority, cman, down, running, check, outdated)
  BY DEF IInv
<1> DEFINE status == [c \in Chunks |-> IF c \in down.current THEN "NOT_DOWNLOADED" ELSE cman.status[c]]
<1>3. /\ running /\ running' = FALSE /\ current_file' = down.current
      /\ down' = [down EXCEPT !.current = {}] /\ cman' = [cman EXCEPT !.status = status]
      /\ torrent' = torrent /\ priority' = priority /\ file_priority' = file_priority
      /\ loading' = loading /\ cache' = cache /\ index_file' = index_file
      /\ check' = check /\ outdated' = outdated /\ absent' = absent
  BY DEF Stop
<1>4. /\ down' \in Downs /\ down'.current = {} /\ down'.chunks = down.chunks
      /\ current_file' \subseteq Chunks
  BY <1>1, <1>3 DEF Downs
<1>5. status \in [Chunks -> {"NOT_DOWNLOADED", "BUFFERED", "ON_DISK"}]
  BY <1>1 DEF Cmans
<1>6. \A c \in Chunks : status[c] = IF c \in down.current THEN "NOT_DOWNLOADED" ELSE cman.status[c]
  OBVIOUS
<1> HIDE DEF status
<1>7. /\ cman' \in Cmans /\ cman'.status = status
      /\ cman'.cprio = cman.cprio /\ cman'.bitset = cman.bitset /\ cman'.excluded = cman.excluded
      /\ cman'.only_seed = cman.only_seed /\ cman'.todo = cman.todo
      /\ cman'.recalc = cman.recalc /\ cman'.left = cman.left
  BY <1>1, <1>3, <1>5 DEF Cmans
<1>8. Statuses(cman', down') /\ Offered(cman', down')
  BY <1>2, <1>4, <1>6, <1>7 DEF Consistent, Statuses, Offered
<1>9. Marked(cman') /\ SetsAgree(cman') /\ Wishes(cman', priority) /\ Fresh(cman')
  BY <1>1, <1>2, <1>7, SameSelection DEF Consistent
<1>10. Consistent(cman', down', priority')
  BY <1>3, <1>8, <1>9 DEF Consistent
<1>11. PhaseOf(loading', priority', file_priority', cman', down', running', check', outdated')
  BY <1>2, <1>3, <1>4, <1>7 DEF PhaseOf
<1>12. StoredIn(cache', cman', outdated', absent')
  BY <1>1, <1>3, <1>7 DEF StoredIn
<1> QED
  BY <1>1, <1>2, <1>3, <1>4, <1>7, <1>8, <1>9, <1>10, <1>11, <1>12, NextInvariant

\* Starting a torrent goes on with the saved downloads only if they can be prepared
LEMMA StartKeeps ==
    ASSUME IInv, Start
    PROVE  IInv'
<1>1. /\ priority \in PriorityMaps /\ file_priority \in PriorityMaps /\ cache \in DiskCaches
      /\ cman \in Cmans /\ down \in Downs
      /\ index_file \subseteq Chunks /\ current_file \subseteq Chunks /\ outdated \subseteq Chunks
      /\ loading \in 0 .. Len(torrent) + 1 /\ absent \subseteq Files
      /\ StoredIn(cache, cman, outdated, absent)
  BY InvariantTypes
<1>2. /\ Layout /\ Consistent(cman, down, priority) /\ Offered(cman, down) /\ Fresh(cman)
      /\ DiskOf(cache, file_priority, absent)
      /\ PhaseOf(loading, priority, file_priority, cman, down, running, check, outdated)
  BY DEF IInv
<1> DEFINE back == IF completed THEN {}
                   ELSE {c \in current_file : cman.status[c] = "NOT_DOWNLOADED"}
           status == [c \in Chunks |-> IF c \in back THEN "BUFFERED" ELSE cman.status[c]]
<1>3. /\ ~running /\ loading = 0 /\ check = {}
      /\ down' = [down EXCEPT !.current = back] /\ cman' = [cman EXCEPT !.status = status]
      /\ torrent' = torrent /\ priority' = priority /\ file_priority' = file_priority
      /\ loading' = loading /\ cache' = cache /\ index_file' = index_file
      /\ current_file' = current_file /\ running' = TRUE
      /\ check' = check /\ outdated' = outdated /\ absent' = absent
  BY DEF Start
<1>4. back \subseteq Chunks /\ \A c \in back : cman.status[c] = "NOT_DOWNLOADED"
  BY <1>1
<1>5. status \in [Chunks -> {"NOT_DOWNLOADED", "BUFFERED", "ON_DISK"}]
  BY <1>1 DEF Cmans
<1>6. \A c \in Chunks : status[c] = IF c \in back THEN "BUFFERED" ELSE cman.status[c]
  OBVIOUS
<1> HIDE DEF back, status
<1>7. down' \in Downs /\ down'.current = back /\ down'.chunks = down.chunks /\ down.current = {}
  BY <1>1, <1>2, <1>3, <1>4 DEF Downs, PhaseOf
<1>8. /\ cman' \in Cmans /\ cman'.status = status
      /\ cman'.cprio = cman.cprio /\ cman'.bitset = cman.bitset /\ cman'.excluded = cman.excluded
      /\ cman'.only_seed = cman.only_seed /\ cman'.todo = cman.todo
      /\ cman'.recalc = cman.recalc /\ cman'.left = cman.left
  BY <1>1, <1>3, <1>5 DEF Cmans
<1>9. Statuses(cman', down') /\ Offered(cman', down')
  BY <1>2, <1>4, <1>6, <1>7, <1>8 DEF Consistent, Statuses, Offered
<1>10. Marked(cman') /\ SetsAgree(cman') /\ Wishes(cman', priority) /\ Fresh(cman')
  BY <1>1, <1>2, <1>8, SameSelection DEF Consistent
<1>11. Consistent(cman', down', priority')
  BY <1>3, <1>9, <1>10 DEF Consistent
<1>12. PhaseOf(loading', priority', file_priority', cman', down', running', check', outdated')
  BY <1>2, <1>3 DEF PhaseOf
<1>13. StoredIn(cache', cman', outdated', absent')
  BY <1>1, <1>3, <1>8 DEF StoredIn
<1> QED
  BY <1>1, <1>2, <1>3, <1>7, <1>8, <1>9, <1>10, <1>11, <1>12, <1>13, NextInvariant

\* A data check changes nothing until it is applied
LEMMA DataCheckKeeps ==
    ASSUME IInv, DataCheck
    PROVE  IInv'
<1>1. /\ priority \in PriorityMaps /\ file_priority \in PriorityMaps /\ cache \in DiskCaches
      /\ cman \in Cmans /\ down \in Downs
      /\ index_file \subseteq Chunks /\ current_file \subseteq Chunks /\ outdated \subseteq Chunks
      /\ loading \in 0 .. Len(torrent) + 1 /\ absent \subseteq Files
      /\ StoredIn(cache, cman, outdated, absent)
  BY InvariantTypes
<1>2. /\ Layout /\ Consistent(cman, down, priority) /\ Offered(cman, down) /\ Fresh(cman)
      /\ DiskOf(cache, file_priority, absent)
      /\ PhaseOf(loading, priority, file_priority, cman, down, running, check, outdated)
  BY DEF IInv
<1>3. /\ ~running /\ loading = 0 /\ check' = {{c \in Chunks : CheckedGood(c)}}
      /\ cman' = cman /\ down' = down
      /\ torrent' = torrent /\ priority' = priority /\ file_priority' = file_priority
      /\ loading' = loading /\ cache' = cache /\ index_file' = index_file
      /\ current_file' = current_file /\ running' = running /\ outdated' = outdated /\ absent' = absent
  BY DEF DataCheck
<1>4. \A ok \in check' : ok \subseteq Chunks
  BY <1>3
<1>5. PhaseOf(loading', priority', file_priority', cman', down', running', check', outdated')
  BY <1>2, <1>3, <1>4 DEF PhaseOf
<1> QED
  BY <1>1, <1>2, <1>3, <1>5, NextInvariant

\* A count that has just been made is right
LEMMA CountedIsFresh ==
    ASSUME NEW m \in Cmans
    PROVE  LET n == [m EXCEPT !.left = Left(m), !.recalc = FALSE]
           IN  /\ n \in Cmans /\ Fresh(n)
               /\ n.status = m.status /\ n.cprio = m.cprio /\ n.bitset = m.bitset
               /\ n.excluded = m.excluded /\ n.only_seed = m.only_seed /\ n.todo = m.todo
<1> DEFINE n == [m EXCEPT !.left = Left(m), !.recalc = FALSE]
<1>1. LeftSet(m) \in SUBSET Chunks
  BY DEF LeftSet
<1>2. Left(m) \in {Cardinality(S) : S \in SUBSET Chunks}
  BY <1>1 DEF Left
<1>3. /\ n \in Cmans /\ n.left = Left(m)
      /\ n.status = m.status /\ n.cprio = m.cprio /\ n.bitset = m.bitset
      /\ n.excluded = m.excluded /\ n.only_seed = m.only_seed /\ n.todo = m.todo
  BY <1>2 DEF Cmans
<1> HIDE DEF n
<1>4. LeftSet(n) = LeftSet(m)
  BY <1>3 DEF LeftSet, Excluded
<1>5. n.left = Cardinality(LeftSet(n) \ {})
  BY <1>3, <1>4 DEF Left
<1>6. {} \in SUBSET {c \in LeftSet(n) : Odd(c)}
  OBVIOUS
<1>7. Fresh(n)
  BY <1>5, <1>6 DEF Fresh
<1> QED
  BY <1>3, <1>7 DEF n

\* The result of a data check replaces the bitset, todo, the status and the count together
LEMMA AfterDataCheckKeeps ==
    ASSUME IInv, AfterDataCheck
    PROVE  IInv'
<1>1. /\ priority \in PriorityMaps /\ file_priority \in PriorityMaps /\ cache \in DiskCaches
      /\ cman \in Cmans /\ down \in Downs /\ current_file \subseteq Chunks
      /\ loading \in 0 .. Len(torrent) + 1 /\ absent \subseteq Files
  BY InvariantTypes
<1>2. /\ Layout /\ Consistent(cman, down, priority)
      /\ DiskOf(cache, file_priority, absent)
      /\ PhaseOf(loading, priority, file_priority, cman, down, running, check, outdated)
  BY DEF IInv
<1> DEFINE ok == UNION check
           found == ok \ cman.bitset
           lost == cman.bitset \ ok
           todo == (cman.todo \ (found \cup lost)) \cup (lost \ (cman.only_seed \cup cman.excluded))
           status == [c \in Chunks |-> IF c \in found THEN "ON_DISK"
                                       ELSE IF c \in lost THEN "NOT_DOWNLOADED" ELSE cman.status[c]]
           m == [cman EXCEPT !.bitset = ok, !.todo = todo, !.status = status]
           b == [cman EXCEPT !.bitset = ok]
<1>3. /\ check # {} /\ check' = {}
      /\ down' = [down EXCEPT !.chunks = Chunks \ ok]
      /\ cman' = [cman EXCEPT !.bitset = ok, !.recalc = FALSE, !.todo = todo, !.left = Left(b),
                              !.status = status]
      /\ index_file' = SavedIndex(cman') /\ outdated' = {c \in ok : ~ChunkIsGood(cache, c)}
      /\ torrent' = torrent /\ priority' = priority /\ file_priority' = file_priority
      /\ loading' = loading /\ cache' = cache /\ current_file' = current_file
      /\ running' = running /\ absent' = absent
  BY DEF AfterDataCheck, SelectorDataChecked
<1>4. /\ ok \subseteq Chunks /\ ~running /\ loading = 0 /\ file_priority = priority
      /\ down.current = {}
  BY <1>2, <1>3 DEF PhaseOf
<1>5. /\ status \in [Chunks -> {"NOT_DOWNLOADED", "BUFFERED", "ON_DISK"}]
      /\ todo \in SUBSET Chunks /\ ok \in SUBSET Chunks
  BY <1>1, <1>4 DEF Cmans
<1>6. \A c \in Chunks : /\ status[c] = IF c \in found THEN "ON_DISK"
                                       ELSE IF c \in lost THEN "NOT_DOWNLOADED" ELSE cman.status[c]
                        /\ c \in found <=> c \in ok /\ c \notin cman.bitset
                        /\ c \in lost <=> c \in cman.bitset /\ c \notin ok
                        /\ c \in todo <=> \/ c \in cman.todo /\ c \notin found /\ c \notin lost
                                          \/ c \in lost /\ c \notin cman.only_seed /\ c \notin cman.excluded
  OBVIOUS
<1> HIDE DEF ok, todo, status, found, lost
<1>7. /\ m \in Cmans /\ m.status = status /\ m.todo = todo /\ m.bitset = ok
      /\ m.cprio = cman.cprio /\ m.excluded = cman.excluded /\ m.only_seed = cman.only_seed
  BY <1>1, <1>5 DEF Cmans
<1>8. cman' = [m EXCEPT !.left = Left(m), !.recalc = FALSE]
  <2>1. b.bitset = ok /\ b.cprio = cman.cprio
    BY <1>1 DEF Cmans
  <2>2. Left(b) = Left(m)
    BY <1>7, <2>1 DEF Left, LeftSet, Excluded
  <2>3. cman' = [cman EXCEPT !.bitset = ok, !.recalc = FALSE, !.todo = todo, !.left = Left(m),
                             !.status = status]
    BY <1>3, <2>2
  <2> QED
    BY <1>1, <2>3 DEF Cmans
<1> HIDE DEF m, b
<1>9. /\ cman' \in Cmans /\ Fresh(cman') /\ cman'.status = status /\ cman'.todo = todo
      /\ cman'.bitset = ok /\ cman'.cprio = cman.cprio /\ cman'.excluded = cman.excluded
      /\ cman'.only_seed = cman.only_seed
  BY <1>7, <1>8, CountedIsFresh
<1>10. down' \in Downs /\ down'.current = {} /\ down'.chunks = Chunks \ ok
  BY <1>1, <1>3, <1>4 DEF Downs
<1>11. Statuses(cman', down')
  <2> SUFFICES ASSUME NEW c \in Chunks
               PROVE  /\ c \in ok => status[c] = "ON_DISK"
                      /\ status[c] # "BUFFERED"
                      /\ status[c] = "ON_DISK" => c \in ok \/ c = 0 \/ Shared(c)
    BY <1>9, <1>10 DEF Statuses
  <2>1. /\ c \in cman.bitset => cman.status[c] = "ON_DISK"
        /\ cman.status[c] # "BUFFERED"
        /\ cman.status[c] = "ON_DISK" => c \in cman.bitset \/ c = 0 \/ Shared(c)
    BY <1>2, <1>4 DEF Consistent, Statuses
  <2> QED
    BY <1>6, <2>1
<1>12. Marked(cman')
  BY <1>2, <1>6, <1>9 DEF Consistent, Marked
<1>13. SetsAgree(cman')
  BY <1>2, <1>6, <1>9 DEF Consistent, SetsAgree
<1>14. Offered(cman', down') /\ Wishes(cman', priority')
  BY <1>2, <1>3, <1>9, <1>10 DEF Consistent, Offered, Wishes
<1>15. PhaseOf(loading', priority', file_priority', cman', down', running', check', outdated')
  BY <1>3, <1>4, <1>10 DEF PhaseOf
<1>16. StoredIn(cache', cman', outdated', absent')
  BY <1>3, <1>9 DEF StoredIn
<1>17. index_file' \subseteq Chunks /\ outdated' \subseteq Chunks
  BY <1>3, <1>5 DEF SavedIndex
<1> QED
  BY <1>1, <1>2, <1>3, <1>9, <1>10, <1>11, <1>12, <1>13, <1>14, <1>15, <1>16, <1>17, NextInvariant
     DEF Consistent

\* Chunks of missing files leave the bitset before the files are created again
LEMMA RecreateMissingFilesKeeps ==
    ASSUME IInv, NEW F \in SUBSET Files, RecreateMissingFiles(F)
    PROVE  IInv'
<1>1. /\ priority \in PriorityMaps /\ file_priority \in PriorityMaps /\ cache \in DiskCaches
      /\ cman \in Cmans /\ down \in Downs
      /\ current_file \subseteq Chunks /\ outdated \subseteq Chunks
      /\ loading \in 0 .. Len(torrent) + 1 /\ absent \subseteq Files
      /\ StoredIn(cache, cman, outdated, absent)
  BY InvariantTypes
<1>2. /\ Layout /\ Consistent(cman, down, priority)
      /\ DiskOf(cache, file_priority, absent)
      /\ PhaseOf(loading, priority, file_priority, cman, down, running, check, outdated)
  BY DEF IInv
<1> DEFINE gone == Chunks \cap UNION {ChunksOf(f) : f \in F}
           m == Reset(cman, gone)
           k == [f \in Files |-> IF f \in F THEN EmptyFile ELSE cache[f]]
<1>3. /\ ~running /\ loading = 0 /\ check = {}
      /\ \A f \in F : priority[f] # EXCLUDED
      /\ cache' = k /\ cman' = [m EXCEPT !.left = Left(m), !.recalc = FALSE]
      /\ index_file' = SavedIndex(m) /\ down' = [down EXCEPT !.chunks = Chunks \ m.bitset]
      /\ outdated' = outdated \cap m.bitset
      /\ torrent' = torrent /\ priority' = priority /\ file_priority' = file_priority
      /\ loading' = loading /\ current_file' = current_file
      /\ running' = running /\ check' = check /\ absent' = absent
  BY DEF RecreateMissingFiles, SelectorDataChecked, CanBeMissing
<1>4. \A f \in Files : k[f] = IF f \in F THEN EmptyFile ELSE cache[f]
  OBVIOUS
<1>5. k \in DiskCaches
  <2>1. EmptyFile \in [where : {"output", "dnd"}, parts : SUBSET Nat, first : Part, last : Part]
    BY DEF EmptyFile, Part
  <2> QED
    BY <1>1, <2>1 DEF DiskCaches
<1> HIDE DEF k
<1>6. gone \subseteq Chunks /\ \A c \in Chunks : \A f \in F : c \in ChunksOf(f) => c \in gone
  OBVIOUS
<1> HIDE DEF gone
<1>7. m \in Cmans /\ m.bitset = cman.bitset \ gone /\ IsReset(cman, m, gone)
  BY <1>1, <1>6, ResetEffect
<1> HIDE DEF m
<1>8. Marked(m)
  BY <1>1, <1>2, <1>7, MarkedIsKept DEF Consistent
<1>9. /\ cman' \in Cmans /\ Fresh(cman') /\ cman'.status = m.status /\ cman'.cprio = m.cprio
      /\ cman'.bitset = m.bitset /\ cman'.excluded = m.excluded /\ cman'.only_seed = m.only_seed
      /\ cman'.todo = m.todo
  BY <1>3, <1>7, CountedIsFresh
<1>10. down' \in Downs /\ down'.current = {} /\ down.current = {} /\ down'.chunks = Chunks \ m.bitset
  BY <1>1, <1>2, <1>3 DEF Downs, PhaseOf
<1>11. Statuses(cman', down')
  BY <1>2, <1>7, <1>9, <1>10 DEF Consistent, Statuses, IsReset, Agree
<1>12. SetsAgree(cman')
  BY <1>2, <1>7, <1>9 DEF Consistent, SetsAgree, IsReset, Agree
<1>13. Offered(cman', down') /\ Marked(cman')
  BY <1>8, <1>9, <1>10 DEF Offered, Marked
<1>14. Wishes(cman', priority')
  <2>1. \A c \in Chunks : cman'.cprio[c] = cman.cprio[c]
    BY <1>7, <1>9 DEF IsReset, Agree
  <2> QED
    BY <1>2, <1>3, <2>1 DEF Consistent, Wishes
<1>15. DiskOf(cache', file_priority', absent')
  BY <1>2, <1>3, <1>4 DEF DiskOf, PhaseOf, EmptyFile
<1>16. PhaseOf(loading', priority', file_priority', cman', down', running', check', outdated')
  BY <1>2, <1>3, <1>10 DEF PhaseOf
<1>17. StoredIn(cache', cman', outdated', absent')
  <2> SUFFICES ASSUME NEW c \in m.bitset, ChunkIsGood(cache, c) PROVE ChunkIsGood(k, c)
    BY <1>1, <1>3, <1>7, <1>9 DEF StoredIn
  <2>1. c \in Chunks /\ c \notin gone
    BY <1>1, <1>7 DEF Cmans
  <2>2. ASSUME NEW f \in FilesOf(c) PROVE PartIsGood(k, c, f)
    <3>1. f \in Files /\ c \in ChunksOf(f) /\ PartIsGood(cache, c, f)
      BY DEF FilesOf, ChunkIsGood
    <3>2. k[f] = cache[f]
      BY <1>4, <1>6, <2>1, <3>1
    <3> QED
      BY <1>1, <1>5, <3>1, <3>2, PartsRead
  <2> QED
    BY <2>2 DEF ChunkIsGood
<1>18. index_file' \subseteq Chunks /\ outdated' \subseteq Chunks
  BY <1>1, <1>3 DEF SavedIndex
<1> QED
  BY <1>1, <1>2, <1>3, <1>5, <1>9, <1>10, <1>11, <1>12, <1>13, <1>14, <1>15, <1>16, <1>17, <1>18,
     NextInvariant DEF Consistent

\* A missing file is deselected after its chunks have been reset
LEMMA DndMissingFileKeeps ==
    ASSUME IInv, NEW f \in Files, DndMissingFile(f)
    PROVE  IInv'
<1>1. /\ priority \in PriorityMaps /\ cache \in DiskCaches /\ cman \in Cmans /\ down \in Downs
      /\ current_file \subseteq Chunks /\ outdated \subseteq Chunks
      /\ loading \in 0 .. Len(torrent) + 1 /\ absent \subseteq Files
      /\ StoredIn(cache, cman, outdated, absent)
      /\ World \in Worlds /\ World.cman = cman /\ World.down = down /\ World.cache = cache
  BY InvariantTypes
<1>2. /\ Layout /\ Consistent(cman, down, priority)
      /\ DiskOf(cache, file_priority, absent)
      /\ PhaseOf(loading, priority, file_priority, cman, down, running, check, outdated)
  BY DEF IInv
<1> DEFINE gone == Chunks \cap ChunksOf(f)
           w == [World EXCEPT !.cman = Reset(@, gone), !.cache[f].where = "missing"]
           q == [priority EXCEPT ![f] = EXCLUDED]
           u == Deselected(w, q, f)
           x == CacheStatusChanged(u, f, FALSE)
<1>3. /\ ~running /\ loading = 0 /\ check = {} /\ priority[f] # EXCLUDED
      /\ cache' = x.cache /\ cman' = [x.cman EXCEPT !.left = Left(x.cman), !.recalc = FALSE]
      /\ down' = [x.down EXCEPT !.chunks = Chunks \ x.cman.bitset]
      /\ priority' = q /\ file_priority' = q /\ index_file' = SavedIndex(x.cman)
      /\ outdated' = outdated \cap x.cman.bitset /\ absent' = absent \cup {f}
      /\ torrent' = torrent /\ loading' = loading /\ current_file' = current_file
      /\ running' = running /\ check' = check
  BY DEF DndMissingFile, CanBeMissing, downloadStatusChanged
<1>4. q \in PriorityMaps /\ q[f] = EXCLUDED /\ \A g \in Files \ {f} : q[g] = priority[g]
  <2>1. EXCLUDED \in Priorities
    BY ConstantsAssumption DEF ConstantsAssumption
  <2> QED
    BY <1>1, <2>1 DEF PriorityMaps
<1>5. gone \subseteq Chunks /\ \A c \in Chunks : c \in gone <=> c \in ChunksOf(f)
  OBVIOUS
<1> HIDE DEF gone
<1> DEFINE m == Reset(cman, gone)
<1>6. m \in Cmans /\ m.bitset = cman.bitset \ gone /\ IsReset(cman, m, gone)
  BY <1>1, <1>5, ResetEffect
<1>7. /\ w \in Worlds /\ w.cman = m /\ w.down = down
      /\ \A g \in Files \ {f} : w.cache[g] = cache[g]
      /\ w.cache[f] = [cache[f] EXCEPT !.where = "missing"]
  <2> DEFINE lostFile == [cache[f] EXCEPT !.where = "missing"]
             k == [cache EXCEPT ![f] = lostFile]
  <2>1. w = [World EXCEPT !.cman = m, !.cache = k]
    BY <1>1 DEF World
  <2>2. lostFile \in [where : {"output", "dnd", "missing"}, parts : SUBSET Nat, first : Part, last : Part]
    BY <1>1 DEF DiskCaches
  <2> HIDE DEF lostFile
  <2>3. k \in Caches /\ k[f] = lostFile /\ \A g \in Files \ {f} : k[g] = cache[g]
    BY <1>1, <2>2 DEF DiskCaches, Caches
  <2> HIDE DEF k, w, m
  <2>4. w \in Worlds /\ w.cman = m /\ w.down = down /\ w.cache = k
    BY <1>1, <1>6, <2>1, <2>3 DEF World, Worlds
  <2> QED
    BY <2>3, <2>4 DEF lostFile
<1> HIDE DEF w, m
<1>8. Marked(m)
  BY <1>1, <1>2, <1>6, MarkedIsKept DEF Consistent
<1>9. down.current = {} /\ file_priority = priority
  BY <1>2, <1>3 DEF PhaseOf
<1>10. Consistent(m, down, priority)
  <2>1. Statuses(m, down)
    BY <1>2, <1>6, <1>9 DEF Consistent, Statuses, IsReset, Agree
  <2>2. SetsAgree(m)
    BY <1>2, <1>6 DEF Consistent, SetsAgree, IsReset, Agree
  <2>3. \A c \in Chunks : m.cprio[c] = cman.cprio[c]
    BY <1>6 DEF IsReset, Agree
  <2>4. Wishes(m, priority)
    BY <1>2, <2>3 DEF Consistent, Wishes
  <2> QED
    BY <1>8, <2>1, <2>2, <2>4 DEF Consistent
<1>11. IsDeselected(w, u, q, f)
  BY <1>2, <1>4, <1>7, <1>8, DeselectedEffect
<1> HIDE DEF u
<1>12. Consistent(u.cman, u.down, q)
  <2>1. Consistent(w.cman, w.down, priority)
    BY <1>7, <1>10
  <2> QED
    BY <1>1, <1>2, <1>4, <1>7, <1>11, <2>1, DeselectingKeepsConsistent
<1> HIDE DEF q
<1>13. /\ u \in Worlds /\ u.cache = w.cache /\ u.cman.bitset \subseteq cman.bitset \ gone
       /\ u.down.current = {}
  BY <1>6, <1>7, <1>9, <1>11 DEF IsDeselected
<1>14. /\ x \in Worlds /\ x.cman = u.cman /\ x.down = u.down
       /\ \A g \in Files \ {f} : x.cache[g] = u.cache[g]
       /\ x.cache[f] = NewCacheFile(u.cache[f], f, FALSE) /\ x.cache[f].where = "dnd"
  <2>1. \A download \in BOOLEAN :
           /\ CacheStatusChanged(u, f, download) \in Worlds
           /\ CacheStatusChanged(u, f, download).cman = u.cman
           /\ CacheStatusChanged(u, f, download).down = u.down
           /\ \A g \in Files \ {f} : CacheStatusChanged(u, f, download).cache[g] = u.cache[g]
           /\ CacheStatusChanged(u, f, download).cache[f] = NewCacheFile(u.cache[f], f, download)
           /\ CacheStatusChanged(u, f, download).cache[f].where = IF download THEN "output" ELSE "dnd"
    BY <1>2, <1>13, CacheStatusChangedEffect
  <2> QED
    BY <2>1
<1> HIDE DEF x
<1>15. x.cache[f] = ToDND(w.cache[f], f)
  <2>1. w.cache[f].where = "missing"
    BY <1>1, <1>7 DEF DiskCaches
  <2> QED
    BY <1>13, <1>14, <2>1 DEF NewCacheFile
<1>16. cache' \in DiskCaches
  <2>1. \A g \in Files : x.cache[g].where \in {"output", "dnd"}
    <3>1. \A g \in Files \ {f} : x.cache[g] = cache[g]
      BY <1>7, <1>13, <1>14
    <3>2. \A g \in Files : cache[g].where \in {"output", "dnd"}
      BY <1>1 DEF DiskCaches
    <3> QED
      BY <1>14, <3>1, <3>2
  <2>2. x.cache \in Caches
    BY <1>14 DEF Worlds
  <2> QED
    BY <1>3, <2>1, <2>2 DEF Caches, DiskCaches
<1>17. /\ cman' \in Cmans /\ Fresh(cman') /\ cman'.status = u.cman.status
       /\ cman'.cprio = u.cman.cprio /\ cman'.bitset = u.cman.bitset
       /\ cman'.excluded = u.cman.excluded /\ cman'.only_seed = u.cman.only_seed
       /\ cman'.todo = u.cman.todo
  BY <1>3, <1>13, <1>14, CountedIsFresh DEF Worlds
<1>18. down' \in Downs /\ down'.current = {} /\ down'.chunks = Chunks \ cman'.bitset
  BY <1>3, <1>13, <1>14, <1>17 DEF Worlds, Downs
<1>19. Statuses(cman', down') /\ Marked(cman') /\ SetsAgree(cman') /\ Wishes(cman', q)
  BY <1>12, <1>13, <1>17, <1>18 DEF Consistent, Statuses, Marked, SetsAgree, Wishes
<1>20. Offered(cman', down')
  BY <1>18 DEF Offered
<1>21. DiskOf(cache', file_priority', absent')
  <2>1. \A d : ToDND(d, f).parts = {}
    BY DEF ToDND
  <2>2. x.cache[f].where = "dnd" /\ x.cache[f].parts = {} /\ f \in absent'
    BY <1>3, <1>14, <1>15, <2>1
  <2>3. \A g \in Files \ {f} : x.cache[g] = cache[g]
    BY <1>7, <1>13, <1>14
  <2>4. \A g \in Files \ {f} : /\ x.cache[g].where = "dnd" <=> q[g] = EXCLUDED
                               /\ x.cache[g].where = "dnd" /\ g \notin absent => x.cache[g].first # "none"
                               /\ x.cache[g].parts \subseteq ChunksOf(g)
    BY <1>2, <1>4, <1>9, <2>3 DEF DiskOf
  <2> QED
    BY <1>3, <1>4, <2>2, <2>4 DEF DiskOf
<1>22. PhaseOf(loading', priority', file_priority', cman', down', running', check', outdated')
  BY <1>2, <1>3, <1>18 DEF PhaseOf
<1>23. StoredIn(cache', cman', outdated', absent')
  <2> SUFFICES ASSUME NEW c \in u.cman.bitset, ChunkIsGood(cache, c) PROVE ChunkIsGood(x.cache, c)
    BY <1>1, <1>3, <1>13, <1>14, <1>17 DEF StoredIn
  <2>1. c \in Chunks /\ c \notin ChunksOf(f)
    BY <1>1, <1>5, <1>13 DEF Cmans
  <2>2. ASSUME NEW g \in FilesOf(c) PROVE PartIsGood(x.cache, c, g)
    <3>1. g \in Files /\ g # f /\ PartIsGood(cache, c, g)
      BY <2>1 DEF FilesOf, ChunkIsGood
    <3>2. x.cache[g] = cache[g]
      BY <1>7, <1>13, <1>14, <3>1
    <3> QED
      BY <1>1, <1>3, <1>16, <3>1, <3>2, PartsRead
  <2> QED
    BY <2>2 DEF ChunkIsGood
<1>24. /\ index_file' \subseteq Chunks /\ outdated' \subseteq Chunks /\ absent' \subseteq Files
       /\ priority' = q /\ file_priority' = q
  BY <1>1, <1>3 DEF SavedIndex
<1> QED
  BY <1>1, <1>2, <1>3, <1>4, <1>16, <1>17, <1>18, <1>19, <1>20, <1>21, <1>22, <1>23, <1>24,
     NextInvariant DEF Consistent

\* A restart forgets everything but the files
LEMMA RestartKeeps ==
    ASSUME IInv, Restart
    PROVE  IInv'
<1>1. /\ file_priority \in PriorityMaps /\ cache \in DiskCaches
      /\ index_file \subseteq Chunks /\ current_file \subseteq Chunks /\ absent \subseteq Files
  BY InvariantTypes
<1>2. Layout /\ DiskOf(cache, file_priority, absent)
  BY DEF IInv
<1>3. /\ torrent' = torrent /\ priority' = [f \in Files |-> NORMAL_PRIORITY] /\ loading' = 1
      /\ cman' = NewChunkManager /\ down' = [current |-> {}, chunks |-> Chunks]
      /\ running' = FALSE /\ check' = {} /\ outdated' = {}
      /\ file_priority' = file_priority /\ cache' = cache /\ index_file' = index_file
      /\ current_file' = current_file /\ absent' = absent
  BY DEF Restart
<1>4. /\ cman' \in Cmans /\ down' \in Downs /\ priority' \in PriorityMaps /\ cman'.bitset = {}
      /\ Consistent(cman', down', priority') /\ Offered(cman', down') /\ Fresh(cman')
  BY <1>3, NewChunkManagerIsConsistent
<1>5. loading' \in 0 .. Len(torrent) + 1 /\ \A f \in Files : ~(f < loading')
  BY <1>2, <1>3 DEF Layout
<1>6. PhaseOf(loading', priority', file_priority', cman', down', running', check', outdated')
  BY <1>3, <1>4, <1>5 DEF PhaseOf
<1>7. StoredIn(cache', cman', outdated', absent')
  BY <1>4 DEF StoredIn
<1> QED
  BY <1>1, <1>2, <1>3, <1>4, <1>5, <1>6, <1>7, NextInvariant

\* Loading the saved priority of a file leaves the files on disk as they are
LEMMA LoadPriorityKeeps ==
    ASSUME IInv, LoadPriority
    PROVE  IInv'
<1> DEFINE f == loading
           new == file_priority[f]
           v == SetPriority(World, priority, f, new)
           q == [priority EXCEPT ![f] = new]
<1>1. /\ priority \in PriorityMaps /\ file_priority \in PriorityMaps /\ cache \in DiskCaches
      /\ cman \in Cmans /\ down \in Downs
      /\ index_file \subseteq Chunks /\ current_file \subseteq Chunks /\ outdated \subseteq Chunks
      /\ absent \subseteq Files
      /\ World \in Worlds /\ World.cman = cman /\ World.down = down /\ World.cache = cache
  BY InvariantTypes
<1>2. /\ Layout /\ Consistent(cman, down, priority) /\ Offered(cman, down) /\ Fresh(cman)
      /\ DiskOf(cache, file_priority, absent)
      /\ PhaseOf(loading, priority, file_priority, cman, down, running, check, outdated)
  BY DEF IInv
<1>3. /\ f \in Files /\ loading' = f + 1
      /\ cman' = v.cman /\ down' = v.down /\ cache' = v.cache /\ priority' = q
      /\ torrent' = torrent /\ file_priority' = file_priority /\ index_file' = index_file
      /\ current_file' = current_file /\ running' = running /\ check' = check
      /\ outdated' = outdated /\ absent' = absent
  BY DEF LoadPriority, Commit
<1>4. f \in Nat \ {0} /\ loading' \in 0 .. Len(torrent) + 1 /\ Files \subseteq Nat
  BY <1>2, <1>3 DEF Layout
<1>5. /\ ~running /\ cman.bitset = {} /\ check = {} /\ outdated = {} /\ down.current = {}
      /\ \A g \in Files : priority[g] = IF g < f THEN file_priority[g] ELSE NORMAL_PRIORITY
  BY <1>2, <1>4 DEF PhaseOf
<1>6. new \in Priorities \cup {NORMAL_PRIORITY} /\ priority[f] = NORMAL_PRIORITY
  BY <1>1, <1>3, <1>4, <1>5 DEF PriorityMaps
<1>7. /\ q \in PriorityMaps /\ q[f] = new
      /\ \A g \in Files : q[g] = IF g < f + 1 THEN file_priority[g] ELSE NORMAL_PRIORITY
  <2>1. q \in PriorityMaps /\ q[f] = new /\ \A g \in Files \ {f} : q[g] = priority[g]
    BY <1>1, <1>3, <1>6 DEF PriorityMaps
  <2>2. f < f + 1 /\ \A g \in Files \ {f} : g < f + 1 <=> g < f
    BY <1>4
  <2>3. ASSUME NEW g \in Files PROVE q[g] = IF g < f + 1 THEN file_priority[g] ELSE NORMAL_PRIORITY
    <3> HIDE DEF q
    <3>1. CASE g = f
      BY <2>1, <2>2, <3>1
    <3>2. CASE g # f
      BY <1>5, <2>1, <2>2, <3>2
    <3> QED
      BY <3>1, <3>2
  <2> QED
    BY <2>1, <2>3
<1>8. /\ v \in Worlds /\ Consistent(v.cman, v.down, q) /\ Offered(v.cman, v.down) /\ Fresh(v.cman)
      /\ v.cman.bitset = {} /\ v.down.current = {} /\ v.cache = cache
  <2>1. CASE priority[f] = new
    <3>1. v = World
      BY <2>1 DEF SetPriority
    <3>2. q = priority
      BY <1>1, <1>3, <2>1 DEF PriorityMaps
    <3> HIDE DEF v, q
    <3>3. v \in Worlds /\ v.cman = cman /\ v.down = down /\ v.cache = cache
      BY <1>1, <3>1
    <3>4. Consistent(v.cman, v.down, q) /\ Offered(v.cman, v.down) /\ Fresh(v.cman)
      BY <1>2, <3>2, <3>3
    <3>5. v.cman.bitset = {} /\ v.down.current = {}
      BY <1>5, <3>3
    <3> QED
      BY <3>3, <3>4, <3>5
  <2>2. CASE priority[f] # new
    <3>1. /\ v \in Worlds /\ Consistent(v.cman, v.down, q)
          /\ Offered(v.cman, v.down) /\ Fresh(v.cman)
          /\ v.cman.bitset \subseteq World.cman.bitset /\ v.down.current \subseteq World.down.current
          /\ \A g \in Files \ {f} : v.cache[g] = World.cache[g]
          /\ v.cache[f] = IF new = EXCLUDED \/ priority[f] = EXCLUDED
                          THEN NewCacheFile(World.cache[f], f, new # EXCLUDED) ELSE World.cache[f]
      <4>1. Consistent(World.cman, World.down, priority) /\ Offered(World.cman, World.down) /\ Fresh(World.cman)
        BY <1>1, <1>2
      <4>2. ASSUME NEW e \in Files, NEW n \in Priorities \cup {NORMAL_PRIORITY}, priority[e] # n
            PROVE  LET x == SetPriority(World, priority, e, n)
                       r == [priority EXCEPT ![e] = n]
                   IN  /\ x \in Worlds /\ Consistent(x.cman, x.down, r)
                       /\ Offered(x.cman, x.down) /\ Fresh(x.cman)
                       /\ x.cman.bitset \subseteq World.cman.bitset
                       /\ x.down.current \subseteq World.down.current
                       /\ \A g \in Files \ {e} : x.cache[g] = World.cache[g]
                       /\ x.cache[e] = IF n = EXCLUDED \/ priority[e] = EXCLUDED
                                       THEN NewCacheFile(World.cache[e], e, n # EXCLUDED) ELSE World.cache[e]
        BY <1>1, <1>2, <4>1, <4>2, SetPriorityEffect
      <4> QED
        BY <1>3, <1>6, <2>2, <4>2
    <3>2. priority[f] # EXCLUDED
      BY <1>6 DEF NORMAL_PRIORITY, EXCLUDED
    <3> HIDE DEF v, q
    <3>3. new = EXCLUDED => NewCacheFile(cache[f], f, new # EXCLUDED) = cache[f]
      <4>1. new = EXCLUDED => cache[f].where = "dnd"
        BY <1>2, <1>3 DEF DiskOf
      <4> QED
        BY <4>1 DEF NewCacheFile
    <3>4. \A g \in Files : v.cache[g] = cache[g]
      BY <1>1, <3>1, <3>2, <3>3
    <3>5. v.cache \in Caches
      BY <3>1 DEF Worlds
    <3>6. v.cache = cache
      BY <1>1, <3>4, <3>5 DEF Caches, DiskCaches
    <3> QED
      BY <1>1, <1>5, <3>1, <3>6
  <2> QED
    BY <2>1, <2>2
<1> HIDE DEF v, q
<1>9. cman' \in Cmans /\ down' \in Downs
  BY <1>3, <1>8 DEF Worlds
<1>10. PhaseOf(loading', priority', file_priority', cman', down', running', check', outdated')
  BY <1>3, <1>4, <1>5, <1>7, <1>8 DEF PhaseOf
<1>11. StoredIn(cache', cman', outdated', absent')
  BY <1>3, <1>8 DEF StoredIn
<1>12. priority' \in PriorityMaps /\ cache' \in DiskCaches /\ DiskOf(cache', file_priority', absent')
  BY <1>1, <1>2, <1>3, <1>7, <1>8
<1> QED
  BY <1>1, <1>2, <1>3, <1>4, <1>8, <1>9, <1>10, <1>11, <1>12, NextInvariant

\* The index file is loaded into an empty bitset, after all priorities
LEMMA LoadIndexKeeps ==
    ASSUME IInv, LoadIndex
    PROVE  IInv'
<1>1. /\ priority \in PriorityMaps /\ file_priority \in PriorityMaps /\ cache \in DiskCaches
      /\ cman \in Cmans /\ down \in Downs
      /\ index_file \subseteq Chunks /\ current_file \subseteq Chunks
      /\ loading \in 0 .. Len(torrent) + 1 /\ absent \subseteq Files
  BY InvariantTypes
<1>2. /\ Layout /\ Consistent(cman, down, priority) /\ Fresh(cman)
      /\ DiskOf(cache, file_priority, absent)
      /\ PhaseOf(loading, priority, file_priority, cman, down, running, check, outdated)
  BY DEF IInv
<1> DEFINE status == [c \in Chunks |-> IF c \in index_file THEN "ON_DISK" ELSE cman.status[c]]
<1>3. /\ loading # 0 /\ loading \notin Files /\ loading' = 0
      /\ cman' = [cman EXCEPT !.status = status, !.bitset = @ \cup index_file,
                              !.todo = @ \ index_file, !.recalc = @ \/ index_file # {}]
      /\ down' = [down EXCEPT !.chunks = Chunks \ cman'.bitset]
      /\ outdated' = {c \in index_file : ~ChunkIsGood(cache, c)}
      /\ torrent' = torrent /\ priority' = priority /\ file_priority' = file_priority
      /\ cache' = cache /\ index_file' = index_file /\ current_file' = current_file
      /\ running' = running /\ check' = check /\ absent' = absent
  BY DEF LoadIndex, SelectorDataChecked
<1>4. \A g \in Files : g < loading
  BY <1>1, <1>2, <1>3 DEF Layout
<1>5. /\ ~running /\ cman.bitset = {} /\ check = {} /\ down.current = {}
      /\ \A g \in Files : priority[g] = file_priority[g]
  BY <1>2, <1>3, <1>4 DEF PhaseOf
<1>6. priority = file_priority
  BY <1>1, <1>5 DEF PriorityMaps
<1>7. status \in [Chunks -> {"NOT_DOWNLOADED", "BUFFERED", "ON_DISK"}]
  BY <1>1 DEF Cmans
<1>8. \A c \in Chunks : status[c] = IF c \in index_file THEN "ON_DISK" ELSE cman.status[c]
  OBVIOUS
<1> HIDE DEF status
<1>9. /\ cman' \in Cmans /\ cman'.status = status /\ cman'.bitset = index_file
      /\ cman'.todo = cman.todo \ index_file /\ cman'.cprio = cman.cprio
      /\ cman'.excluded = cman.excluded /\ cman'.only_seed = cman.only_seed
      /\ cman'.recalc = (cman.recalc \/ index_file # {}) /\ cman'.left = cman.left
  <2>1. cman.bitset \cup index_file = index_file /\ index_file \in SUBSET Chunks
    BY <1>1, <1>5
  <2>2. (cman.recalc \/ index_file # {}) \in BOOLEAN /\ cman.todo \ index_file \in SUBSET Chunks
    BY <1>1 DEF Cmans
  <2> QED
    BY <1>1, <1>3, <1>7, <2>1, <2>2 DEF Cmans
<1>10. down' \in Downs /\ down'.current = {} /\ down'.chunks = Chunks \ index_file
  BY <1>1, <1>3, <1>5, <1>9 DEF Downs
<1>11. Statuses(cman', down')
  BY <1>2, <1>5, <1>8, <1>9, <1>10 DEF Consistent, Statuses
<1>12. Marked(cman') /\ SetsAgree(cman')
  BY <1>2, <1>5, <1>9 DEF Consistent, Marked, SetsAgree
<1>13. Offered(cman', down') /\ Wishes(cman', priority')
  BY <1>2, <1>3, <1>9, <1>10 DEF Consistent, Offered, Wishes
<1>14. Fresh(cman')
  <2>1. CASE cman'.recalc
    BY <2>1 DEF Fresh
  <2>2. CASE ~cman'.recalc
    <3>1. index_file = {} /\ ~cman.recalc
      BY <1>9, <2>2
    <3>2. LeftSet(cman') = LeftSet(cman)
      BY <1>5, <1>9, <3>1 DEF LeftSet, Excluded
    <3> QED
      BY <1>2, <1>9, <3>1, <3>2 DEF Fresh
  <2> QED
    BY <2>1, <2>2
<1>15. PhaseOf(loading', priority', file_priority', cman', down', running', check', outdated')
  BY <1>3, <1>5, <1>6, <1>10 DEF PhaseOf
<1>16. StoredIn(cache', cman', outdated', absent')
  BY <1>3, <1>9 DEF StoredIn
<1>17. outdated' \subseteq Chunks /\ loading' \in 0 .. Len(torrent) + 1
  BY <1>1, <1>2, <1>3 DEF Layout
<1> QED
  BY <1>1, <1>2, <1>3, <1>9, <1>10, <1>11, <1>12, <1>13, <1>14, <1>15, <1>16, <1>17, NextInvariant
     DEF Consistent

\* The invariant holds in every reachable state of every torrent
LEMMA Invariance == Spec => []IInv
<1>1. Init => IInv
  BY InitInvariant
<1>2. IInv /\ [Next]_vars => IInv'
  <2> SUFFICES ASSUME IInv, [Next]_vars PROVE IInv'
    OBVIOUS
  <2>1. ASSUME NEW f \in Files, NEW p \in Priorities, ChangePriority(f, p) PROVE IInv'
    BY <2>1, ChangePriorityKeeps
  <2>2. ASSUME NEW c \in Chunks, StartDownload(c) PROVE IInv'
    BY <2>2, StartDownloadKeeps
  <2>3. ASSUME NEW c \in Chunks, FinishChunk(c) PROVE IInv'
    BY <2>3, FinishChunkKeeps
  <2>4. ASSUME NEW c \in Chunks, GrabCorrupted(c) PROVE IInv'
    BY <2>4, GrabCorruptedKeeps
  <2>5. CASE UpdateStats
    BY <2>5, UpdateStatsKeeps
  <2>6. CASE Stop
    BY <2>6, StopKeeps
  <2>7. CASE Start
    BY <2>7, StartKeeps
  <2>8. CASE DataCheck
    BY <2>8, DataCheckKeeps
  <2>9. CASE AfterDataCheck
    BY <2>9, AfterDataCheckKeeps
  <2>10. ASSUME NEW F \in SUBSET Files, RecreateMissingFiles(F) PROVE IInv'
    BY <2>10, RecreateMissingFilesKeeps
  <2>11. ASSUME NEW f \in Files, DndMissingFile(f) PROVE IInv'
    BY <2>11, DndMissingFileKeeps
  <2>12. CASE Restart
    BY <2>12, RestartKeeps
  <2>13. CASE LoadPriority
    BY <2>13, LoadPriorityKeeps
  <2>14. CASE LoadIndex
    BY <2>14, LoadIndexKeeps
  <2>15. CASE UNCHANGED vars
    <3>1. /\ torrent' = torrent /\ priority' = priority /\ file_priority' = file_priority
          /\ loading' = loading /\ cman' = cman /\ down' = down /\ cache' = cache
          /\ index_file' = index_file /\ current_file' = current_file /\ running' = running
          /\ check' = check /\ outdated' = outdated /\ absent' = absent
      BY <2>15 DEF vars
    <3>2. /\ Layout /\ Consistent(cman, down, priority) /\ Offered(cman, down) /\ Fresh(cman)
          /\ DiskOf(cache, file_priority, absent)
          /\ PhaseOf(loading, priority, file_priority, cman, down, running, check, outdated)
      BY DEF IInv
    <3> QED
      BY <3>1, <3>2, InvariantTypes, NextInvariant
  <2> QED
    BY <2>1, <2>2, <2>3, <2>4, <2>5, <2>6, <2>7, <2>8, <2>9, <2>10, <2>11, <2>12, <2>13, <2>14,
       <2>15 DEF Next
<1> QED
  BY <1>1, <1>2, PTL DEF Spec

-----------------------------------------------------------------------------
(* What the runs check of small torrents, for every torrent *)

\* Whatever is selected, deselected, lost or restarted, a chunk in the bitset can be read
\* back from the files and .dnd files it lies in, apart from the exceptions HaveIsStored
\* names (downloadStatusChanged, saveFirstAndLastChunk, recreateFile, DNDFile).
THEOREM HaveIsStoredHolds == Spec => []HaveIsStored
<1>1. IInv => HaveIsStored
  BY DEF IInv
<1> QED
  BY <1>1, Invariance, PTL

\* The count of chunksLeft is right whenever recalc_chunks_left is not set, and every
\* variable has its type.
THEOREM ChunksLeftIsFreshHolds == Spec => []ChunksLeftIsFresh
<1>1. IInv => ChunksLeftIsFresh
  BY DEF IInv, Fresh, ChunksLeftIsFresh
<1> QED
  BY <1>1, Invariance, PTL

\* No chunk of a file that is to be downloaded is forgotten by the chunk manager, and one
\* that is to do can be downloaded, unless exclude left it on disk (prioritise, include,
\* exclude, resetChunk, dataChecked, ChunkSelector::reincluded).
THEOREM WantedCanBeFetchedHolds == Spec => []WantedCanBeFetched
<1>1. ASSUME IInv PROVE WantedCanBeFetched
  <2>1. /\ Layout /\ Consistent(cman, down, priority) /\ Offered(cman, down) /\ cman \in Cmans
    BY <1>1, InvariantTypes DEF IInv
  <2>2. ASSUME NEW f \in Files, Wanted(f), NEW c \in ChunksOf(f), ~Odd(c)
        PROVE  c \in cman.bitset \cup cman.todo
    <3>1. c \in Chunks /\ f \in FilesOf(c)
      BY <2>1, <2>2, ChunksAreShared DEF Wanted
    <3>2. priority[f] \in {10, 20, 30, 40, 50} /\ priority[f] > ONLY_SEED_PRIORITY
      BY <1>1, <2>2, InvariantTypes, PriorityValues DEF Wanted
    <3>3. cman.cprio[c] \notin {EXCLUDED, ONLY_SEED_PRIORITY}
      BY <2>1, <2>2, <3>1, <3>2 DEF Consistent, Wishes, EXCLUDED, ONLY_SEED_PRIORITY
    <3> QED
      BY <2>1, <2>2, <3>1, <3>3 DEF Consistent, SetsAgree
  <2>3. ASSUME NEW c \in cman.todo, c \notin down.current
        PROVE  \/ c \in Stuck /\ (c = 0 \/ Shared(c) \/ Odd(c))
               \/ /\ c \in down.chunks /\ cman.status[c] = "NOT_DOWNLOADED"
                  /\ cman.cprio[c] \notin {EXCLUDED, ONLY_SEED_PRIORITY}
    <3>1. c \in Chunks /\ cman.status[c] \in {"NOT_DOWNLOADED", "BUFFERED", "ON_DISK"}
      BY <2>1 DEF Cmans
    <3>2. /\ c \notin cman.bitset /\ cman.cprio[c] \notin {EXCLUDED, ONLY_SEED_PRIORITY}
          /\ cman.status[c] # "BUFFERED"
          /\ cman.status[c] = "ON_DISK" => c = 0 \/ Shared(c)
      BY <2>1, <2>3, <3>1 DEF Consistent, Marked, Statuses
    <3>3. CASE cman.status[c] = "ON_DISK"
      BY <2>3, <3>2, <3>3 DEF Stuck
    <3>4. CASE cman.status[c] = "NOT_DOWNLOADED" /\ c \notin down.chunks
      BY <2>1, <2>3, <3>1, <3>2, <3>4 DEF Stuck, Offered
    <3>5. CASE cman.status[c] = "NOT_DOWNLOADED" /\ c \in down.chunks
      BY <3>2, <3>5
    <3> QED
      BY <3>1, <3>2, <3>3, <3>4, <3>5
  <2> QED
    BY <2>2, <2>3 DEF WantedCanBeFetched
<1> QED
  BY <1>1, Invariance, PTL
=============================================================================
