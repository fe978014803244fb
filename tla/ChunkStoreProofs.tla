-------------------------- MODULE ChunkStoreProofs --------------------------
(***************************************************************************)
(* What ChunkStore promises of the chunks of a torrent, for any number of  *)
(* chunks, pieces and starts: a chunk that is announced is good, and one   *)
(* that is missing can be fetched.                                         *)
(***************************************************************************)
EXTENDS ChunkStore, FiniteSetTheorems, WellFoundedInduction, TLAPS

\* The environments the promises are made for.  Outside of them the code does not keep
\* them: a chunk that was put away and comes back in a new buffer has lost the pieces that
\* were hashed already, and saveIndexFile, once an upload finds a corrupted chunk, lists
\* what is still in progress, for the next start to believe.
Promised(e) ==
    /\ e.hashing => ~e.mmap_fails
    /\ e.faults > 0 \/ e.unannounced => e.sessions <= 1

-----------------------------------------------------------------------------
(* The inductive invariant *)

Hash == [n : 0..NumPieces, good : BOOLEAN]
Save == [saved : BOOLEAN, pieces : SUBSET Pieces, buffered : BOOLEAN, data : Contents]

\* TypeOK does not say what a file of current chunks holds
Typed ==
    /\ TypeOK
    /\ read_only \subseteq Chunks
    /\ hashed \in [Chunks -> Hash]
    /\ saved \in [Chunks -> Save]

\* Nothing happens to the disk before the first start
Pristine ==
    /\ ~running
    /\ status = [c \in Chunks |-> "NOT_DOWNLOADED"]
    /\ disk = [c \in Chunks |-> AllBad]
    /\ saved = [c \in Chunks |-> NotSaved]
    /\ {bitset, loaded, current_chunks, index_file, decayed, unwritten} \subseteq {{}}

\* the disk keeps what it is given, and peers ask for what is announced
Faultless == env.faults = 0 /\ ~env.unannounced

\* When a torrent is stopped nothing is in progress, nothing is mapped
StoppedIsIdle == ~running => current_chunks = {} /\ read_only = {}

\* A chunk is in one place only: here, in progress, given up, or still to be fetched
Placed ==
    /\ bitset \cap current_chunks = {}
    /\ \A c \in bitset : status[c] # "NOT_DOWNLOADED"
    /\ current_chunks \subseteq chunks
    /\ running => loaded \subseteq bitset \cup current_chunks \cup unwritten

\* What is announced is good, and so are the pieces that were hashed and found good
\* while they arrived; a chunk that is hashed so is never in a buffer
Hashed ==
    /\ \A c \in bitset \ decayed : Good(disk[c])
    /\ env.hashing =>
          /\ \A c \in Chunks : status[c] # "BUFFERED"
          /\ \A c \in current_chunks \ decayed :
                /\ \A i \in 1..hashed[c].n : i \in pieces[c]
                /\ hashed[c].good => \A i \in 1..hashed[c].n : disk[c][i] = "good"

\* What a restart will believe
Recorded ==
    /\ env.faults = 0 => decayed = {} /\ unwritten = {}
    /\ Faultless => index_file = bitset /\ loaded \subseteq bitset

IInv ==
    /\ Promised(env)
    /\ Typed
    /\ sessions = 0 => Pristine
    /\ StoppedIsIdle
    /\ Placed
    /\ Hashed
    /\ Recorded
    /\ MissingCanBeFetched

-----------------------------------------------------------------------------
(* Operators: what becomes of one chunk *)

Statuses == {"MMAPPED", "BUFFERED", "ON_DISK", "NOT_DOWNLOADED"}
ChunkState == [status : Statuses, ro : BOOLEAN, mem : Contents, disk : Contents]

\* only a mapping is read-only
Sound(k) == k \in ChunkState /\ (k.ro => k.status = "MMAPPED")

\* What the environment may be.
LEMMA EnvironmentTyped ==
    ASSUME Typed
    PROVE  /\ env \in Environment
           /\ MapResults \subseteq BOOLEAN /\ MapResults # {}
           /\ PieceQualities \subseteq {"good", "bad"}
  BY EnvironmentsAssumption DEF Typed, TypeOK, MapResults, PieceQualities, Environment

\* A new buffer is one the hash does not fit.
LEMMA AllBadIsBad == AllBad \in Contents /\ ~Good(AllBad)
  BY NumbersAssumption DEF AllBad, Contents, Good, Pieces

\* A chunk in passing is what the variables say of it.
LEMMA ChunkOfSound ==
    ASSUME Typed, NEW c \in Chunks
    PROVE  Sound(ChunkOf(c))
<1>1. status[c] \in Statuses /\ mem[c] \in Contents /\ disk[c] \in Contents
  BY DEF Typed, TypeOK, Statuses
<1>2. (c \in read_only) \in BOOLEAN
  OBVIOUS
<1>3. ChunkOf(c) \in ChunkState
  BY <1>1, <1>2, Zenon DEF ChunkOf, ChunkState
<1>4. ChunkOf(c).ro => ChunkOf(c).status = "MMAPPED"
  BY DEF Typed, TypeOK, ChunkOf
<1> QED
  BY <1>3, <1>4 DEF Sound

\* SingleFileCache::prep keeps the file; without a mapping there is an empty buffer.
LEMMA PrepSound ==
    ASSUME NEW k, Sound(k), NEW mapped \in BOOLEAN
    PROVE  /\ Sound(prep(k, mapped))
           /\ prep(k, mapped).disk = k.disk /\ ~prep(k, mapped).ro
           /\ prep(k, mapped).status = IF mapped THEN "MMAPPED" ELSE "BUFFERED"
  BY AllBadIsBad DEF Sound, prep, ChunkState, Statuses

\* SingleFileCache::load keeps the file.
LEMMA LoadSound ==
    ASSUME NEW k, Sound(k), NEW mapped \in BOOLEAN
    PROVE  /\ Sound(load(k, mapped))
           /\ load(k, mapped).disk = k.disk
           /\ load(k, mapped).status = IF mapped THEN "MMAPPED" ELSE "BUFFERED"
  BY AllBadIsBad DEF Sound, load, ChunkState, Statuses

\* Chunk::clear and setStatus keep the file.
LEMMA ClearedSound ==
    ASSUME NEW k, Sound(k), NEW s \in {"ON_DISK", "NOT_DOWNLOADED"}
    PROVE  /\ Sound(Cleared(k, s))
           /\ Cleared(k, s).disk = k.disk /\ Cleared(k, s).status = s
  BY AllBadIsBad DEF Sound, Cleared, ChunkState, Statuses

\* SingleFileCache::save puts the contents of the chunk in the file.
LEMMA SaveSound ==
    ASSUME NEW k, Sound(k)
    PROVE  /\ Sound(save(k)) /\ save(k).disk = Content(k)
           /\ InMemory(k) => save(k).status = "ON_DISK"
  BY AllBadIsBad DEF Sound, save, Cleared, Content, InMemory, ChunkState, Statuses

\* A piece is written to a mapping or to a buffer, and to no other piece.
LEMMA WrittenSound ==
    ASSUME Typed, NEW c \in Chunks, NEW p \in Pieces, NEW q \in {"good", "bad"},
           NEW mapped \in BOOLEAN, c \notin read_only, status[c] # "NOT_DOWNLOADED"
    PROVE  /\ Sound(Written(c, p, q, mapped))
           /\ InMemory(Written(c, p, q, mapped))
           /\ Written(c, p, q, mapped).status = "BUFFERED" =>
                 status[c] = "BUFFERED" \/ ~mapped
           /\ \A i \in Pieces \ {p} : Written(c, p, q, mapped).disk[i] = disk[c][i]
<1> DEFINE k == IF status[c] = "ON_DISK" THEN prep(ChunkOf(c), mapped) ELSE ChunkOf(c)
<1>1. Sound(k) /\ k.disk = disk[c] /\ k.status \in {"MMAPPED", "BUFFERED"}
  <2>1. ChunkOf(c).disk = disk[c] /\ ChunkOf(c).status = status[c]
    BY DEF ChunkOf
  <2>2. status[c] \in Statuses
    BY DEF Typed, TypeOK, Statuses
  <2> QED
    BY <2>1, <2>2, ChunkOfSound, PrepSound DEF Statuses
<1>2. ~k.ro
  BY ChunkOfSound, PrepSound DEF ChunkOf
<1>3. k.status = "BUFFERED" => status[c] = "BUFFERED" \/ ~mapped
  BY ChunkOfSound, PrepSound DEF ChunkOf
<1> HIDE DEF k
<1>4. \A f \in Contents : [f EXCEPT ![p] = q] \in Contents
  BY DEF Contents
<1> DEFINE u == IF k.status = "BUFFERED" THEN [k EXCEPT !.mem[p] = q]
                ELSE [k EXCEPT !.disk[p] = q]
<1>5. u \in ChunkState /\ u.status = k.status /\ u.ro = k.ro
  BY <1>1, <1>4 DEF Sound, ChunkState
<1>6. \A i \in Pieces \ {p} : u.disk[i] = disk[c][i]
  BY <1>1 DEF Sound, ChunkState, Contents
<1>7. Written(c, p, q, mapped) = u
  BY DEF Written, k, u
<1> QED
  BY <1>1, <1>2, <1>3, <1>5, <1>6, <1>7 DEF Sound, InMemory

\* Put changes one chunk, to what it is given.
LEMMA PutSound ==
    ASSUME Typed, NEW c \in Chunks, NEW k, Sound(k), Put(c, k)
    PROVE  /\ status' \in [Chunks -> Statuses]
           /\ mem' \in [Chunks -> Contents] /\ disk' \in [Chunks -> Contents]
           /\ read_only' \subseteq Chunks
           /\ \A x \in read_only' : status'[x] = "MMAPPED"
           /\ status'[c] = k.status /\ disk'[c] = k.disk
           /\ \A x \in Chunks \ {c} : status'[x] = status[x] /\ disk'[x] = disk[x]
<1>1. /\ status \in [Chunks -> Statuses]
      /\ mem \in [Chunks -> Contents] /\ disk \in [Chunks -> Contents]
      /\ read_only \subseteq Chunks /\ \A x \in read_only : status[x] = "MMAPPED"
  BY DEF Typed, TypeOK, Statuses
<1>2. k.status \in Statuses /\ k.mem \in Contents /\ k.disk \in Contents
  BY DEF Sound, ChunkState
<1>3. k.ro => k.status = "MMAPPED"
  BY DEF Sound
<1>4. /\ status' \in [Chunks -> Statuses]
      /\ mem' \in [Chunks -> Contents] /\ disk' \in [Chunks -> Contents]
      /\ status'[c] = k.status /\ disk'[c] = k.disk
      /\ \A x \in Chunks \ {c} : status'[x] = status[x] /\ disk'[x] = disk[x]
  BY <1>1, <1>2 DEF Put
<1>5. read_only' \subseteq Chunks /\ \A x \in read_only' : status'[x] = "MMAPPED"
  BY <1>1, <1>3, <1>4 DEF Put
<1> QED
  BY <1>4, <1>5

\* The largest of some numbers below a bound.
LEMMA MaxExists ==
    ASSUME NEW n \in Nat, NEW S \in SUBSET (0..n), S # {}
    PROVE  Max(S) \in S /\ \A x \in S : x <= Max(S)
<1>1. \A x \in S : n - x \in Nat
  OBVIOUS
<1> DEFINE T == {n - x : x \in S}
<1>2. T \subseteq Nat /\ T # {}
  BY <1>1
<1> HIDE DEF T
<1>3. PICK t \in T : \A y \in T : <<y, t>> \notin OpToRel(<, Nat)
  BY <1>2, NatLessThanWellFounded, WFMin, Zenon
<1>4. \A y \in T : ~(y < t)
  BY <1>2, <1>3, Zenon DEF OpToRel
<1>5. PICK x \in S : t = n - x
  BY DEF T
<1>6. \A y \in S : ~(n - y < n - x)
  BY <1>4, <1>5 DEF T
<1>7. \A y \in S : y <= x
  BY <1>6
<1> QED
  BY <1>7 DEF Max

\* ChunkDownload::updateHash goes on over pieces that are there, and over all of them
\* once the chunk is complete.
LEMMA HashedOn ==
    ASSUME NEW h \in Hash, NEW have, NEW content
    PROVE  LET u == UpdatedHash(h, have, content)
           IN /\ u \in Hash
              /\ u.n >= h.n /\ \A i \in (h.n + 1)..u.n : i \in have
              /\ u.good => h.good /\ \A i \in (h.n + 1)..u.n : content[i] = "good"
              /\ have = Pieces => u.n = NumPieces
<1> DEFINE S == {m \in h.n..NumPieces : \A i \in (h.n + 1)..m : i \in have}
<1>1. h.n \in 0..NumPieces /\ NumPieces \in Nat /\ h.good \in BOOLEAN
  BY NumbersAssumption DEF Hash
<1>2. S \in SUBSET (0..NumPieces) /\ h.n \in S
  BY <1>1
<1>3. Max(S) \in S /\ \A x \in S : x <= Max(S)
  BY <1>1, <1>2, MaxExists
<1>4. have = Pieces => NumPieces \in S
  BY <1>1 DEF Pieces
<1> DEFINE g == \A i \in (h.n + 1)..Max(S) : content[i] = "good"
<1>5. UpdatedHash(h, have, content) = [n |-> Max(S), good |-> h.good /\ g]
  BY DEF UpdatedHash
<1> HIDE DEF g
<1>6. (h.good /\ g) \in BOOLEAN
  OBVIOUS
<1>7. Max(S) \in h.n..NumPieces /\ \A i \in (h.n + 1)..Max(S) : i \in have
  BY <1>3
<1>8. have = Pieces => Max(S) = NumPieces
  BY <1>1, <1>3, <1>4
<1> HIDE DEF S
<1>9. /\ UpdatedHash(h, have, content).n = Max(S)
      /\ UpdatedHash(h, have, content).good = (h.good /\ g)
  BY <1>5
<1>10. UpdatedHash(h, have, content) \in Hash
  BY <1>1, <1>5, <1>6, <1>7 DEF Hash
<1>11. UpdatedHash(h, have, content).good =>
          h.good /\ \A i \in (h.n + 1)..Max(S) : content[i] = "good"
  BY <1>9 DEF g
<1> QED
  BY <1>1, <1>7, <1>8, <1>9, <1>10, <1>11

-----------------------------------------------------------------------------
(* The steps of a running torrent *)

\* A torrent that runs was started.
LEMMA RunningStarted ==
    ASSUME IInv, running
    PROVE  sessions # 0
  BY DEF IInv, Pristine

\* Where pieces are hashed as they arrive, every chunk is mapped.
LEMMA AlwaysMapped ==
    ASSUME IInv, env.hashing, NEW mapped \in MapResults
    PROVE  mapped = TRUE
  BY DEF IInv, Promised, MapResults

\* Downloader::downloadFrom
LEMMA StartDownloadKeeps ==
    ASSUME IInv, NEW c \in Chunks, StartDownload(c)
    PROVE  IInv'
<1> USE DEF StartDownload, manager, others, history
<1>1. PICK mapped \in MapResults : Put(c, prep(ChunkOf(c), mapped))
  OBVIOUS
<1> DEFINE k == prep(ChunkOf(c), mapped)
<1>2. /\ Sound(k) /\ k.disk = disk[c]
      /\ k.status = IF mapped THEN "MMAPPED" ELSE "BUFFERED"
  BY ChunkOfSound, PrepSound, EnvironmentTyped DEF ChunkOf, IInv
<1> HIDE DEF k
<1>3. /\ status' \in [Chunks -> Statuses]
      /\ mem' \in [Chunks -> Contents] /\ disk' \in [Chunks -> Contents]
      /\ read_only' \subseteq Chunks
      /\ \A x \in read_only' : status'[x] = "MMAPPED"
      /\ status'[c] = k.status /\ disk'[c] = disk[c]
      /\ \A x \in Chunks \ {c} : status'[x] = status[x] /\ disk'[x] = disk[x]
  BY <1>1, <1>2, PutSound DEF IInv, k
<1>4. Typed'
  <2>1. hashed' \in [Chunks -> Hash] /\ hashed'[c] = NoHash
    BY NumbersAssumption DEF IInv, Typed, Hash, NoHash
  <2>2. pieces' \in [Chunks -> SUBSET Pieces] /\ chunks' \subseteq Chunks
    BY DEF IInv, Typed, TypeOK
  <2>3. current_chunks' \subseteq Chunks
    BY DEF IInv, Typed, TypeOK
  <2> QED
    BY <1>3, <2>1, <2>2, <2>3 DEF IInv, Typed, TypeOK, Statuses, Hash
<1>5. Promised(env)' /\ (sessions = 0 => Pristine)' /\ StoppedIsIdle'
  BY RunningStarted DEF IInv, StoppedIsIdle, Promised
<1>6. Placed'
  BY <1>2, <1>3 DEF IInv, Placed, Typed, TypeOK
<1>7. Hashed'
  <2>1. \A x \in bitset' \ decayed' : Good(disk'[x])
    BY <1>3 DEF IInv, Hashed, Typed, TypeOK
  <2>2. ASSUME env.hashing PROVE \A x \in Chunks : status'[x] # "BUFFERED"
    BY <1>2, <1>3, <2>2, AlwaysMapped, ZenonT(60) DEF IInv, Hashed
  <2>3. /\ hashed'[c].n = 0
        /\ \A x \in Chunks \ {c} : hashed'[x] = hashed[x] /\ pieces'[x] = pieces[x]
    BY DEF IInv, Typed, TypeOK, NoHash
  <2>4. ASSUME env.hashing, NEW x \in current_chunks' \ decayed'
        PROVE  /\ \A i \in 1..hashed'[x].n : i \in pieces'[x]
               /\ hashed'[x].good => \A i \in 1..hashed'[x].n : disk'[x][i] = "good"
    <3>1. CASE x = c
      BY <2>3, <3>1
    <3>2. CASE x # c
      BY <1>3, <2>3, <2>4, <3>2 DEF IInv, Hashed, Typed, TypeOK
    <3> QED
      BY <3>1, <3>2
  <2> QED
    BY <2>1, <2>2, <2>4 DEF Hashed, Good
<1>8. Recorded'
  BY DEF IInv, Recorded, Faultless
<1>9. MissingCanBeFetched'
  BY <1>2, <1>3 DEF IInv, MissingCanBeFetched, Typed, TypeOK
<1> QED
  BY <1>4, <1>5, <1>6, <1>7, <1>8, <1>9 DEF IInv

\* A chunk that is there, in progress or given up goes into memory or out of it, and
\* its part of the file stays as it is.
LEMMA ChunkMoves ==
    ASSUME IInv, running, NEW c \in bitset \cup current_chunks \cup unwritten,
           NEW k, Sound(k), Put(c, k), k.disk = disk[c], k.status # "NOT_DOWNLOADED",
           env.hashing => k.status # "BUFFERED",
           loaded' \subseteq loaded \cup {c}, Faultless => loaded' \subseteq bitset,
           recheck_counter' \in 0..RecheckAt,
           UNCHANGED <<bitset, corrupted_count, index_file, downloads, others>>
    PROVE  IInv'
<1> USE DEF downloads, others, history
<1>1. c \in Chunks
  BY DEF IInv, Typed, TypeOK
<1>2. /\ status' \in [Chunks -> Statuses]
      /\ mem' \in [Chunks -> Contents] /\ disk' \in [Chunks -> Contents]
      /\ read_only' \subseteq Chunks
      /\ \A x \in read_only' : status'[x] = "MMAPPED"
      /\ status'[c] = k.status /\ disk'[c] = disk[c]
      /\ \A x \in Chunks \ {c} : status'[x] = status[x] /\ disk'[x] = disk[x]
  BY <1>1, PutSound DEF IInv
<1>3. \A x \in Chunks : disk'[x] = disk[x]
  BY <1>2
<1>4. Typed'
  <2>1. loaded' \subseteq Chunks
    BY <1>1 DEF IInv, Typed, TypeOK
  <2> QED
    BY <1>2, <2>1 DEF IInv, Typed, TypeOK, Statuses, Hash
<1>5. Promised(env)' /\ (sessions = 0 => Pristine)' /\ StoppedIsIdle'
  BY RunningStarted DEF IInv, StoppedIsIdle, Promised
<1>6. Placed'
  BY <1>2 DEF IInv, Placed, Typed, TypeOK
<1>7. Hashed'
  <2>1. \A x \in bitset' \ decayed' : Good(disk'[x])
    BY <1>3 DEF IInv, Hashed, Typed, TypeOK
  <2>2. ASSUME env.hashing PROVE \A x \in Chunks : status'[x] # "BUFFERED"
    BY <1>2, <2>2 DEF IInv, Hashed
  <2>3. ASSUME env.hashing, NEW x \in current_chunks' \ decayed'
        PROVE  /\ \A i \in 1..hashed'[x].n : i \in pieces'[x]
               /\ hashed'[x].good => \A i \in 1..hashed'[x].n : disk'[x][i] = "good"
    BY <1>3, <2>3 DEF IInv, Hashed, Typed, TypeOK
  <2> QED
    BY <2>1, <2>2, <2>3 DEF Hashed, Good
<1>8. Recorded'
  BY DEF IInv, Recorded, Faultless
<1>9. MissingCanBeFetched'
  BY <1>2 DEF IInv, MissingCanBeFetched, Typed, TypeOK
<1> QED
  BY <1>4, <1>5, <1>6, <1>7, <1>8, <1>9 DEF IInv

\* Downloader: a chunk that was put away is prepared again.
LEMMA ReloadKeeps ==
    ASSUME IInv, NEW c \in Chunks, Reload(c)
    PROVE  IInv'
<1>1. PICK mapped \in MapResults : Put(c, prep(ChunkOf(c), mapped))
  BY DEF Reload
<1> DEFINE k == prep(ChunkOf(c), mapped)
<1>2. /\ Sound(k) /\ k.disk = disk[c]
      /\ k.status = IF mapped THEN "MMAPPED" ELSE "BUFFERED"
  BY ChunkOfSound, PrepSound, EnvironmentTyped DEF ChunkOf, IInv
<1>3. Put(c, k)
  BY <1>1
<1>4. env.hashing => k.status # "BUFFERED"
  BY <1>2, AlwaysMapped
<1> HIDE DEF k
<1> QED
  BY <1>2, <1>3, <1>4, ChunkMoves
     DEF Reload, manager, IInv, Recorded, Typed, TypeOK

\* Downloader::normalUpdate: an idle chunk is put away.
LEMMA PutAwayKeeps ==
    ASSUME IInv, NEW c \in Chunks, PutAway(c)
    PROVE  IInv'
<1> DEFINE k == save(ChunkOf(c))
<1>1. Sound(ChunkOf(c)) /\ ChunkOf(c).status = "MMAPPED" /\ ChunkOf(c).disk = disk[c]
  BY ChunkOfSound DEF IInv, PutAway, ChunkOf
<1>2. Sound(k) /\ k.disk = disk[c] /\ k.status = "ON_DISK"
  BY <1>1, SaveSound DEF Content, InMemory
<1>3. Put(c, k)
  BY DEF PutAway
<1> HIDE DEF k
<1> QED
  BY <1>2, <1>3, ChunkMoves DEF PutAway, manager, IInv, Recorded, Typed, TypeOK

\* ChunkManager::grabChunk: only a chunk that is not missing is ever grabbed.
LEMMA GrabbedIsPlaced ==
    ASSUME IInv, NEW c \in Chunks, Asked(c), status[c] # "NOT_DOWNLOADED"
    PROVE  /\ c \in bitset \cup current_chunks \cup unwritten
           /\ Faultless => c \in bitset
  BY DEF IInv, MissingCanBeFetched, Asked, Faultless

\* ChunkManager::grabChunk: the chunk is in memory.
LEMMA GrabInMemoryKeeps ==
    ASSUME IInv, NEW c \in Chunks, GrabInMemory(c)
    PROVE  IInv'
<1> USE DEF GrabInMemory, memory, downloads, others, history
<1>1. c \in bitset \cup current_chunks \cup unwritten /\ (Faultless => c \in bitset)
  BY GrabbedIsPlaced
<1>2. Typed'
  BY DEF IInv, Typed, TypeOK, Hash
<1>3. Promised(env)' /\ (sessions = 0 => Pristine)' /\ StoppedIsIdle'
  BY RunningStarted DEF Asked, IInv, StoppedIsIdle, Promised
<1>4. Placed'
  BY <1>1 DEF IInv, Placed
<1>5. Hashed' /\ MissingCanBeFetched'
  BY DEF IInv, Hashed, MissingCanBeFetched, Good
<1>6. Recorded'
  BY <1>1 DEF IInv, Recorded, Faultless
<1> QED
  BY <1>2, <1>3, <1>4, <1>5, <1>6 DEF IInv

\* ChunkManager::grabChunk: the chunk is loaded.
LEMMA GrabLoadsKeeps ==
    ASSUME IInv, NEW c \in Chunks, GrabLoads(c)
    PROVE  IInv'
<1>1. PICK mapped \in MapResults : Put(c, load(ChunkOf(c), mapped))
  BY DEF GrabLoads
<1> DEFINE k == load(ChunkOf(c), mapped)
<1>2. /\ Sound(k) /\ k.disk = disk[c]
      /\ k.status = IF mapped THEN "MMAPPED" ELSE "BUFFERED"
  BY ChunkOfSound, LoadSound, EnvironmentTyped DEF ChunkOf, IInv
<1>3. Put(c, k)
  BY <1>1
<1>4. env.hashing => k.status # "BUFFERED"
  BY <1>2, AlwaysMapped
<1> HIDE DEF k
<1>5. c \in bitset \cup current_chunks \cup unwritten /\ (Faultless => c \in bitset)
  BY GrabbedIsPlaced DEF GrabLoads
<1>6. recheck_counter' \in 0..RecheckAt
  BY NumbersAssumption DEF GrabLoads, CheckAllowed, IInv, Typed, TypeOK
<1>7. Faultless => loaded' \subseteq bitset
  BY <1>5 DEF GrabLoads, IInv, Recorded
<1> QED
  BY <1>2, <1>3, <1>4, <1>5, <1>6, <1>7, ChunkMoves DEF GrabLoads, Asked

\* ChunkManager::checkMemoryUsage
LEMMA FreeChunkKeeps ==
    ASSUME IInv, NEW c \in Chunks, FreeChunk(c)
    PROVE  IInv'
<1> DEFINE k == Cleared(ChunkOf(c), "ON_DISK")
<1>1. Sound(k) /\ k.disk = disk[c] /\ k.status = "ON_DISK"
  BY ChunkOfSound, ClearedSound DEF IInv, ChunkOf
<1>2. Put(c, k)
  BY DEF FreeChunk
<1> HIDE DEF k
<1>3. c \in bitset \cup current_chunks \cup unwritten
  BY DEF FreeChunk, IInv, Placed
<1> QED
  BY <1>1, <1>2, <1>3, ChunkMoves DEF FreeChunk, IInv, Recorded, Typed, TypeOK

-----------------------------------------------------------------------------
(* Downloader::pieceRecieved *)

\* The piece p, of quality q, arrives for the chunk c; k and h are the chunk and its
\* hash with the piece.
Arrives(c, p, q, mapped, k, h) ==
    /\ Receives(c, p) /\ q \in PieceQualities /\ mapped \in MapResults
    /\ k = Written(c, p, q, mapped)
    /\ h = UpdatedHash(hashed[c], pieces'[c], Content(k))

\* What was hashed is there and, unless it went bad on the disk or was found bad, good;
\* a chunk that passes is good.
LEMMA PieceArrives ==
    ASSUME IInv, NEW c \in Chunks, NEW p \in Pieces, NEW q, NEW mapped, NEW k, NEW h,
           Arrives(c, p, q, mapped, k, h)
    PROVE  /\ Sound(k) /\ InMemory(k) /\ h \in Hash
           /\ pieces' \in [Chunks -> SUBSET Pieces]
           /\ \A x \in Chunks \ {c} : pieces'[x] = pieces[x]
           /\ env.hashing => k.status = "MMAPPED"
           /\ env.hashing /\ c \notin decayed =>
                 /\ \A i \in 1..h.n : i \in pieces'[c]
                 /\ h.good => \A i \in 1..h.n : k.disk[i] = "good"
           /\ pieces'[c] = Pieces /\ HashOK(c, k, h) /\ c \notin decayed => Good(Content(k))
<1> USE DEF Arrives, Receives
<1>1. mapped \in BOOLEAN /\ q \in {"good", "bad"}
  BY EnvironmentTyped DEF IInv
<1>2. /\ Sound(k) /\ InMemory(k)
      /\ k.status = "BUFFERED" => status[c] = "BUFFERED" \/ ~mapped
      /\ \A i \in Pieces \ {p} : k.disk[i] = disk[c][i]
  BY <1>1, WrittenSound DEF IInv
<1>3. /\ pieces' \in [Chunks -> SUBSET Pieces]
      /\ pieces'[c] = pieces[c] \cup {p}
      /\ \A x \in Chunks \ {c} : pieces'[x] = pieces[x]
  BY DEF IInv, Typed, TypeOK
<1>4. hashed[c] \in Hash
  BY DEF IInv, Typed
<1>5. /\ h \in Hash
      /\ h.n >= hashed[c].n /\ \A i \in (hashed[c].n + 1)..h.n : i \in pieces'[c]
      /\ h.good => /\ hashed[c].good
                   /\ \A i \in (hashed[c].n + 1)..h.n : Content(k)[i] = "good"
      /\ pieces'[c] = Pieces => h.n = NumPieces
  <2> DEFINE have == pieces'[c]
             content == Content(k)
             u == UpdatedHash(hashed[c], have, content)
  <2>1. h = u
    OBVIOUS
  <2> HIDE DEF have, content
  <2>2. /\ u \in Hash
        /\ u.n >= hashed[c].n /\ \A i \in (hashed[c].n + 1)..u.n : i \in have
        /\ u.good => hashed[c].good /\ \A i \in (hashed[c].n + 1)..u.n : content[i] = "good"
        /\ have = Pieces => u.n = NumPieces
    BY <1>4, HashedOn, Zenon
  <2> HIDE DEF u
  <2> QED
    BY <2>1, <2>2 DEF have, content
<1>6. hashed[c].n \in Nat /\ h.n \in Nat /\ h.n <= NumPieces /\ NumPieces \in Nat
  BY <1>4, <1>5, NumbersAssumption DEF Hash
<1>7. ASSUME env.hashing PROVE k.status = "MMAPPED" /\ Content(k) = k.disk
  <2>1. mapped = TRUE /\ status[c] # "BUFFERED"
    BY <1>7, AlwaysMapped DEF IInv, Hashed
  <2> QED
    BY <1>2, <2>1 DEF InMemory, Content
<1>8. ASSUME env.hashing, c \notin decayed
      PROVE  /\ \A i \in 1..h.n : i \in pieces'[c]
             /\ h.good => \A i \in 1..h.n : k.disk[i] = "good"
  <2>1. /\ \A i \in 1..hashed[c].n : i \in pieces[c]
        /\ hashed[c].good => \A i \in 1..hashed[c].n : disk[c][i] = "good"
    BY <1>8 DEF IInv, Hashed
  <2>2. \A i \in 1..h.n : i \in 1..hashed[c].n \/ i \in (hashed[c].n + 1)..h.n
    BY <1>6
  <2>3. \A i \in 1..h.n : i \in pieces'[c]
    BY <1>3, <1>5, <2>1, <2>2
  <2>4. ASSUME h.good, NEW i \in 1..h.n PROVE k.disk[i] = "good"
    <3>1. CASE i \in 1..hashed[c].n
      <4>1. i \in Pieces \ {p} /\ disk[c][i] = "good"
        BY <1>5, <1>6, <2>1, <2>4, <3>1 DEF Pieces
      <4> QED
        BY <1>2, <4>1
    <3>2. CASE i \in (hashed[c].n + 1)..h.n
      BY <1>5, <1>7, <1>8, <2>4, <3>2
    <3> QED
      BY <2>2, <3>1, <3>2
  <2> QED
    BY <2>3, <2>4
<1>9. ASSUME pieces'[c] = Pieces, HashOK(c, k, h), c \notin decayed PROVE Good(Content(k))
  <2>1. CASE env.hashing
    <3>1. h.good /\ h.n = NumPieces
      BY <1>5, <1>9, <2>1 DEF HashOK
    <3> QED
      BY <1>7, <1>8, <1>9, <2>1, <3>1 DEF Good, Pieces
  <2>2. CASE ~env.hashing
    BY <1>9, <2>2 DEF HashOK
  <2> QED
    BY <2>1, <2>2
<1> QED
  BY <1>2, <1>3, <1>5, <1>7, <1>8, <1>9

\* What is left of the invariant when the piece is stored and the chunk becomes k:
\* every other chunk is as it was.
LEMMA OthersStay ==
    ASSUME IInv, running, UNCHANGED <<running, sessions, env>>, NEW c \in current_chunks,
           NEW k, Sound(k), Put(c, k), env.hashing => k.status # "BUFFERED"
    PROVE  /\ status' \in [Chunks -> Statuses]
           /\ mem' \in [Chunks -> Contents] /\ disk' \in [Chunks -> Contents]
           /\ read_only' \subseteq Chunks
           /\ \A x \in read_only' : status'[x] = "MMAPPED"
           /\ c \in Chunks /\ status'[c] = k.status /\ disk'[c] = k.disk
           /\ \A x \in Chunks \ {c} : status'[x] = status[x] /\ disk'[x] = disk[x]
           /\ Promised(env)' /\ (sessions = 0 => Pristine)' /\ StoppedIsIdle'
           /\ \A x \in bitset \ decayed : Good(disk'[x])
           /\ env.hashing => \A x \in Chunks : status'[x] # "BUFFERED"
<1>1. c \in Chunks /\ c \notin bitset
  BY DEF IInv, Typed, TypeOK, Placed
<1>2. /\ status' \in [Chunks -> Statuses]
      /\ mem' \in [Chunks -> Contents] /\ disk' \in [Chunks -> Contents]
      /\ read_only' \subseteq Chunks
      /\ \A x \in read_only' : status'[x] = "MMAPPED"
      /\ status'[c] = k.status /\ disk'[c] = k.disk
      /\ \A x \in Chunks \ {c} : status'[x] = status[x] /\ disk'[x] = disk[x]
  BY <1>1, PutSound DEF IInv
<1>3. Promised(env)' /\ (sessions = 0 => Pristine)' /\ StoppedIsIdle'
  BY RunningStarted DEF IInv, StoppedIsIdle, Promised
<1>4. \A x \in bitset \ decayed : Good(disk'[x])
  BY <1>1, <1>2 DEF IInv, Hashed, Typed, TypeOK
<1>5. env.hashing => \A x \in Chunks : status'[x] # "BUFFERED"
  BY <1>2 DEF IInv, Hashed
<1> QED
  BY <1>1, <1>2, <1>3, <1>4, <1>5

\* The piece does not complete the chunk.
LEMMA PieceStoredKeeps ==
    ASSUME IInv, NEW c \in Chunks, NEW p \in Pieces, PieceStored(c, p)
    PROVE  IInv'
<1>1. PICK q \in PieceQualities, mapped \in MapResults, idle \in BOOLEAN :
         LET k == Written(c, p, q, mapped)
         IN /\ Receives(c, p) /\ pieces'[c] # Pieces
            /\ Put(c, IF idle /\ k.status = "MMAPPED" THEN save(k) ELSE k)
            /\ hashed' = [hashed EXCEPT ![c] = UpdatedHash(@, pieces'[c], Content(k))]
            /\ UNCHANGED <<manager, current_chunks, chunks, others>>
  BY DEF PieceStored
<1> DEFINE k == Written(c, p, q, mapped)
           h == UpdatedHash(hashed[c], pieces'[c], Content(k))
           s == IF idle /\ k.status = "MMAPPED" THEN save(k) ELSE k
<1>2. Arrives(c, p, q, mapped, k, h)
  BY <1>1 DEF Arrives
<1>3. Put(c, s) /\ hashed' = [hashed EXCEPT ![c] = h]
  BY <1>1
<1> HIDE DEF k, h
<1>4. /\ Sound(k) /\ InMemory(k) /\ h \in Hash
      /\ pieces' \in [Chunks -> SUBSET Pieces]
      /\ \A x \in Chunks \ {c} : pieces'[x] = pieces[x]
      /\ env.hashing => k.status = "MMAPPED"
      /\ env.hashing /\ c \notin decayed =>
            /\ \A i \in 1..h.n : i \in pieces'[c]
            /\ h.good => \A i \in 1..h.n : k.disk[i] = "good"
  BY <1>2, PieceArrives
<1>5. /\ running /\ c \in current_chunks
      /\ UNCHANGED <<manager, current_chunks, chunks, others>>
  BY <1>1 DEF Receives
<1>6. /\ Sound(s) /\ s.status # "NOT_DOWNLOADED"
      /\ env.hashing => s.status # "BUFFERED" /\ s.disk = k.disk
  BY <1>4, SaveSound DEF InMemory, Content
<1> HIDE DEF s
<1>7. /\ status' \in [Chunks -> Statuses]
      /\ mem' \in [Chunks -> Contents] /\ disk' \in [Chunks -> Contents]
      /\ read_only' \subseteq Chunks
      /\ \A x \in read_only' : status'[x] = "MMAPPED"
      /\ status'[c] = s.status /\ disk'[c] = s.disk
      /\ \A x \in Chunks \ {c} : status'[x] = status[x] /\ disk'[x] = disk[x]
      /\ Promised(env)' /\ (sessions = 0 => Pristine)' /\ StoppedIsIdle'
      /\ \A x \in bitset \ decayed : Good(disk'[x])
      /\ env.hashing => \A x \in Chunks : status'[x] # "BUFFERED"
  BY <1>3, <1>5, <1>6, OthersStay DEF others, history
<1>8. /\ hashed' \in [Chunks -> Hash] /\ hashed'[c] = h
      /\ \A x \in Chunks \ {c} : hashed'[x] = hashed[x]
  BY <1>3, <1>4 DEF IInv, Typed
<1> USE DEF manager, others, history
<1>9. Typed'
  BY <1>4, <1>5, <1>7, <1>8 DEF IInv, Typed, TypeOK, Statuses, Hash
<1>10. Placed'
  BY <1>5, <1>6, <1>7 DEF IInv, Placed, Typed, TypeOK
<1>11. Hashed'
  <2>1. ASSUME env.hashing, NEW x \in current_chunks' \ decayed'
        PROVE  /\ \A i \in 1..hashed'[x].n : i \in pieces'[x]
               /\ hashed'[x].good => \A i \in 1..hashed'[x].n : disk'[x][i] = "good"
    <3>1. CASE x = c
      BY <1>4, <1>5, <1>6, <1>7, <1>8, <2>1, <3>1
    <3>2. CASE x # c
      <4>1. x \in Chunks \ {c} /\ x \in current_chunks \ decayed
        BY <1>5, <2>1, <3>2 DEF IInv, Typed, TypeOK
      <4> QED
        BY <1>4, <1>7, <1>8, <2>1, <4>1 DEF IInv, Hashed
    <3> QED
      BY <3>1, <3>2
  <2> QED
    BY <1>5, <1>7, <2>1 DEF Hashed, Good
<1>12. Recorded' /\ MissingCanBeFetched'
  BY <1>5, <1>7 DEF IInv, Recorded, Faultless, MissingCanBeFetched
<1> QED
  BY <1>7, <1>9, <1>10, <1>11, <1>12 DEF IInv

\* The hash of a chunk that leaves is of no account any more.
LEMMA OthersHashed ==
    ASSUME IInv, NEW c \in Chunks, current_chunks' = current_chunks \ {c},
           UNCHANGED <<env, hashed, decayed>>,
           \A x \in Chunks \ {c} : disk'[x] = disk[x] /\ pieces'[x] = pieces[x],
           env.hashing => \A x \in Chunks : status'[x] # "BUFFERED",
           \A x \in bitset' \ decayed : Good(disk'[x])
    PROVE  Hashed'
<1>1. ASSUME env.hashing, NEW x \in current_chunks' \ decayed'
      PROVE  /\ \A i \in 1..hashed'[x].n : i \in pieces'[x]
             /\ hashed'[x].good => \A i \in 1..hashed'[x].n : disk'[x][i] = "good"
  <2>1. x \in Chunks \ {c} /\ x \in current_chunks \ decayed
    BY <1>1 DEF IInv, Typed, TypeOK
  <2> QED
    BY <1>1, <2>1 DEF IInv, Hashed
<1> QED
  BY <1>1 DEF Hashed, Good

\* The chunk is complete and its hash right: ChunkManager::saveChunk.
LEMMA ChunkVerifiedKeeps ==
    ASSUME IInv, NEW c \in Chunks, NEW p \in Pieces, ChunkVerified(c, p)
    PROVE  IInv'
<1>1. PICK q \in PieceQualities, mapped \in MapResults :
         LET k == Written(c, p, q, mapped)
             h == UpdatedHash(hashed[c], pieces'[c], Content(k))
         IN /\ Receives(c, p) /\ pieces'[c] = Pieces
            /\ HashOK(c, k, h)
            /\ Put(c, save(k))
            /\ bitset' = bitset \cup {c}
            /\ index_file' = index_file \cup {c}
            /\ current_chunks' = current_chunks \ {c}
            /\ UNCHANGED <<loaded, recheck_counter, corrupted_count, hashed, chunks, others>>
  BY DEF ChunkVerified
<1> DEFINE k == Written(c, p, q, mapped)
           h == UpdatedHash(hashed[c], pieces'[c], Content(k))
<1>2. Arrives(c, p, q, mapped, k, h) /\ HashOK(c, k, h) /\ Put(c, save(k))
  BY <1>1 DEF Arrives
<1>3. /\ running /\ c \in current_chunks /\ pieces'[c] = Pieces
      /\ bitset' = bitset \cup {c} /\ index_file' = index_file \cup {c}
      /\ current_chunks' = current_chunks \ {c}
      /\ UNCHANGED <<loaded, recheck_counter, corrupted_count, hashed, chunks, others>>
  BY <1>1 DEF Receives
<1> HIDE DEF k, h
<1>4. /\ Sound(k) /\ InMemory(k)
      /\ pieces' \in [Chunks -> SUBSET Pieces]
      /\ \A x \in Chunks \ {c} : pieces'[x] = pieces[x]
      /\ c \notin decayed => Good(Content(k))
  BY <1>2, <1>3, PieceArrives
<1>5. Sound(save(k)) /\ save(k).status = "ON_DISK" /\ save(k).disk = Content(k)
  BY <1>4, SaveSound
<1>6. /\ status' \in [Chunks -> Statuses]
      /\ mem' \in [Chunks -> Contents] /\ disk' \in [Chunks -> Contents]
      /\ read_only' \subseteq Chunks
      /\ \A x \in read_only' : status'[x] = "MMAPPED"
      /\ status'[c] = "ON_DISK" /\ disk'[c] = Content(k)
      /\ \A x \in Chunks \ {c} : status'[x] = status[x] /\ disk'[x] = disk[x]
      /\ Promised(env)' /\ (sessions = 0 => Pristine)' /\ StoppedIsIdle'
      /\ \A x \in bitset \ decayed : Good(disk'[x])
      /\ env.hashing => \A x \in Chunks : status'[x] # "BUFFERED"
  <2> DEFINE s == save(k)
  <2>1. Put(c, s) /\ Sound(s) /\ s.status = "ON_DISK" /\ s.disk = Content(k)
    BY <1>2, <1>5
  <2> HIDE DEF s
  <2> QED
    BY <1>3, <2>1, OthersStay DEF others, history
<1> USE DEF others, history
<1>7. Typed'
  BY <1>3, <1>4, <1>6 DEF IInv, Typed, TypeOK, Statuses, Hash
<1>8. Placed'
  BY <1>3, <1>6 DEF IInv, Placed, Typed, TypeOK
<1>9. Hashed'
  BY <1>3, <1>4, <1>6, OthersHashed
<1>10. Recorded' /\ MissingCanBeFetched'
  BY <1>3, <1>6 DEF IInv, Recorded, Faultless, MissingCanBeFetched
<1> QED
  BY <1>6, <1>7, <1>8, <1>9, <1>10 DEF IInv

\* Only a disk with a fault left fails.
LEMMA FaultsAreLeft ==
    ASSUME IInv, MayFail
    PROVE  env.faults > 0
<1>1. env.faults \in Nat
  BY EnvironmentTyped DEF IInv, Environment
<1>2. CASE env.faults = 0
  BY <1>2, FS_EmptySet DEF MayFail, IInv, Recorded
<1> QED
  BY <1>1, <1>2

\* The chunk is complete and right, and cannot be written.
LEMMA SaveFailsKeeps ==
    ASSUME IInv, NEW c \in Chunks, NEW p \in Pieces, SaveFails(c, p)
    PROVE  IInv'
<1>1. PICK q \in PieceQualities, mapped \in MapResults :
         LET k == Written(c, p, q, mapped)
             h == UpdatedHash(hashed[c], pieces'[c], Content(k))
         IN /\ MayFail
            /\ Receives(c, p) /\ pieces'[c] = Pieces
            /\ HashOK(c, k, h) /\ k.status = "BUFFERED"
            /\ Put(c, k)
            /\ current_chunks' = current_chunks \ {c}
            /\ unwritten' = unwritten \cup {c}
            /\ UNCHANGED <<manager, hashed, chunks, running, saved, sessions, env, decayed>>
  BY DEF SaveFails
<1> DEFINE k == Written(c, p, q, mapped)
           h == UpdatedHash(hashed[c], pieces'[c], Content(k))
<1>2. Arrives(c, p, q, mapped, k, h) /\ Put(c, k) /\ k.status = "BUFFERED"
  BY <1>1 DEF Arrives
<1>3. /\ running /\ c \in current_chunks /\ MayFail
      /\ current_chunks' = current_chunks \ {c} /\ unwritten' = unwritten \cup {c}
      /\ UNCHANGED <<manager, hashed, chunks, running, saved, sessions, env, decayed>>
  BY <1>1 DEF Receives
<1> HIDE DEF k, h
<1>4. /\ Sound(k)
      /\ pieces' \in [Chunks -> SUBSET Pieces]
      /\ \A x \in Chunks \ {c} : pieces'[x] = pieces[x]
      /\ ~env.hashing
  BY <1>2, PieceArrives
<1>5. /\ status' \in [Chunks -> Statuses]
      /\ mem' \in [Chunks -> Contents] /\ disk' \in [Chunks -> Contents]
      /\ read_only' \subseteq Chunks
      /\ \A x \in read_only' : status'[x] = "MMAPPED"
      /\ \A x \in Chunks \ {c} : status'[x] = status[x] /\ disk'[x] = disk[x]
      /\ Promised(env)' /\ (sessions = 0 => Pristine)' /\ StoppedIsIdle'
      /\ \A x \in bitset \ decayed : Good(disk'[x])
  BY <1>2, <1>3, <1>4, OthersStay
<1> USE DEF manager
<1>6. Typed'
  BY <1>3, <1>4, <1>5 DEF IInv, Typed, TypeOK, Statuses, Hash
<1>7. Placed'
  BY <1>3, <1>5 DEF IInv, Placed, Typed, TypeOK
<1>8. Hashed'
  BY <1>3, <1>4, <1>5, OthersHashed
<1>9. Recorded' /\ MissingCanBeFetched'
  BY <1>3, <1>5, FaultsAreLeft DEF IInv, Recorded, Faultless, MissingCanBeFetched
<1> QED
  BY <1>5, <1>6, <1>7, <1>8, <1>9 DEF IInv

\* The chunk is complete and its hash wrong: ChunkManager::resetChunk.
LEMMA ChunkRejectedKeeps ==
    ASSUME IInv, NEW c \in Chunks, NEW p \in Pieces, ChunkRejected(c, p)
    PROVE  IInv'
<1>1. PICK q \in PieceQualities, mapped \in MapResults :
         LET k == Written(c, p, q, mapped)
             h == UpdatedHash(hashed[c], pieces'[c], Content(k))
         IN /\ Receives(c, p) /\ pieces'[c] = Pieces
            /\ ~HashOK(c, k, h)
            /\ Put(c, Cleared(k, "NOT_DOWNLOADED"))
            /\ bitset' = bitset \ {c}
            /\ loaded' = loaded \ {c}
            /\ chunks' = chunks \cup {c}
            /\ current_chunks' = current_chunks \ {c}
            /\ UNCHANGED <<recheck_counter, corrupted_count, index_file, hashed, others>>
  BY DEF ChunkRejected
<1> DEFINE k == Written(c, p, q, mapped)
           h == UpdatedHash(hashed[c], pieces'[c], Content(k))
           s == Cleared(k, "NOT_DOWNLOADED")
<1>2. Arrives(c, p, q, mapped, k, h) /\ Put(c, s)
  BY <1>1 DEF Arrives
<1>3. /\ running /\ c \in current_chunks
      /\ bitset' = bitset \ {c} /\ loaded' = loaded \ {c}
      /\ chunks' = chunks \cup {c} /\ current_chunks' = current_chunks \ {c}
      /\ UNCHANGED <<recheck_counter, corrupted_count, index_file, hashed, others>>
  BY <1>1 DEF Receives
<1> HIDE DEF k, h
<1>4. /\ Sound(k)
      /\ pieces' \in [Chunks -> SUBSET Pieces]
      /\ \A x \in Chunks \ {c} : pieces'[x] = pieces[x]
  BY <1>2, PieceArrives
<1>5. Sound(s) /\ s.status = "NOT_DOWNLOADED"
  BY <1>4, ClearedSound
<1> HIDE DEF s
<1> USE DEF others, history
<1>6. /\ status' \in [Chunks -> Statuses]
      /\ mem' \in [Chunks -> Contents] /\ disk' \in [Chunks -> Contents]
      /\ read_only' \subseteq Chunks
      /\ \A x \in read_only' : status'[x] = "MMAPPED"
      /\ status'[c] = "NOT_DOWNLOADED"
      /\ \A x \in Chunks \ {c} : status'[x] = status[x] /\ disk'[x] = disk[x]
      /\ Promised(env)' /\ (sessions = 0 => Pristine)' /\ StoppedIsIdle'
      /\ \A x \in bitset \ decayed : Good(disk'[x])
      /\ env.hashing => \A x \in Chunks : status'[x] # "BUFFERED"
  BY <1>2, <1>3, <1>5, OthersStay
<1>7. bitset' = bitset
  BY <1>3 DEF IInv, Placed
<1>8. Typed'
  BY <1>3, <1>4, <1>6 DEF IInv, Typed, TypeOK, Statuses, Hash
<1>9. Placed'
  BY <1>3, <1>6, <1>7 DEF IInv, Placed, Typed, TypeOK
<1>10. Hashed'
  BY <1>3, <1>4, <1>6, <1>7, OthersHashed
<1>11. Recorded' /\ MissingCanBeFetched'
  BY <1>3, <1>6, <1>7 DEF IInv, Recorded, Faultless, MissingCanBeFetched
<1> QED
  BY <1>6, <1>8, <1>9, <1>10, <1>11 DEF IInv

-----------------------------------------------------------------------------
(* What finds a chunk bad, takes it off the list or starts anew *)

\* saveIndexFile lists the chunks we have, as long as nothing else is on the disk.
LEMMA IndexIsBitset ==
    ASSUME NEW st, NEW ok \in SUBSET Chunks,
           \A x \in ok : st[x] # "NOT_DOWNLOADED",
           \A x \in Chunks \ ok : st[x] = "NOT_DOWNLOADED"
    PROVE  IndexOf(st) = ok
  BY DEF IndexOf

\* ChunkManager::grabChunk: the check fails.
LEMMA GrabFindsCorruptionKeeps ==
    ASSUME IInv, NEW c \in Chunks, GrabFindsCorruption(c)
    PROVE  IInv'
<1> USE DEF GrabFindsCorruption, others, history
<1> DEFINE k == Cleared(ChunkOf(c), "NOT_DOWNLOADED")
<1>1. Sound(k) /\ k.disk = disk[c] /\ k.status = "NOT_DOWNLOADED"
  BY ChunkOfSound, ClearedSound DEF IInv, ChunkOf
<1>2. Put(c, k)
  OBVIOUS
<1> HIDE DEF k
<1>3. /\ status' \in [Chunks -> Statuses]
      /\ mem' \in [Chunks -> Contents] /\ disk' \in [Chunks -> Contents]
      /\ read_only' \subseteq Chunks
      /\ \A x \in read_only' : status'[x] = "MMAPPED"
      /\ status'[c] = "NOT_DOWNLOADED" /\ disk'[c] = disk[c]
      /\ \A x \in Chunks \ {c} : status'[x] = status[x] /\ disk'[x] = disk[x]
  BY <1>1, <1>2, PutSound DEF IInv
<1>4. \A x \in Chunks : disk'[x] = disk[x]
  BY <1>3
<1>5. running /\ ~Good(disk[c]) /\ ~Faultless
  BY DEF Asked, Faultless, IInv, Hashed, Recorded
<1>6. Typed'
  <2>1. index_file' \subseteq Chunks /\ recheck_counter' \in 0..RecheckAt
    BY NumbersAssumption DEF IndexOf
  <2> QED
    BY <1>3, <2>1 DEF IInv, Typed, TypeOK, Statuses, Hash
<1>7. Promised(env)' /\ (sessions = 0 => Pristine)' /\ StoppedIsIdle'
  BY <1>5, RunningStarted DEF IInv, StoppedIsIdle, Promised
<1>8. Placed'
  BY <1>3 DEF IInv, Placed, Typed, TypeOK
<1>9. Hashed'
  <2>1. \A x \in bitset' \ decayed' : Good(disk'[x])
    BY <1>4 DEF IInv, Hashed, Typed, TypeOK
  <2>2. ASSUME env.hashing PROVE \A x \in Chunks : status'[x] # "BUFFERED"
    BY <1>3, <2>2 DEF IInv, Hashed
  <2>3. ASSUME env.hashing, NEW x \in current_chunks' \ decayed'
        PROVE  /\ \A i \in 1..hashed'[x].n : i \in pieces'[x]
               /\ hashed'[x].good => \A i \in 1..hashed'[x].n : disk'[x][i] = "good"
    BY <1>4, <2>3 DEF IInv, Hashed, Typed, TypeOK
  <2> QED
    BY <2>1, <2>2, <2>3 DEF Hashed, Good
<1>10. Recorded' /\ MissingCanBeFetched'
  BY <1>3, <1>5 DEF IInv, Recorded, Faultless, MissingCanBeFetched
<1> QED
  BY <1>6, <1>7, <1>8, <1>9, <1>10 DEF IInv

\* ChunkSelector::select walks the whole list.
LEMMA SelectFailsKeeps ==
    ASSUME IInv, SelectFails
    PROVE  IInv'
<1> USE DEF SelectFails, memory, manager, others, history
<1>1. Typed'
  BY DEF IInv, Typed, TypeOK, Hash
<1>2. Promised(env)' /\ (sessions = 0 => Pristine)' /\ StoppedIsIdle'
  BY RunningStarted DEF IInv, StoppedIsIdle, Promised
<1>3. Placed' /\ Recorded' /\ MissingCanBeFetched'
  BY DEF IInv, Placed, Recorded, Faultless, MissingCanBeFetched, Typed, TypeOK
<1>4. Hashed'
  BY DEF IInv, Hashed, Good
<1> QED
  BY <1>1, <1>2, <1>3, <1>4 DEF IInv

\* The disk goes bad.
LEMMA DecayKeeps ==
    ASSUME IInv, NEW c \in Chunks, NEW p \in Pieces, Decay(c, p)
    PROVE  IInv'
<1> USE DEF Decay, memory, manager, downloads
<1>1. /\ disk' \in [Chunks -> Contents]
      /\ \A x \in Chunks \ {c} : disk'[x] = disk[x]
  <2>1. disk \in [Chunks -> Contents]
    BY DEF IInv, Typed, TypeOK
  <2>2. [disk[c] EXCEPT ![p] = "bad"] \in Contents
    BY <2>1 DEF Contents
  <2> QED
    BY <2>1, <2>2
<1>2. Typed'
  BY <1>1 DEF IInv, Typed, TypeOK, Hash
<1>3. (sessions = 0 => Pristine)'
  BY DEF IInv, Pristine, AllBad
<1>4. Promised(env)' /\ StoppedIsIdle'
  BY DEF IInv, StoppedIsIdle, Promised
<1>5. Placed' /\ MissingCanBeFetched'
  BY DEF IInv, Placed, MissingCanBeFetched
<1>6. Recorded'
  BY FaultsAreLeft DEF IInv, Recorded, Faultless
<1>7. Hashed'
  <2>1. \A x \in Chunks \ decayed' : disk'[x] = disk[x]
    BY <1>1
  <2>2. \A x \in bitset' \ decayed' : Good(disk'[x])
    BY <2>1 DEF IInv, Hashed, Typed, TypeOK
  <2>3. ASSUME env.hashing, NEW x \in current_chunks' \ decayed'
        PROVE  /\ \A i \in 1..hashed'[x].n : i \in pieces'[x]
               /\ hashed'[x].good => \A i \in 1..hashed'[x].n : disk'[x][i] = "good"
    BY <2>1, <2>3 DEF IInv, Hashed, Typed, TypeOK
  <2> QED
    BY <2>2, <2>3 DEF IInv, Hashed, Good
<1> QED
  BY <1>2, <1>3, <1>4, <1>5, <1>6, <1>7 DEF IInv

-----------------------------------------------------------------------------
(* Stopping, starting, checking; the end of the program *)

\* ChunkDownload::save
LEMMA SavedDownloadTyped ==
    ASSUME Typed, NEW c \in Chunks
    PROVE  SavedDownload(c) \in Save
<1>1. pieces[c] \in SUBSET Pieces /\ mem[c] \in Contents
  BY DEF Typed, TypeOK
<1>2. NotSaved \in Save
  BY AllBadIsBad DEF NotSaved, Save
<1>3. CASE c \in current_chunks
  <2> DEFINE b == status[c] = "BUFFERED"
             d == IF status[c] = "BUFFERED" THEN mem[c] ELSE AllBad
  <2>1. b \in BOOLEAN /\ d \in Contents
    BY <1>1, AllBadIsBad
  <2>2. SavedDownload(c) = [saved |-> TRUE, pieces |-> pieces[c], buffered |-> b, data |-> d]
    BY <1>3 DEF SavedDownload
  <2> HIDE DEF b, d
  <2> QED
    BY <1>1, <2>1, <2>2 DEF Save
<1> QED
  BY <1>2, <1>3 DEF SavedDownload

\* TorrentControl::stop
LEMMA StopKeeps ==
    ASSUME IInv, Stop
    PROVE  IInv'
<1> USE DEF Stop, manager, history
<1>1. status' \in [Chunks -> Statuses]
  BY DEF IInv, Typed, TypeOK, Statuses
<1>2. saved' \in [Chunks -> Save]
  BY SavedDownloadTyped DEF IInv
<1>3. mem' \in [Chunks -> Contents]
  BY AllBadIsBad
<1>4. \A c \in Chunks :
         /\ c \in current_chunks => status'[c] = "NOT_DOWNLOADED"
         /\ c \notin current_chunks =>
               (status'[c] = "NOT_DOWNLOADED" <=> status[c] = "NOT_DOWNLOADED")
         /\ status'[c] # "BUFFERED"
  BY DEF InMemory, ChunkOf, IInv, Typed, TypeOK
<1>5. Typed'
  BY <1>1, <1>2, <1>3, ZenonT(60) DEF IInv, Typed, TypeOK, Statuses, Hash
<1>6. Promised(env)' /\ (sessions = 0 => Pristine)' /\ StoppedIsIdle'
  BY RunningStarted DEF IInv, StoppedIsIdle, Promised
<1>7. Placed'
  BY <1>4 DEF IInv, Placed, Typed, TypeOK
<1>8. Hashed'
  BY <1>4 DEF IInv, Hashed, Good
<1>9. Recorded' /\ MissingCanBeFetched'
  BY <1>4 DEF IInv, Recorded, Faultless, MissingCanBeFetched, Placed
<1> QED
  BY <1>5, <1>6, <1>7, <1>8, <1>9 DEF IInv

\* A torrent is only started a second time where the disk keeps what it is given.
LEMMA StartedAgain ==
    ASSUME IInv, sessions < env.sessions
    PROVE  /\ Pristine \/ Faultless
           /\ index_file = bitset /\ loaded \subseteq bitset
           /\ decayed = {} /\ unwritten = {}
<1>1. env.faults \in Nat /\ env.sessions \in Nat /\ sessions \in Nat
  BY EnvironmentTyped DEF IInv, Environment, Typed, TypeOK
<1>2. CASE sessions = 0
  BY <1>2 DEF IInv, Pristine
<1>3. CASE sessions # 0
  <2>1. Faultless
    BY <1>1, <1>3 DEF IInv, Promised, Faultless
  <2> QED
    BY <2>1 DEF IInv, Recorded, Faultless
<1> QED
  BY <1>2, <1>3

\* The program is run again: ChunkManager::loadIndexFile
LEMMA RestartKeeps ==
    ASSUME IInv, Restart
    PROVE  IInv'
<1> USE DEF Restart, history
<1>1. index_file = bitset /\ decayed = {} /\ unwritten = {}
  BY StartedAgain
<1>2. /\ status' \in [Chunks -> Statuses] /\ mem' \in [Chunks -> Contents]
      /\ \A c \in Chunks : status'[c] = IF c \in index_file THEN "ON_DISK"
                                        ELSE "NOT_DOWNLOADED"
  BY AllBadIsBad DEF Statuses
<1>3. Typed'
  <2>1. recheck_counter' \in 0..RecheckAt /\ corrupted_count' \in 0..1
    BY NumbersAssumption
  <2>2. /\ bitset' \subseteq Chunks /\ loaded' \subseteq Chunks /\ chunks' \subseteq Chunks
        /\ current_chunks' \subseteq Chunks /\ read_only' = {} /\ running' \in BOOLEAN
    BY DEF IInv, Typed, TypeOK
  <2>3. UNCHANGED <<disk, index_file, pieces, hashed, saved, sessions, env, decayed, unwritten>>
    OBVIOUS
  <2> HIDE DEF Restart
  <2> QED
    BY <1>2, <2>1, <2>2, <2>3 DEF IInv, Typed, TypeOK, Statuses, Hash
<1>4. (sessions = 0 => Pristine)'
  BY DEF IInv, Pristine, AllBad
<1>5. Promised(env)' /\ StoppedIsIdle'
  BY DEF IInv, StoppedIsIdle, Promised
<1>6. Placed' /\ MissingCanBeFetched'
  BY <1>1, <1>2 DEF IInv, Placed, MissingCanBeFetched, Typed, TypeOK
<1>7. Hashed'
  BY <1>1, <1>2 DEF IInv, Hashed, Good
<1>8. Recorded'
  BY <1>1 DEF IInv, Recorded, Faultless
<1> QED
  BY <1>3, <1>4, <1>5, <1>6, <1>7, <1>8 DEF IInv

\* Downloader::loadDownloads: a chunk of the file goes into memory.
LEMMA LoadedSound ==
    ASSUME IInv, NEW c \in Chunks, NEW mapped \in MapResults
    PROVE  /\ Sound(Loaded(c, mapped)) /\ InMemory(Loaded(c, mapped))
           /\ env.hashing => Loaded(c, mapped).status = "MMAPPED"
<1> DEFINE k == prep(ChunkOf(c), mapped)
<1>1. /\ Sound(k) /\ k.status = IF mapped THEN "MMAPPED" ELSE "BUFFERED"
  BY ChunkOfSound, PrepSound, EnvironmentTyped DEF IInv
<1>2. saved[c].data \in Contents
  BY DEF IInv, Typed, Save
<1>3. env.hashing => mapped = TRUE
  BY AlwaysMapped
<1>4. mapped \in BOOLEAN
  BY EnvironmentTyped DEF IInv
<1>5. /\ Sound([k EXCEPT !.disk = saved[c].data]) /\ Sound([k EXCEPT !.mem = saved[c].data])
      /\ [k EXCEPT !.disk = saved[c].data].status = k.status
      /\ [k EXCEPT !.mem = saved[c].data].status = k.status
  BY <1>1, <1>2 DEF Sound, ChunkState
<1>6. Loaded(c, mapped) = IF ~saved[c].buffered THEN k
                          ELSE IF mapped THEN [k EXCEPT !.disk = saved[c].data]
                          ELSE [k EXCEPT !.mem = saved[c].data]
  BY DEF Loaded
<1> HIDE DEF k
<1> QED
  BY <1>1, <1>3, <1>4, <1>5, <1>6 DEF InMemory

\* TorrentControl::start: the partial downloads come back.
LEMMA StartKeeps ==
    ASSUME IInv, Start
    PROVE  IInv'
<1> DEFINE back == IF completed THEN {}
                   ELSE {c \in Chunks : saved[c].saved /\ status[c] = "NOT_DOWNLOADED"}
<1>1. PICK mapped \in [Chunks -> MapResults] :
         LET k == [c \in Chunks |-> IF c \in back THEN Loaded(c, mapped[c]) ELSE ChunkOf(c)]
         IN /\ status' = [c \in Chunks |-> k[c].status]
            /\ mem' = [c \in Chunks |-> k[c].mem]
            /\ disk' = [c \in Chunks |-> k[c].disk]
            /\ hashed' = [c \in Chunks |->
                            IF c \in back
                            THEN UpdatedHash(NoHash, saved[c].pieces, Content(k[c]))
                            ELSE hashed[c]]
  BY DEF Start
<1> DEFINE k == [c \in Chunks |-> IF c \in back THEN Loaded(c, mapped[c]) ELSE ChunkOf(c)]
<1>2. /\ ~running /\ sessions < env.sessions
      /\ running' = TRUE /\ sessions' = sessions + 1
      /\ current_chunks' = current_chunks \cup back
      /\ pieces' = [c \in Chunks |-> IF c \in back THEN saved[c].pieces ELSE pieces[c]]
      /\ UNCHANGED <<read_only, manager, chunks, saved, history>>
  BY DEF Start
<1>3. /\ back \subseteq Chunks /\ back \cap bitset = {} /\ back \subseteq chunks
      /\ \A c \in back : status[c] = "NOT_DOWNLOADED"
  BY <1>2, StartedAgain DEF IInv, Placed, StoppedIsIdle, MissingCanBeFetched
<1>4. current_chunks = {} /\ read_only = {} /\ decayed = {} /\ unwritten = {}
      /\ index_file = bitset /\ loaded \subseteq bitset
  BY <1>2, StartedAgain DEF IInv, StoppedIsIdle
<1> HIDE DEF back
<1>5. \A c \in Chunks : Sound(k[c])
  BY LoadedSound, ChunkOfSound DEF IInv
<1>6. \A c \in back : /\ k[c].status \in {"MMAPPED", "BUFFERED"}
                      /\ env.hashing => k[c].status = "MMAPPED"
  BY <1>3, LoadedSound DEF InMemory
<1>7. \A c \in Chunks \ back : k[c].status = status[c] /\ k[c].disk = disk[c]
  BY DEF ChunkOf
<1>8. /\ status' = [c \in Chunks |-> k[c].status]
      /\ mem' = [c \in Chunks |-> k[c].mem]
      /\ disk' = [c \in Chunks |-> k[c].disk]
      /\ \A c \in back : hashed'[c] = UpdatedHash(NoHash, saved[c].pieces, Content(k[c]))
      /\ \A c \in Chunks \ back : hashed'[c] = hashed[c]
      /\ hashed' = [c \in Chunks |-> hashed'[c]]
  BY <1>1, <1>3, Zenon
<1> HIDE DEF k
<1>9. \A c \in back :
         /\ hashed'[c] \in Hash
         /\ \A i \in 1..hashed'[c].n : i \in saved[c].pieces
         /\ hashed'[c].good => \A i \in 1..hashed'[c].n : Content(k[c])[i] = "good"
  <2> SUFFICES ASSUME NEW c \in back
               PROVE  /\ hashed'[c] \in Hash
                      /\ \A i \in 1..hashed'[c].n : i \in saved[c].pieces
                      /\ hashed'[c].good =>
                            \A i \in 1..hashed'[c].n : Content(k[c])[i] = "good"
    OBVIOUS
  <2>1. NoHash \in Hash /\ NoHash.n + 1 = 1
    BY NumbersAssumption DEF NoHash, Hash
  <2> DEFINE have == saved[c].pieces
             content == Content(k[c])
             u == UpdatedHash(NoHash, have, content)
  <2>2. hashed'[c] = u
    BY <1>8
  <2> HIDE DEF have, content
  <2>3. /\ u \in Hash
        /\ \A i \in (NoHash.n + 1)..u.n : i \in have
        /\ u.good => \A i \in (NoHash.n + 1)..u.n : content[i] = "good"
    BY <2>1, HashedOn, Zenon
  <2> HIDE DEF u
  <2> QED
    BY <2>1, <2>2, <2>3 DEF have, content
<1>10. \A c \in Chunks : status'[c] = k[c].status /\ disk'[c] = k[c].disk
  BY <1>8
<1>11. Typed'
  <2>1. /\ status' \in [Chunks -> Statuses] /\ mem' \in [Chunks -> Contents]
        /\ disk' \in [Chunks -> Contents]
    BY <1>5, <1>8 DEF Sound, ChunkState
  <2>2. hashed' \in [Chunks -> Hash]
    BY <1>8, <1>9 DEF IInv, Typed
  <2>3. pieces' \in [Chunks -> SUBSET Pieces] /\ current_chunks' \subseteq Chunks
    BY <1>2, <1>3 DEF IInv, Typed, TypeOK, Save
  <2>4. sessions' \in 0..env.sessions
    BY <1>2, EnvironmentTyped DEF IInv, Typed, TypeOK, Environment
  <2> QED
    BY <1>2, <1>4, <2>1, <2>2, <2>3, <2>4
       DEF IInv, Typed, TypeOK, Statuses, Hash, manager, history
<1>12. Promised(env)' /\ (sessions = 0 => Pristine)' /\ StoppedIsIdle'
  BY <1>2 DEF IInv, Typed, TypeOK, StoppedIsIdle, Promised, history
<1>13. Placed'
  BY <1>2, <1>3, <1>4, <1>7, <1>10 DEF IInv, Typed, TypeOK, Placed, manager, history
<1>14. Hashed'
  <2> USE DEF manager, history
  <2>1. \A x \in bitset' \ decayed' : Good(disk'[x])
    BY <1>2, <1>3, <1>7, <1>10 DEF IInv, Hashed, Typed, TypeOK
  <2>2. ASSUME env.hashing PROVE \A x \in Chunks : status'[x] # "BUFFERED"
    BY <1>6, <1>7, <1>10, <2>2 DEF IInv, Hashed
  <2>3. ASSUME env.hashing, NEW x \in current_chunks' \ decayed'
        PROVE  /\ \A i \in 1..hashed'[x].n : i \in pieces'[x]
               /\ hashed'[x].good => \A i \in 1..hashed'[x].n : disk'[x][i] = "good"
    <3>1. x \in back /\ x \in Chunks /\ pieces'[x] = saved[x].pieces
      BY <1>2, <1>3, <1>4, <2>3
    <3>2. Content(k[x]) = disk'[x]
      BY <1>6, <1>10, <2>3, <3>1 DEF Content
    <3> QED
      BY <1>9, <3>1, <3>2
  <2> QED
    BY <1>2, <2>1, <2>2, <2>3 DEF Hashed, Good
<1>15. Recorded' /\ MissingCanBeFetched'
  BY <1>2, <1>3, <1>4, <1>7, <1>10
     DEF IInv, Recorded, Faultless, MissingCanBeFetched, manager, history
<1> QED
  BY <1>11, <1>12, <1>13, <1>14, <1>15 DEF IInv

\* TorrentControl::afterDataCheck
LEMMA DataCheckKeeps ==
    ASSUME IInv, DataCheck
    PROVE  IInv'
<1> DEFINE ok == {c \in Chunks : Good(disk[c])}
<1>1. /\ ~running /\ chunks' = Chunks \ ok /\ bitset' = ok
      /\ status' = [c \in Chunks |-> IF c \in ok \ bitset THEN "ON_DISK"
                                     ELSE IF c \in bitset \ ok THEN "NOT_DOWNLOADED"
                                     ELSE status[c]]
      /\ index_file' = IndexOf(status') /\ corrupted_count' = 0
      /\ UNCHANGED <<read_only, mem, disk, loaded, recheck_counter, current_chunks, pieces,
                     hashed, others>>
  BY DEF DataCheck
<1>2. ok \subseteq Chunks /\ \A c \in ok : Good(disk[c])
  OBVIOUS
<1>3. Pristine => ok = {}
  BY AllBadIsBad DEF Pristine
<1>4. decayed = {} => bitset \subseteq ok
  BY DEF IInv, Hashed, Typed, TypeOK
<1> HIDE DEF ok
<1>5. current_chunks = {} /\ read_only = {}
  BY <1>1 DEF IInv, StoppedIsIdle
<1>6. \A c \in ok : status'[c] # "NOT_DOWNLOADED"
  BY <1>1, <1>2 DEF IInv, Placed
<1>7. \A c \in Chunks \ (ok \cup unwritten) : status'[c] = "NOT_DOWNLOADED"
  BY <1>1, <1>5 DEF IInv, MissingCanBeFetched
<1> USE DEF others, history
<1>8. Typed'
  <2>1. status' \in [Chunks -> Statuses]
    BY <1>1 DEF IInv, Typed, TypeOK, Statuses
  <2>2. index_file' \subseteq Chunks
    BY <1>1 DEF IndexOf
  <2> QED
    BY <1>1, <1>2, <1>5, <2>1, <2>2 DEF IInv, Typed, TypeOK, Statuses, Hash
<1>9. (sessions = 0 => Pristine)'
  <2>1. ASSUME Pristine PROVE Pristine'
    <3>1. ok = {} /\ bitset = {} /\ status' = status
      BY <1>1, <1>3, <2>1 DEF Pristine
    <3>2. index_file' = {}
      BY <1>1, <2>1, <3>1 DEF IndexOf, Pristine
    <3> QED
      BY <1>1, <2>1, <3>1, <3>2 DEF Pristine, AllBad, Pieces
  <2> QED
    BY <1>1, <2>1 DEF IInv
<1>10. Promised(env)' /\ StoppedIsIdle'
  BY <1>1, <1>5 DEF IInv, Promised, StoppedIsIdle
<1>11. Placed' /\ MissingCanBeFetched'
  BY <1>1, <1>5, <1>6, <1>7 DEF Placed, MissingCanBeFetched
<1>12. Hashed'
  BY <1>1, <1>2, <1>5 DEF IInv, Hashed, Good
<1>13. Recorded'
  <2>1. env.faults = 0 => decayed = {} /\ unwritten = {}
    BY DEF IInv, Recorded
  <2>2. ASSUME Faultless PROVE index_file' = ok /\ loaded \subseteq ok
    <3>1. IndexOf(status') = ok
      BY <1>2, <1>6, <1>7, <2>1, <2>2, IndexIsBitset DEF Faultless
    <3> QED
      BY <1>1, <1>4, <2>1, <2>2, <3>1 DEF IInv, Recorded, Faultless
  <2> QED
    BY <1>1, <2>1, <2>2 DEF Recorded, Faultless
<1> QED
  BY <1>8, <1>9, <1>10, <1>11, <1>12, <1>13 DEF IInv

-----------------------------------------------------------------------------
(* The theorems *)

\* A new torrent has nothing.
LEMMA InitHolds ==
    ASSUME \A e \in Environments : Promised(e), Init
    PROVE  IInv
<1> USE DEF Init
<1>1. env \in Environment
  BY EnvironmentsAssumption
<1>2. Typed
  <2>1. NoHash \in Hash /\ NotSaved \in Save /\ AllBad \in Contents
    BY NumbersAssumption, AllBadIsBad DEF NoHash, Hash, NotSaved, Save
  <2>2. 0 \in 0..RecheckAt /\ 0 \in 0..env.sessions
    BY <1>1, NumbersAssumption DEF Environment
  <2>3. /\ hashed \in [Chunks -> Hash] /\ saved \in [Chunks -> Save]
        /\ mem \in [Chunks -> Contents] /\ disk \in [Chunks -> Contents]
    BY <2>1
  <2>4. /\ status \in [Chunks -> Statuses] /\ pieces \in [Chunks -> SUBSET Pieces]
        /\ read_only = {}
    BY DEF Statuses
  <2>5. {bitset, loaded, current_chunks, chunks, index_file, decayed, unwritten}
           \subseteq SUBSET Chunks
    OBVIOUS
  <2>6. /\ recheck_counter \in 0..RecheckAt /\ corrupted_count \in 0..1
        /\ running \in BOOLEAN /\ env \in Environments /\ sessions \in 0..env.sessions
    <3>1. running \in BOOLEAN
      OBVIOUS
    <3>2. recheck_counter \in 0..RecheckAt /\ sessions \in 0..env.sessions
      BY <2>2, Zenon
    <3>3. corrupted_count \in 0..1 /\ env \in Environments
      OBVIOUS
    <3> QED
      BY <3>1, <3>2, <3>3
  <2> HIDE DEF Init
  <2> QED
    BY <2>3, <2>4, <2>5, <2>6 DEF Typed, TypeOK, Hash, Statuses
<1>3. Pristine /\ StoppedIsIdle /\ Placed /\ Recorded /\ MissingCanBeFetched
  BY DEF Pristine, StoppedIsIdle, Placed, Recorded, MissingCanBeFetched
<1>4. Hashed
  BY DEF Hashed
<1> QED
  BY <1>2, <1>3, <1>4 DEF IInv

\* No step breaks the invariant.
LEMMA NextKeeps ==
    ASSUME IInv, [Next]_vars
    PROVE  IInv'
<1>1. CASE UNCHANGED vars
  <2> USE <1>1 DEF vars, memory, manager, downloads, others, history
  <2>1. Typed' /\ (sessions = 0 => Pristine)' /\ StoppedIsIdle' /\ Promised(env)'
    BY DEF IInv, Typed, TypeOK, Hash, Pristine, StoppedIsIdle, Promised
  <2>2. Placed' /\ Hashed' /\ Recorded' /\ MissingCanBeFetched'
    BY DEF IInv, Placed, Hashed, Good, Recorded, Faultless, MissingCanBeFetched
  <2> QED
    BY <2>1, <2>2 DEF IInv
<1>2. ASSUME NEW c \in Chunks,
             \/ StartDownload(c) \/ Reload(c) \/ PutAway(c) \/ grabChunk(c) \/ FreeChunk(c)
      PROVE  IInv'
  BY <1>2, StartDownloadKeeps, ReloadKeeps, PutAwayKeeps, GrabInMemoryKeeps, GrabLoadsKeeps,
     GrabFindsCorruptionKeeps, FreeChunkKeeps DEF grabChunk
<1>3. ASSUME NEW c \in Chunks, NEW p \in Pieces, pieceRecieved(c, p) \/ Decay(c, p)
      PROVE  IInv'
  BY <1>3, PieceStoredKeeps, ChunkVerifiedKeeps, SaveFailsKeeps, ChunkRejectedKeeps,
     DecayKeeps DEF pieceRecieved
<1>4. CASE SelectFails \/ Stop \/ Start \/ DataCheck \/ Restart
  BY <1>4, SelectFailsKeeps, StopKeeps, StartKeeps, DataCheckKeeps, RestartKeeps
<1> QED
  BY <1>1, <1>2, <1>3, <1>4 DEF Next

\* The invariant holds in every state of a torrent, whatever is stopped, started, checked,
\* uploaded and lost.
THEOREM Invariant ==
    ASSUME \A e \in Environments : Promised(e)
    PROVE  Spec => []IInv
<1>1. Init => IInv
  BY InitHolds
<1>2. IInv /\ [Next]_vars => IInv'
  BY NextKeeps
<1> QED
  BY <1>1, <1>2, PTL DEF Spec

\* A chunk we announce is on the disk and matches its hash, unless the disk itself went
\* bad; and what a restart will believe is what was verified.
THEOREM VerifiedChunksAreGood ==
    ASSUME \A e \in Environments : Promised(e)
    PROVE  Spec => []VerifiedIsGood
<1>1. IInv => VerifiedIsGood
  BY DEF IInv, Typed, Hashed, Recorded, Faultless, VerifiedIsGood
<1>2. Spec => []IInv
  BY Invariant
<1> QED
  BY <1>1, <1>2, PTL

\* A chunk that is neither there nor in progress nor given up can be prepared and is on
\* the selector's list.
THEOREM MissingChunksCanBeFetched ==
    ASSUME \A e \in Environments : Promised(e)
    PROVE  Spec => []MissingCanBeFetched
<1>1. IInv => MissingCanBeFetched
  BY DEF IInv
<1>2. Spec => []IInv
  BY Invariant
<1> QED
  BY <1>1, <1>2, PTL
=============================================================================
