----------------------------- MODULE ChunkStore -----------------------------
(***************************************************************************)
(* The chunks of a torrent between the network and the disk: bt::Chunk and *)
(* its four states, bt::ChunkManager, bt::SingleFileCache, the selector's  *)
(* list and the parts of bt::Downloader that move a chunk: start, store a  *)
(* piece, put an idle chunk away, judge a finished one, save and load the  *)
(* partial downloads.  Uploads load chunks and let them go again; the      *)
(* torrent is stopped, checked and started, and the program may end or die *)
(* between any two handlers.  All of it runs on the main thread.           *)
(*                                                                         *)
(* A piece is good or bad: bad is anything that does not match the hash,   *)
(* the contents of a new buffer and of an unwritten file included.         *)
(***************************************************************************)
EXTENDS Naturals, FiniteSets, FiniteSetsExt

CONSTANTS
    Chunks,
    NumPieces,          \* pieces of a chunk
    RecheckAt,          \* the recheck_counter that makes grabChunk check: 5
    Environments        \* what may happen around the program; one is chosen at the start

\* bad_peers: peers may send bad pieces; mmap_fails: mmap may fail, prep and load fall
\* back to a buffer; hashing: usingContinuousHashing, pieces are hashed as they
\* arrive; unannounced: peers may ask for a chunk we did not announce; faults: how
\* many chunks may go bad on the disk or not be written; sessions: how often the
\* torrent is started.  The last two are the bounds.
Environment ==
    [bad_peers : BOOLEAN, mmap_fails : BOOLEAN, hashing : BOOLEAN, unannounced : BOOLEAN,
     faults : Nat, sessions : Nat]

ASSUME EnvironmentsAssumption == Environments \subseteq Environment
ASSUME NumbersAssumption == NumPieces \in Nat \ {0} /\ RecheckAt \in Nat

Pieces == 1..NumPieces

VARIABLES
    env,                \* the environment; never changes
    status,             \* Chunk::status
    read_only,          \* chunks that load() mapped without write access
    mem,                \* what the buffer of a BUFFERED chunk holds
    disk,               \* what the cache file holds
    bitset,             \* ChunkManager::bitset
    loaded,             \* ChunkManager::loaded
    recheck_counter,
    corrupted_count,    \* only compared with 0
    current_chunks,     \* Downloader::current_chunks
    pieces,             \* ChunkDownload::pieces
    hashed,             \* num_pieces_in_hash, and whether what was hashed was good
    chunks,             \* ChunkSelector::chunks
    running,            \* stats.running
    index_file,         \* the chunks the index file lists
    saved,              \* the current_chunks file
    sessions,
    decayed,            \* history: chunks whose data went bad on the disk
    unwritten           \* history: finished chunks that could not be written

memory == <<status, read_only, mem>>
manager == <<bitset, loaded, recheck_counter, corrupted_count, index_file>>
downloads == <<current_chunks, pieces, hashed, chunks>>
history == <<env, decayed, unwritten>>
others == <<running, saved, sessions, history>>
vars == <<memory, disk, manager, downloads, others>>

AllBad == [p \in Pieces |-> "bad"]
Good(content) == \A p \in Pieces : content[p] = "good"
NoHash == [n |-> 0, good |-> TRUE]
NotSaved == [saved |-> FALSE, pieces |-> {}, buffered |-> FALSE, data |-> AllBad]

completed == bitset = Chunks

\* the environment has a fault left
MayFail == Cardinality(decayed) + Cardinality(unwritten) < env.faults

-----------------------------------------------------------------------------
(* SingleFileCache: what prep, load and save make of one chunk.  A chunk in  *)
(* passing is [status, read_only, mem, disk].                                *)

ChunkOf(c) == [status |-> status[c], ro |-> c \in read_only, mem |-> mem[c], disk |-> disk[c]]
Content(k) == IF k.status = "BUFFERED" THEN k.mem ELSE k.disk

\* the chunks as they are, with c replaced by k
Put(c, k) ==
    /\ status' = [status EXCEPT ![c] = k.status]
    /\ read_only' = IF k.ro THEN read_only \cup {c} ELSE read_only \ {c}
    /\ mem' = [mem EXCEPT ![c] = k.mem]
    /\ disk' = [disk EXCEPT ![c] = k.disk]

MapResults == IF env.mmap_fails THEN BOOLEAN ELSE {TRUE}

\* prep: a mapping of the file, or a new buffer, which holds nothing of it
prep(k, mapped) ==
    [k EXCEPT !.status = IF mapped THEN "MMAPPED" ELSE "BUFFERED", !.ro = FALSE, !.mem = AllBad]

\* load: a read-only mapping, or a buffer with the contents of the file
load(k, mapped) ==
    [k EXCEPT !.status = IF mapped THEN "MMAPPED" ELSE "BUFFERED", !.ro = mapped,
              !.mem = IF mapped THEN AllBad ELSE k.disk]

InMemory(k) == k.status \in {"MMAPPED", "BUFFERED"}

\* Chunk::clear and a new status: the buffer is gone, a mapping stays in the file
Cleared(k, s) == [k EXCEPT !.status = s, !.ro = FALSE, !.mem = AllBad]

\* save: a mapping is given up, a buffer is written
save(k) ==
    IF k.status = "BUFFERED" THEN [Cleared(k, "ON_DISK") EXCEPT !.disk = k.mem]
    ELSE IF k.status = "MMAPPED" THEN Cleared(k, "ON_DISK")
    ELSE k

-----------------------------------------------------------------------------
(* Downloader *)

\* downloadFrom: a selected chunk that is NOT_DOWNLOADED is prepared; the chunks we
\* have that select met before it are off the list
StartDownload(c) ==
    /\ running /\ c \in chunks \ (bitset \cup current_chunks)
    /\ status[c] = "NOT_DOWNLOADED"
    /\ \E mapped \in MapResults : Put(c, prep(ChunkOf(c), mapped))
    /\ current_chunks' = current_chunks \cup {c}
    /\ pieces' = [pieces EXCEPT ![c] = {}]
    /\ hashed' = [hashed EXCEPT ![c] = NoHash]
    /\ \E passed \in SUBSET (chunks \cap bitset) : chunks' = chunks \ passed
    /\ UNCHANGED <<manager, others>>

\* select finds nothing for a peer, having walked the whole list
SelectFails ==
    /\ running /\ ~completed /\ chunks \cap bitset # {}
    /\ chunks' = chunks \ bitset
    /\ UNCHANGED <<memory, disk, manager, current_chunks, pieces, hashed, others>>

\* "if it is on disk, reload it": prepareChunk(c, true) before a peer is assigned
Reload(c) ==
    /\ running /\ c \in current_chunks /\ status[c] = "ON_DISK"
    /\ \E mapped \in MapResults : Put(c, prep(ChunkOf(c), mapped))
    /\ UNCHANGED <<manager, downloads, others>>

\* normalUpdate: an idle or choked chunk does not need to be in memory
PutAway(c) ==
    /\ running /\ c \in current_chunks /\ status[c] = "MMAPPED"
    /\ Put(c, save(ChunkOf(c)))
    /\ UNCHANGED <<manager, downloads, others>>

\* updateHash: hash on from the first piece that is not hashed yet
UpdatedHash(h, have, content) ==
    LET n == Max({m \in h.n..NumPieces : \A i \in (h.n + 1)..m : i \in have})
    IN [n |-> n, good |-> h.good /\ \A i \in (h.n + 1)..n : content[i] = "good"]

\* pieceRecieved for a piece that is not there yet: the chunk, put back into
\* memory if need be, with the bytes q of piece p written to it
Written(c, p, q, mapped) ==
    LET k == IF status[c] = "ON_DISK" THEN prep(ChunkOf(c), mapped) ELSE ChunkOf(c)
    IN IF k.status = "BUFFERED" THEN [k EXCEPT !.mem[p] = q] ELSE [k EXCEPT !.disk[p] = q]

PieceQualities == IF env.bad_peers THEN {"good", "bad"} ELSE {"good"}

\* (a piece written to a read-only mapping ends the program: that is Restart)
Receives(c, p) ==
    /\ running /\ ~completed /\ c \in current_chunks /\ p \notin pieces[c]
    /\ status[c] # "NOT_DOWNLOADED"
    /\ c \notin read_only
    /\ pieces' = [pieces EXCEPT ![c] = @ \cup {p}]

\* the piece does not complete the chunk, which is saved again if it is idle
PieceStored(c, p) ==
    \E q \in PieceQualities, mapped \in MapResults, idle \in BOOLEAN :
        LET k == Written(c, p, q, mapped)
        IN /\ Receives(c, p) /\ pieces'[c] # Pieces
           /\ Put(c, IF idle /\ k.status = "MMAPPED" THEN save(k) ELSE k)
           /\ hashed' = [hashed EXCEPT ![c] = UpdatedHash(@, pieces'[c], Content(k))]
           /\ UNCHANGED <<manager, current_chunks, chunks, others>>

\* mutant: the hash of a finished chunk is not compared
HashNotChecked(c, k, h) == TRUE

\* finished: the hash of the chunk, or the one taken while the pieces arrived
HashOK(c, k, h) == IF env.hashing THEN h.good ELSE Good(Content(k))

\* the last piece: saveChunk sets the bit and appends to the index file
ChunkVerified(c, p) ==
    \E q \in PieceQualities, mapped \in MapResults :
        LET k == Written(c, p, q, mapped)
            h == UpdatedHash(hashed[c], pieces'[c], Content(k))
        IN /\ Receives(c, p) /\ pieces'[c] = Pieces
           /\ HashOK(c, k, h)
           /\ Put(c, save(k))
           /\ bitset' = bitset \cup {c}
           /\ index_file' = index_file \cup {c}
           /\ current_chunks' = current_chunks \ {c}
           /\ UNCHANGED <<loaded, recheck_counter, corrupted_count, hashed, chunks, others>>

\* saveChunk throws: the error is reported, the chunk left as it is
SaveFails(c, p) ==
    \E q \in PieceQualities, mapped \in MapResults :
        LET k == Written(c, p, q, mapped)
            h == UpdatedHash(hashed[c], pieces'[c], Content(k))
        IN /\ MayFail
           /\ Receives(c, p) /\ pieces'[c] = Pieces
           /\ HashOK(c, k, h) /\ k.status = "BUFFERED"
           /\ Put(c, k)
           /\ current_chunks' = current_chunks \ {c}
           /\ unwritten' = unwritten \cup {c}
           /\ UNCHANGED <<manager, hashed, chunks, running, saved, sessions, env, decayed>>

\* mutant: a chunk that failed stays on the disk as it is
ChunkRejectedKept(c, p) ==
    \E q \in PieceQualities, mapped \in MapResults :
        LET k == Written(c, p, q, mapped)
        IN /\ Receives(c, p) /\ pieces'[c] = Pieces
           /\ ~HashOK(c, k, UpdatedHash(hashed[c], pieces'[c], Content(k)))
           /\ Put(c, save(k))
           /\ current_chunks' = current_chunks \ {c}
           /\ UNCHANGED <<manager, hashed, chunks, others>>

\* the hash is wrong: resetChunk, and the selector may choose the chunk again
ChunkRejected(c, p) ==
    \E q \in PieceQualities, mapped \in MapResults :
        LET k == Written(c, p, q, mapped)
            h == UpdatedHash(hashed[c], pieces'[c], Content(k))
        IN /\ Receives(c, p) /\ pieces'[c] = Pieces
           /\ ~HashOK(c, k, h)
           /\ Put(c, Cleared(k, "NOT_DOWNLOADED"))
           /\ bitset' = bitset \ {c}
           /\ loaded' = loaded \ {c}
           /\ chunks' = chunks \cup {c}
           /\ current_chunks' = current_chunks \ {c}
           /\ UNCHANGED <<recheck_counter, corrupted_count, index_file, hashed, others>>

-----------------------------------------------------------------------------
(* Uploads: ChunkManager::grabChunk and checkMemoryUsage *)

Asked(c) == running /\ (c \in bitset \/ env.unannounced)

\* the chunk is in memory already
GrabInMemory(c) ==
    /\ Asked(c) /\ status[c] \in {"MMAPPED", "BUFFERED"}
    /\ loaded' = loaded \cup {c}
    /\ UNCHANGED <<memory, disk, bitset, recheck_counter, corrupted_count, index_file,
                   downloads, others>>

CheckAllowed == recheck_counter >= RecheckAt \/ corrupted_count > 0

\* the chunk is loaded, and checked now and then
GrabLoads(c) ==
    /\ Asked(c) /\ status[c] = "ON_DISK"
    /\ \E mapped \in MapResults : Put(c, load(ChunkOf(c), mapped))
    /\ CheckAllowed => Good(disk[c])
    /\ loaded' = loaded \cup {c}
    /\ recheck_counter' = IF CheckAllowed THEN 0 ELSE recheck_counter + 1
    /\ UNCHANGED <<bitset, corrupted_count, index_file, downloads, others>>

\* saveIndexFile lists every chunk that is not NOT_DOWNLOADED
IndexOf(st) == {c \in Chunks : st[c] # "NOT_DOWNLOADED"}

\* the check fails: the chunk is reset and will be downloaded again
GrabFindsCorruption(c) ==
    /\ Asked(c) /\ status[c] = "ON_DISK" /\ CheckAllowed /\ ~Good(disk[c])
    /\ Put(c, Cleared(ChunkOf(c), "NOT_DOWNLOADED"))
    /\ bitset' = bitset \ {c}
    /\ loaded' = loaded \ {c}
    /\ index_file' = IndexOf(status')
    /\ recheck_counter' = 0 /\ corrupted_count' = 1
    /\ chunks' = chunks \cup {c}
    /\ UNCHANGED <<current_chunks, pieces, hashed, others>>

\* checkMemoryUsage: a chunk nobody asked for in 5 seconds; a ChunkDownload
\* holds a reference to its chunk
FreeChunk(c) ==
    /\ running /\ c \in loaded \ current_chunks
    /\ Put(c, Cleared(ChunkOf(c), "ON_DISK"))
    /\ loaded' = loaded \ {c}
    /\ UNCHANGED <<bitset, recheck_counter, corrupted_count, index_file, downloads, others>>

-----------------------------------------------------------------------------
(* Stopping, starting, checking; the end of the program *)

\* ChunkDownload::save: the pieces, and the contents of a buffer
SavedDownload(c) ==
    IF c \notin current_chunks THEN NotSaved
    ELSE [saved |-> TRUE, pieces |-> pieces[c], buffered |-> status[c] = "BUFFERED",
          data |-> IF status[c] = "BUFFERED" THEN mem[c] ELSE AllBad]

\* mutant: clearDownloads leaves the partial chunks on the disk
StopKeepsPartial ==
    /\ running
    /\ running' = FALSE
    /\ saved' = [c \in Chunks |-> SavedDownload(c)]
    /\ status' = [c \in Chunks |-> IF InMemory(ChunkOf(c)) THEN "ON_DISK" ELSE status[c]]
    /\ read_only' = {}
    /\ mem' = [c \in Chunks |-> AllBad]
    /\ current_chunks' = {}
    /\ UNCHANGED <<disk, manager, pieces, hashed, chunks, sessions, history>>

\* TorrentControl::stop: saveDownloads, clearDownloads, ChunkManager::stop
Stop ==
    /\ running
    /\ running' = FALSE
    /\ saved' = [c \in Chunks |-> SavedDownload(c)]
    /\ status' = [c \in Chunks |-> IF c \in current_chunks THEN "NOT_DOWNLOADED"
                                   ELSE IF InMemory(ChunkOf(c)) THEN "ON_DISK" ELSE status[c]]
    /\ read_only' = {}
    /\ mem' = [c \in Chunks |-> AllBad]
    /\ current_chunks' = {}
    /\ UNCHANGED <<disk, manager, pieces, hashed, chunks, sessions, history>>

\* loadDownloads: a chunk of the file is prepared and gets its pieces back; the
\* saved contents of a buffer go wherever the chunk is now
Loaded(c, mapped) ==
    LET k == prep(ChunkOf(c), mapped)
    IN IF ~saved[c].buffered THEN k
       ELSE IF mapped THEN [k EXCEPT !.disk = saved[c].data]
       ELSE [k EXCEPT !.mem = saved[c].data]

Start ==
    LET back == IF completed THEN {}
                ELSE {c \in Chunks : saved[c].saved /\ status[c] = "NOT_DOWNLOADED"}
    IN /\ ~running /\ sessions < env.sessions
       /\ running' = TRUE /\ sessions' = sessions + 1
       /\ \E mapped \in [Chunks -> MapResults] :
             LET k == [c \in Chunks |-> IF c \in back THEN Loaded(c, mapped[c]) ELSE ChunkOf(c)]
             IN /\ status' = [c \in Chunks |-> k[c].status]
                /\ mem' = [c \in Chunks |-> k[c].mem]
                /\ disk' = [c \in Chunks |-> k[c].disk]
                /\ hashed' = [c \in Chunks |->
                                IF c \in back
                                THEN UpdatedHash(NoHash, saved[c].pieces, Content(k[c]))
                                ELSE hashed[c]]
       /\ current_chunks' = current_chunks \cup back
       /\ pieces' = [c \in Chunks |-> IF c \in back THEN saved[c].pieces ELSE pieces[c]]
       /\ UNCHANGED <<read_only, manager, chunks, saved, history>>

\* afterDataCheck: Downloader, ChunkSelector and ChunkManager::dataChecked
DataCheck ==
    LET ok == {c \in Chunks : Good(disk[c])}
    IN /\ ~running
       /\ chunks' = Chunks \ ok
       /\ bitset' = ok
       /\ status' = [c \in Chunks |-> IF c \in ok \ bitset THEN "ON_DISK"
                                      ELSE IF c \in bitset \ ok THEN "NOT_DOWNLOADED"
                                      ELSE status[c]]
       /\ index_file' = IndexOf(status')
       /\ corrupted_count' = 0
       /\ UNCHANGED <<read_only, mem, disk, loaded, recheck_counter, current_chunks, pieces,
                      hashed, others>>

\* the program dies, or ends, and is run again: loadIndexFile and a new selector.
\* (The loop over the file runs once more at its end, on a header nothing was read
\* into; its stack slot still holds the last record, which is taken twice.)
Restart ==
    /\ sessions < env.sessions
    /\ status' = [c \in Chunks |-> IF c \in index_file THEN "ON_DISK" ELSE "NOT_DOWNLOADED"]
    /\ bitset' = index_file
    /\ chunks' = Chunks \ index_file
    /\ read_only' = {} /\ mem' = [c \in Chunks |-> AllBad]
    /\ loaded' = {} /\ recheck_counter' = 0 /\ corrupted_count' = 0
    /\ current_chunks' = {}
    /\ running' = FALSE
    /\ UNCHANGED <<disk, index_file, pieces, hashed, saved, sessions, history>>

\* a bad sector, or a file that something else wrote to
Decay(c, p) ==
    /\ MayFail /\ c \notin decayed /\ disk[c][p] = "good"
    /\ disk' = [disk EXCEPT ![c][p] = "bad"]
    /\ decayed' = decayed \cup {c}
    /\ UNCHANGED <<memory, manager, downloads, running, saved, sessions, env, unwritten>>

-----------------------------------------------------------------------------
Init ==
    /\ env \in Environments
    /\ status = [c \in Chunks |-> "NOT_DOWNLOADED"]
    /\ read_only = {}
    /\ mem = [c \in Chunks |-> AllBad]
    /\ disk = [c \in Chunks |-> AllBad]
    /\ bitset = {} /\ loaded = {} /\ recheck_counter = 0 /\ corrupted_count = 0
    /\ current_chunks = {}
    /\ pieces = [c \in Chunks |-> {}]
    /\ hashed = [c \in Chunks |-> NoHash]
    /\ chunks = Chunks
    /\ running = FALSE
    /\ index_file = {}
    /\ saved = [c \in Chunks |-> NotSaved]
    /\ sessions = 0
    /\ decayed = {} /\ unwritten = {}

pieceRecieved(c, p) ==
    PieceStored(c, p) \/ ChunkVerified(c, p) \/ SaveFails(c, p) \/ ChunkRejected(c, p)

grabChunk(c) == GrabInMemory(c) \/ GrabLoads(c) \/ GrabFindsCorruption(c)

Next ==
    \/ \E c \in Chunks : StartDownload(c) \/ Reload(c) \/ PutAway(c)
                         \/ grabChunk(c) \/ FreeChunk(c)
    \/ \E c \in Chunks, p \in Pieces : pieceRecieved(c, p) \/ Decay(c, p)
    \/ SelectFails \/ Stop \/ Start \/ DataCheck \/ Restart

Spec == Init /\ [][Next]_vars

\* The timer calls Downloader::update, which starts what the selector offers, and
\* a peer that keeps being asked sends its piece in the end.
Fairness ==
    /\ \A c \in Chunks : SF_vars(StartDownload(c))
    /\ \A c \in Chunks, p \in Pieces : SF_vars(pieceRecieved(c, p))

FairSpec == Spec /\ Fairness

-----------------------------------------------------------------------------
(* Properties *)

Contents == [Pieces -> {"good", "bad"}]

\* Every variable has its type; only mappings are read-only, only chunks in
\* memory have been grabbed.
TypeOK ==
    /\ status \in [Chunks -> {"MMAPPED", "BUFFERED", "ON_DISK", "NOT_DOWNLOADED"}]
    /\ \A c \in read_only : status[c] = "MMAPPED"
    /\ mem \in [Chunks -> Contents] /\ disk \in [Chunks -> Contents]
    /\ {bitset, loaded, current_chunks, chunks, index_file, decayed, unwritten} \subseteq SUBSET Chunks
    /\ recheck_counter \in 0..RecheckAt /\ corrupted_count \in 0..1
    /\ pieces \in [Chunks -> SUBSET Pieces]
    /\ \A c \in Chunks : hashed[c].n \in 0..NumPieces /\ hashed[c].good \in BOOLEAN
    /\ running \in BOOLEAN
    /\ env \in Environments /\ sessions \in 0..env.sessions

\* A chunk we announce is on the disk and matches its hash, through crashes and restarts,
\* hash failures, idle chunks and reloads; only the disk itself can change that.  And as
\* long as the disk keeps what it was given and peers ask for what we announced, the index
\* file, which a restart will believe, names exactly what the running program has verified.
VerifiedIsGood ==
    /\ TypeOK
    /\ \A c \in bitset \ decayed : Good(disk[c])
    /\ env.faults = 0 /\ ~env.unannounced => index_file = bitset

\* A chunk that is neither there nor being downloaded can be: it is
\* NOT_DOWNLOADED, so prepareChunk takes it, and on the list of the selector.
\* (A chunk that could not be written stays where it is until a data check.)
MissingCanBeFetched ==
    \A c \in Chunks \ (bitset \cup current_chunks \cup unwritten) :
        status[c] = "NOT_DOWNLOADED" /\ c \in chunks

\* While the disk keeps what it is given: whatever was stopped, started, checked and
\* lost in a crash on the way, the download is completed once the torrent is left
\* running and no finished chunk turns out bad any more.
AllDownloaded ==
    env.faults = 0 /\ <>[]running /\ <>[][\A c \in Chunks, p \in Pieces : ~ChunkRejected(c, p)]_vars
        => <>completed
=============================================================================
