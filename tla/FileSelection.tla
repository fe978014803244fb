--------------------------- MODULE FileSelection ---------------------------
(***************************************************************************)
(* The files of a torrent and the chunks they share: selecting, deselecting*)
(* and prioritising files (chunkmanager.cpp, torrentfile.cpp), where the    *)
(* parts of a chunk are kept (multifilecache.cpp, dndfile.cpp), what the    *)
(* downloader and the chunk selector make of it, data checks, missing files *)
(* and restarts.  Chunks are complete or not here: ChunkStore has their     *)
(* pieces.  Handlers pass a record w of the three objects they change along:*)
(* w.cman, w.down and w.cache.                                             *)
(***************************************************************************)
EXTENDS Integers, Sequences, FiniteSets, FiniteSetsExt

CONSTANTS ChunkSize,   \* bytes in a chunk
          Layouts,     \* the torrents: where each of their files ends
          Multimedia,  \* numbers of the files with a multimedia name
          Priorities,  \* priorities the user gives to files
          MaxChunk,    \* no chunk has a higher number
          MaxChanges,  \* bound: changes of a priority
          MaxSessions  \* bound: restarts of the program and missing files

EXCLUDED == 10
ONLY_SEED_PRIORITY == 20
NORMAL_PRIORITY == 40
PREVIEW_PRIORITY == 60

ASSUME ConstantsAssumption ==
    /\ ChunkSize \in Nat \ {0}
    /\ \A ends \in Layouts :
          /\ ends \in Seq(Nat) /\ ends # <<>> /\ ends[Len(ends)] > 0
          /\ \A i, j \in DOMAIN ends : i <= j => ends[i] <= ends[j]
    /\ EXCLUDED \in Priorities
    /\ Priorities \subseteq {EXCLUDED, ONLY_SEED_PRIORITY, NORMAL_PRIORITY, 30, 50}
    /\ MaxChanges \in Nat /\ MaxSessions \in Nat

VARIABLES
    torrent,        \* the files: where they begin and end; never changes
    priority,       \* TorrentFile::priority of every file
    file_priority,  \* the priorities in the file_priority file
    loading,        \* the file whose saved priority is set next; 0: nothing is loaded
    cman,           \* ChunkManager: status, bitset, todo, ... of the chunks
    down,           \* Downloader::current_chunks and ChunkSelector::chunks
    cache,          \* what the disk holds of every file
    index_file,     \* the chunks listed in the index file
    current_file,   \* the chunks saved as being downloaded
    running,        \* the torrent is started
    check,          \* the result of a data check, until it is applied
    changes,        \* history: changes of a priority
    sessions,       \* history: restarts and losses of files
    outdated,       \* history: bits taken from records that no longer held
    absent          \* history: files deselected when they were missing, until they are
                    \* selected again without their last chunk

vars == <<torrent, priority, file_priority, loading, cman, down, cache, index_file,
          current_file, running, check, changes, sessions, outdated, absent>>

-----------------------------------------------------------------------------
(* The layout of the files *)

\* Torrent::loadFiles and the constructor of TorrentFile: a file begins where the
\* one before it ends
LoadFiles(ends) ==
    LET off(i) == IF i = 1 THEN 0 ELSE ends[i - 1]
    IN [i \in DOMAIN ends |->
           [first |-> off(i) \div ChunkSize,
            last |-> IF ends[i] > off(i) THEN (ends[i] - 1) \div ChunkSize ELSE off(i) \div ChunkSize,
            size |-> ends[i] - off(i)]]

Files == DOMAIN torrent
ChunksOf(f) == torrent[f].first .. torrent[f].last
Chunks == UNION {ChunksOf(f) : f \in {g \in Files : torrent[g].size # 0}}

\* calcChunkPos: the files a chunk lies in, none for an empty one
FilesOf(c) == {f \in Files : torrent[f].size # 0 /\ c \in ChunksOf(f)}

IsFirst(f, c) == f \in FilesOf(c) /\ \A g \in FilesOf(c) : f <= g
InOneFile(c) == \E f \in Files : FilesOf(c) = {f}
Shared(c) == \E f, g \in FilesOf(c) : f # g

-----------------------------------------------------------------------------
(* The cache: an output file, or a .dnd file that keeps the parts of the    *)
(* border chunks of a file that is not downloaded.                          *)

Part == {"none", "bad", "good"}
EmptyFile == [where |-> "output", parts |-> {}, first |-> "none", last |-> "none"]
Quality(good) == IF good THEN "good" ELSE "bad"

\* DNDFile::readFirstChunk and readLastChunk
ReadFirstChunk(d) == d.first = "good"
ReadLastChunk(d) == d.last = "good"

\* MultiFileCache::load: the first file of the chunk is read from the last
\* part of its .dnd file, all others from the first part
PartIsGood(k, c, f) ==
    CASE k[f].where = "output" -> c \in k[f].parts
      [] k[f].where = "missing" -> FALSE
      [] k[f].where = "dnd" -> /\ ~InOneFile(c)
                               /\ IF IsFirst(f, c) THEN ReadLastChunk(k[f]) ELSE ReadFirstChunk(k[f])
ChunkIsGood(k, c) == \A f \in FilesOf(c) : PartIsGood(k, c, f)

\* DNDFile::writeFirstChunk: the last part is looked for behind the new first
\* part, where it is only if there was one before
WriteFirstChunk(d) ==
    [d EXCEPT !.first = "good", !.last = IF d.first = "none" /\ @ # "none" THEN "bad" ELSE @]

\* DNDFile::writeLastChunk, with the data of the last chunk or of another one
WriteLastChunk(d, right) == [d EXCEPT !.last = Quality(right)]

\* MultiFileCache::save; a chunk that lies in a .dnd file alone becomes its last part
SavePart(d, c, f) ==
    CASE d.where = "output" -> [d EXCEPT !.parts = @ \cup {c}]
      [] d.where = "dnd" /\ IsFirst(f, c) -> WriteLastChunk(d, c = torrent[f].last)
      [] d.where = "dnd" /\ ~IsFirst(f, c) -> WriteFirstChunk(d)
      [] OTHER -> d
Save(k, c) ==
    [f \in Files |-> IF f \in FilesOf(c) THEN SavePart(k[f], c, f) ELSE k[f]]

\* Mutant: the last part is forgotten
ToDNDFirstOnly(d, f) ==
    [where |-> "dnd", parts |-> {}, last |-> "none",
     first |-> IF d.where = "output" THEN Quality(torrent[f].first \in d.parts) ELSE "none"]

\* saveFirstAndLastChunk, unless there is no output file, and its deletion
ToDND(d, f) ==
    [where |-> "dnd", parts |-> {},
     first |-> IF d.where = "output" THEN Quality(torrent[f].first \in d.parts) ELSE "none",
     last |-> IF d.where = "output" /\ torrent[f].first # torrent[f].last
              THEN Quality(torrent[f].last \in d.parts) ELSE "none"]

\* recreateFile, and the deletion of the .dnd file
FromDND(d, f) ==
    [EmptyFile EXCEPT !.parts =
        {c \in ChunksOf(f) : \/ c = torrent[f].first /\ ReadFirstChunk(d)
                             \/ c = torrent[f].last /\ c # torrent[f].first /\ ReadLastChunk(d)}]

\* MultiFileCache::downloadStatusChanged
CacheStatusChanged(w, f, download) ==
    LET d == w.cache[f]
    IN [w EXCEPT !.cache[f] = CASE ~download /\ d.where # "dnd" -> ToDND(d, f)
                                [] download /\ d.where # "output" -> FromDND(d, f)
                                [] OTHER -> d]

-----------------------------------------------------------------------------
(* ChunkManager *)

Excluded(m, c) == m.cprio[c] = EXCLUDED     \* Chunk::isExcluded
InRange(from, to) == {c \in Chunks : from <= c /\ c <= to}

\* chunksLeft: the count is cached until recalc_chunks_left is set; every
\* change of the selection ends with updateStats, which asks for it
LeftSet(m) == {c \in Chunks : c \notin m.bitset /\ ~Excluded(m, c)}
Left(m) == Cardinality(LeftSet(m))
ChunksLeft(m) == IF m.recalc THEN [m EXCEPT !.left = Left(m), !.recalc = FALSE] ELSE m
updateStats(w) == [w EXCEPT !.cman = ChunksLeft(@)]

\* resetChunk
Reset(m, S) ==
    [m EXCEPT !.status = [c \in Chunks |-> IF c \in S THEN "NOT_DOWNLOADED" ELSE @[c]],
              !.bitset = @ \ S,
              !.todo = (@ \ S) \cup (S \ (m.excluded \cup m.only_seed))]

prioritise(w, from, to, p) ==
    LET S == InRange(from, to)
        m == w.cman
    IN updateStats([w EXCEPT !.cman =
          [m EXCEPT !.cprio = [c \in Chunks |-> IF c \in S THEN p ELSE @[c]],
                    !.only_seed = IF p = ONLY_SEED_PRIORITY THEN @ \cup S ELSE @ \ S,
                    !.todo = IF p \in {ONLY_SEED_PRIORITY, EXCLUDED} THEN @ \ S
                             ELSE (@ \ S) \cup (S \ m.bitset)]])

\* Downloader::onExcluded: downloads in progress end and their chunks are reset
onExcluded(w, from, to) ==
    LET S == {c \in w.down.current : from <= c /\ c <= to /\ w.cman.cprio[c] # ONLY_SEED_PRIORITY}
    IN [w EXCEPT !.down.current = @ \ S, !.cman = Reset(@, S)]

exclude(w, from, to) ==
    LET S == InRange(from, to)
        m == w.cman
    IN updateStats(onExcluded([w EXCEPT !.cman =
          [m EXCEPT !.cprio = [c \in Chunks |-> IF c \in S THEN EXCLUDED ELSE @[c]],
                    !.excluded = @ \cup S, !.only_seed = @ \ S,
                    !.todo = @ \ S, !.bitset = @ \ S, !.recalc = TRUE]], from, to))

\* Mutant: the selector is not told
ReincludedIgnored(w, from, to) == w

\* ChunkSelector::reincluded, called through Downloader::onIncluded
reincluded(w, from, to) ==
    IF to \notin Chunks THEN w
    ELSE [w EXCEPT !.down.chunks = @ \cup {c \in InRange(from, to) : w.cman.status[c] # "ON_DISK"}]

\* Mutant: recalc_chunks_left is not set
IncludeUncounted(w, from, to) ==
    LET S == InRange(from, to)
        m == w.cman
    IN reincluded(updateStats([w EXCEPT !.cman =
          [m EXCEPT !.cprio = [c \in Chunks |-> IF c \in S THEN NORMAL_PRIORITY ELSE @[c]],
                    !.excluded = @ \ S, !.todo = @ \cup (S \ m.bitset)]]), from, to)

include(w, from, to) ==
    LET S == InRange(from, to)
        m == w.cman
    IN reincluded(updateStats([w EXCEPT !.cman =
          [m EXCEPT !.cprio = [c \in Chunks |-> IF c \in S THEN NORMAL_PRIORITY ELSE @[c]],
                    !.excluded = @ \ S, !.todo = @ \cup (S \ m.bitset), !.recalc = TRUE]]), from, to)

\* downloadStatusChanged for a file that is to be downloaded: its chunks are
\* included, and the first and last ones of a multimedia file come first
Selected(w, f) ==
    LET first == torrent[f].first
        last == torrent[f].last
        chunkOffset == (last - first) \div 100 + 1
        w1 == include(w, first, last)
        w2 == IF f \in Multimedia THEN prioritise(w1, first, first + chunkOffset, PREVIEW_PRIORITY) ELSE w1
    IN IF f \in Multimedia /\ last - first > 2
       THEN prioritise(w2, last - chunkOffset, last, PREVIEW_PRIORITY) ELSE w2

\* The files other than f that want a chunk, and the highest of their priorities
WantedBy(p, c, f) == {g \in FilesOf(c) \ {f} : p[g] # EXCLUDED}
MaxPriority(p, F) == Max({ONLY_SEED_PRIORITY} \cup {p[g] : g \in F})

\* Border chunks other files want stay in, the last one unless first, which has
\* been incremented for the first one, has reached it
KeepFirst(p, f) ==
    torrent[f].first # torrent[f].last /\ WantedBy(p, torrent[f].first, f) # {}
NewFirst(p, f) == IF KeepFirst(p, f) THEN torrent[f].first + 1 ELSE torrent[f].first
KeepLast(p, f) ==
    /\ NewFirst(p, f) # torrent[f].last /\ torrent[f].last > 0
    /\ WantedBy(p, torrent[f].last, f) # {}
NewLast(p, f) == IF KeepLast(p, f) THEN torrent[f].last - 1 ELSE torrent[f].last

\* The chunks that lie in f alone; chunk 0 is left out
Own(f) ==
    LET first == torrent[f].first
        last == torrent[f].last
    IN (first + 1 .. last - 1) \cup {c \in {first} : InOneFile(c) /\ c # 0}
                              \cup {c \in {last} : InOneFile(c) /\ c # first}

\* downloadStatusChanged for a file that is not to be downloaded: what lies in
\* it alone is reset, the chunks no other file wants are excluded
Deselected(w, p, f) ==
    LET first == torrent[f].first
        last == torrent[f].last
        Keep(v, c) == prioritise(v, c, c, MaxPriority(p, WantedBy(p, c, f)))
        w1 == [w EXCEPT !.cman = Reset(@, Own(f))]
        w2 == IF KeepFirst(p, f) THEN Keep(w1, first) ELSE w1
        w3 == IF KeepLast(p, f) THEN Keep(w2, last) ELSE w2
    IN IF first = last /\ Shared(first) THEN w
       ELSE IF NewLast(p, f) < NewFirst(p, f) THEN w3
       ELSE exclude(w3, NewFirst(p, f), NewLast(p, f))

downloadStatusChanged(w, p, f, download) ==
    CacheStatusChanged(IF download THEN Selected(w, f) ELSE Deselected(w, p, f), f, download)

\* downloadPriorityChanged: border chunks keep the higher priority of another file
Higher(p, f, c) == \E g \in FilesOf(c) \ {f} : p[g] > p[f]

Prioritised(w, p, f) ==
    LET first == torrent[f].first
        last == torrent[f].last
        nfirst == IF Higher(p, f, first) THEN first + 1 ELSE first
        nlast == IF Higher(p, f, last) THEN last - 1 ELSE last
    IN IF \/ Higher(p, f, first) /\ first = last
          \/ Higher(p, f, last) /\ last \in {0, nfirst}
          \/ nlast < nfirst
       THEN w
       ELSE prioritise(w, nfirst, nlast, p[f])

\* TorrentFile::setPriority and setDoNotDownload: an excluded file is included
\* with the normal priority first, and given the new one then
SetPriority(w, p, f, new) ==
    LET normal == [p EXCEPT ![f] = NORMAL_PRIORITY]
        w1 == IF p[f] = EXCLUDED THEN downloadStatusChanged(w, normal, f, TRUE) ELSE w
    IN IF p[f] = new THEN w
       ELSE IF new = EXCLUDED THEN downloadStatusChanged(w, [p EXCEPT ![f] = EXCLUDED], f, FALSE)
       ELSE Prioritised(w1, [p EXCEPT ![f] = new], f)

\* The constructor: everything is to be downloaded, multimedia files get
\* PREVIEW_PRIORITY at both ends
NewChunkManager ==
    LET Preview(f) ==
            LET first == torrent[f].first
                last == torrent[f].last
                chunkOffset == (last - first) \div 100 + 1
            IN IF first = last THEN {first}
               ELSE InRange(first, first + chunkOffset)
                    \cup (IF last - first > chunkOffset THEN InRange(last - chunkOffset, last) ELSE {})
        preview == UNION {Preview(f) : f \in Files \cap Multimedia}
    IN [status |-> [c \in Chunks |-> "NOT_DOWNLOADED"], bitset |-> {}, excluded |-> {},
        only_seed |-> {}, todo |-> Chunks, recalc |-> TRUE, left |-> 0,
        cprio |-> [c \in Chunks |-> IF c \in preview THEN PREVIEW_PRIORITY ELSE NORMAL_PRIORITY]]

completed == cman.todo = {} /\ cman.bitset # {}

-----------------------------------------------------------------------------
(* The actions *)

Commit(w) ==
    /\ cman' = w.cman /\ down' = w.down /\ cache' = w.cache
World == [cman |-> cman, down |-> down, cache |-> cache]

\* saveIndexFile: every chunk that is not NOT_DOWNLOADED is listed
SavedIndex(m) == {c \in Chunks : m.status[c] # "NOT_DOWNLOADED"}

Init ==
    /\ torrent \in {LoadFiles(ends) : ends \in Layouts}
    /\ priority = [f \in Files |-> NORMAL_PRIORITY]
    /\ file_priority = priority /\ loading = 0
    /\ cman = NewChunkManager
    /\ down = [current |-> {}, chunks |-> Chunks]
    /\ cache = [f \in Files |-> EmptyFile]
    /\ index_file = {} /\ current_file = {}
    /\ running = FALSE /\ check = {}
    /\ changes = 0 /\ sessions = 0 /\ outdated = {} /\ absent = {}

\* The user changes the priority of a file, at any time
ChangePriority(f, p) ==
    /\ loading = 0 /\ changes < MaxChanges /\ p # priority[f]
    /\ changes' = changes + 1
    /\ Commit(SetPriority(World, priority, f, p))
    /\ priority' = [priority EXCEPT ![f] = p]
    /\ file_priority' = priority'
    /\ outdated' = outdated \cap cman'.bitset
    /\ absent' = absent \ {g \in {f} : torrent[g].last \notin cman'.bitset}
    /\ UNCHANGED <<torrent, loading, index_file, current_file, running, check, sessions>>

\* ChunkSelector::select and ChunkManager::prepareChunk
StartDownload(c) ==
    /\ running
    /\ c \in down.chunks \ (cman.bitset \cup down.current)
    /\ cman.cprio[c] \notin {EXCLUDED, ONLY_SEED_PRIORITY}
    /\ cman.status[c] = "NOT_DOWNLOADED"
    /\ cman' = [cman EXCEPT !.status[c] = "BUFFERED"]
    /\ down' = [current |-> down.current \cup {c}, chunks |-> down.chunks \ cman.bitset]
    /\ UNCHANGED <<torrent, priority, file_priority, loading, cache, index_file, current_file,
                   running, check, changes, sessions, outdated, absent>>

\* Downloader::finished and saveChunk, for a chunk whose hash is right
FinishChunk(c) ==
    /\ running /\ c \in down.current
    /\ down' = [down EXCEPT !.current = @ \ {c}]
    /\ IF Excluded(cman, c)
       THEN /\ cman' = [cman EXCEPT !.status[c] = "NOT_DOWNLOADED"]
            /\ UNCHANGED <<cache, index_file>>
       ELSE /\ cache' = Save(cache, c)
            /\ cman' = [cman EXCEPT !.status[c] = "ON_DISK", !.bitset = @ \cup {c},
                                    !.todo = @ \ {c}, !.recalc = TRUE]
            /\ index_file' = index_file \cup {c}
    /\ UNCHANGED <<torrent, priority, file_priority, loading, current_file, running, check,
                   changes, sessions, outdated, absent>>

\* MultiFileCache::load finds no data of a chunk in a .dnd file alone
HasNoData(c) == \E f \in Files : FilesOf(c) = {f} /\ cache[f].where = "dnd"

\* grabChunk for an upload finds that the hash is wrong: the chunk is reset and
\* given back to the selector
GrabCorrupted(c) ==
    /\ running
    /\ cman.status[c] = "ON_DISK" /\ ~Excluded(cman, c)
    /\ ~HasNoData(c) /\ ~ChunkIsGood(cache, c)
    /\ cman' = [Reset(cman, {c}) EXCEPT !.recalc = TRUE]
    /\ index_file' = SavedIndex(cman')
    /\ down' = [down EXCEPT !.chunks = @ \cup {c}]
    /\ outdated' = outdated \ {c}
    /\ UNCHANGED <<torrent, priority, file_priority, loading, cache, current_file, running, check, changes, sessions, absent>>

\* TorrentControl::updateStats, called by the timer
UpdateStats ==
    /\ loading = 0 /\ cman.recalc
    /\ cman' = ChunksLeft(cman)
    /\ UNCHANGED <<torrent, priority, file_priority, loading, down, cache, index_file, current_file,
                   running, check, changes, sessions, outdated, absent>>

\* Mutant: the chunks of the downloads keep their status
StopKeepsStatus ==
    /\ running
    /\ running' = FALSE
    /\ current_file' = down.current
    /\ down' = [down EXCEPT !.current = {}]
    /\ UNCHANGED <<torrent, priority, file_priority, loading, cman, cache, index_file, check, changes, sessions, outdated, absent>>

\* TorrentControl::stop: downloads are saved and cleared, their chunks reset
Stop ==
    /\ running
    /\ running' = FALSE
    /\ current_file' = down.current
    /\ down' = [down EXCEPT !.current = {}]
    /\ cman' = [cman EXCEPT !.status = [c \in Chunks |-> IF c \in down.current
                                                         THEN "NOT_DOWNLOADED" ELSE @[c]]]
    /\ UNCHANGED <<torrent, priority, file_priority, loading, cache, index_file, check, changes,
                   sessions, outdated, absent>>

\* TorrentControl::start with loadDownloads: saved downloads go on if
\* prepareChunk lets them
Start ==
    LET back == IF completed THEN {}
                ELSE {c \in current_file : cman.status[c] = "NOT_DOWNLOADED"}
    IN /\ ~running /\ loading = 0 /\ check = {}
       /\ running' = TRUE
       /\ down' = [down EXCEPT !.current = back]
       /\ cman' = [cman EXCEPT !.status = [c \in Chunks |-> IF c \in back THEN "BUFFERED" ELSE @[c]]]
       /\ UNCHANGED <<torrent, priority, file_priority, loading, cache, index_file, current_file,
                      check, changes, sessions, outdated, absent>>

\* MultiDataChecker::loadChunk: which files are read is decided by their
\* priority, and a chunk that lies in a deselected file alone is not read
CheckedGood(c) ==
    /\ ~(InOneFile(c) /\ \E f \in FilesOf(c) : priority[f] = EXCLUDED)
    /\ \A f \in FilesOf(c) : IF priority[f] # EXCLUDED THEN c \in cache[f].parts
                             ELSE IF IsFirst(f, c) THEN ReadLastChunk(cache[f])
                             ELSE ReadFirstChunk(cache[f])

\* The data checker's thread reads every chunk of a stopped torrent
DataCheck ==
    /\ ~running /\ loading = 0 /\ check = {}
    /\ check' = {{c \in Chunks : CheckedGood(c)}}
    /\ UNCHANGED <<torrent, priority, file_priority, loading, cman, down, cache, index_file,
                   current_file, running, changes, sessions, outdated, absent>>

\* ChunkSelector::dataChecked
SelectorDataChecked(ok) == [down EXCEPT !.chunks = Chunks \ ok]

\* afterDataCheck: Downloader::dataChecked, then ChunkManager::dataChecked
AfterDataCheck ==
    LET ok == UNION check
        found == ok \ cman.bitset
        lost == cman.bitset \ ok
    IN /\ check # {}
       /\ check' = {}
       /\ down' = SelectorDataChecked(ok)
       /\ cman' = [cman EXCEPT
             !.bitset = ok, !.recalc = FALSE,
             !.todo = (@ \ (found \cup lost)) \cup (lost \ (cman.only_seed \cup cman.excluded)),
             !.left = Left([cman EXCEPT !.bitset = ok]),
             !.status = [c \in Chunks |-> IF c \in found THEN "ON_DISK"
                                          ELSE IF c \in lost THEN "NOT_DOWNLOADED" ELSE @[c]]]
       /\ index_file' = SavedIndex(cman')
       /\ outdated' = {c \in ok : ~ChunkIsGood(cache, c)}
       /\ UNCHANGED <<torrent, priority, file_priority, loading, cache, current_file, running, changes, sessions, absent>>

\* hasMissingFiles looks for the files that are to be downloaded only
CanBeMissing(f) == priority[f] # EXCLUDED

\* The user chose to create missing files again: recreateMissingFiles
RecreateMissingFiles(F) ==
    LET gone == Chunks \cap UNION {ChunksOf(f) : f \in F}
        m == Reset(cman, gone)
    IN /\ ~running /\ loading = 0 /\ check = {} /\ sessions < MaxSessions
       /\ F # {} /\ \A f \in F : CanBeMissing(f)
       /\ cache' = [f \in Files |-> IF f \in F THEN EmptyFile ELSE cache[f]]
       /\ cman' = [m EXCEPT !.left = Left(m), !.recalc = FALSE]
       /\ index_file' = SavedIndex(m)
       /\ down' = SelectorDataChecked(m.bitset)
       /\ sessions' = sessions + 1
       /\ outdated' = outdated \cap m.bitset
       /\ UNCHANGED <<torrent, priority, file_priority, loading, current_file, running, check, changes, absent>>

\* The user chose not to download a missing file any more: dndMissingFiles
DndMissingFile(f) ==
    LET w == [World EXCEPT !.cman = Reset(@, Chunks \cap ChunksOf(f)), !.cache[f].where = "missing"]
        p == [priority EXCEPT ![f] = EXCLUDED]
        x == downloadStatusChanged(w, p, f, FALSE)
    IN /\ ~running /\ loading = 0 /\ check = {} /\ sessions < MaxSessions
       /\ CanBeMissing(f)
       /\ cache' = x.cache
       /\ cman' = [x.cman EXCEPT !.left = Left(x.cman), !.recalc = FALSE]
       /\ down' = [x.down EXCEPT !.chunks = Chunks \ x.cman.bitset]
       /\ priority' = p /\ file_priority' = p
       /\ index_file' = SavedIndex(x.cman)
       /\ sessions' = sessions + 1
       /\ outdated' = outdated \cap x.cman.bitset
       /\ absent' = absent \cup {f}
       /\ UNCHANGED <<torrent, loading, current_file, running, check, changes>>

\* The program ends in any way, even while it is starting, and is started again:
\* setupData makes the chunk manager, whose loadIndexFile begins with the priorities
Restart ==
    /\ sessions < MaxSessions
    /\ sessions' = sessions + 1
    /\ priority' = [f \in Files |-> NORMAL_PRIORITY]
    /\ loading' = 1
    /\ cman' = NewChunkManager
    /\ down' = [current |-> {}, chunks |-> Chunks]
    /\ running' = FALSE /\ check' = {} /\ outdated' = {}
    /\ UNCHANGED <<torrent, file_priority, cache, index_file, current_file, changes, absent>>

\* loadPriorityInfo: the saved priorities are set one file after the other, and
\* nothing else happens meanwhile
LoadPriority ==
    /\ loading \in Files
    /\ Commit(SetPriority(World, priority, loading, file_priority[loading]))
    /\ priority' = [priority EXCEPT ![loading] = file_priority[loading]]
    /\ loading' = loading + 1
    /\ UNCHANGED <<torrent, file_priority, index_file, current_file, running, check, changes,
                   sessions, outdated, absent>>

\* The rest of loadIndexFile, and the selector
LoadIndex ==
    /\ loading # 0 /\ loading \notin Files
    /\ loading' = 0
    /\ cman' = [cman EXCEPT
          !.status = [c \in Chunks |-> IF c \in index_file THEN "ON_DISK" ELSE @[c]],
          !.bitset = @ \cup index_file, !.todo = @ \ index_file,
          !.recalc = @ \/ index_file # {}]
    /\ down' = SelectorDataChecked(cman'.bitset)
    /\ outdated' = {c \in index_file : ~ChunkIsGood(cache, c)}
    /\ UNCHANGED <<torrent, priority, file_priority, cache, index_file, current_file, running,
                   check, changes, sessions, absent>>

Next ==
    \/ \E f \in Files, p \in Priorities : ChangePriority(f, p)
    \/ \E c \in Chunks : StartDownload(c) \/ FinishChunk(c) \/ GrabCorrupted(c)
    \/ UpdateStats
    \/ Stop
    \/ Start
    \/ DataCheck
    \/ AfterDataCheck
    \/ \E F \in SUBSET Files : RecreateMissingFiles(F)
    \/ \E f \in Files : DndMissingFile(f)
    \/ Restart
    \/ LoadPriority
    \/ LoadIndex

\* Peers serve what is asked for, and the selector comes to every chunk
Fairness ==
    /\ \A c \in 0 .. MaxChunk : WF_vars(c \in Chunks /\ StartDownload(c))
    /\ \A c \in 0 .. MaxChunk : WF_vars(c \in Chunks /\ FinishChunk(c))

Spec == Init /\ [][Next]_vars /\ Fairness

-----------------------------------------------------------------------------
(* Properties *)

\* Every variable has its type.
TypeOK ==
    /\ priority \in [Files -> Priorities \cup {NORMAL_PRIORITY}]
    /\ file_priority \in [Files -> Priorities \cup {NORMAL_PRIORITY}]
    /\ cman \in [status : [Chunks -> {"NOT_DOWNLOADED", "BUFFERED", "ON_DISK"}],
                cprio : [Chunks -> Priorities \cup {EXCLUDED, ONLY_SEED_PRIORITY,
                                                   NORMAL_PRIORITY, PREVIEW_PRIORITY}],
                bitset : SUBSET Chunks, excluded : SUBSET Chunks, only_seed : SUBSET Chunks,
                todo : SUBSET Chunks, recalc : BOOLEAN,
                left : {Cardinality(S) : S \in SUBSET Chunks}]
    /\ down \in [current : SUBSET Chunks, chunks : SUBSET Chunks]
    /\ cache \in [Files -> [where : {"output", "dnd"}, parts : SUBSET Nat,
                           first : Part, last : Part]]
    /\ \A S \in {index_file, current_file, outdated} : S \subseteq Chunks
    /\ loading \in 0 .. Len(torrent) + 1 /\ absent \subseteq Files

\* Chunks the code does not treat as their files say.  A file that lies in two chunks and
\* shares both has its last chunk excluded with it, even if another file wants that one
\* (downloadStatusChanged: first has reached last, so last is not decremented).  A chunk at
\* which an empty file begins is selected and deselected with the empty file.  A chunk after
\* a multimedia file of one chunk is taken for the second one of that file.
Pinched(c) ==
    \E f \in Files : torrent[f].first = c - 1 /\ torrent[f].last = c /\ Shared(c - 1) /\ Shared(c)
Overrun(c) ==
    \/ \E f \in Files : torrent[f].size = 0 /\ c \in ChunksOf(f)
    \/ \E f \in Files \cap Multimedia : torrent[f].first = c - 1 /\ torrent[f].last = c - 1
Odd(c) == Pinched(c) \/ Overrun(c)

\* A small file lies in a chunk alone, with others behind it in this chunk
SmallHead(c) ==
    Shared(c) /\ \E f \in FilesOf(c) : IsFirst(f, c) /\ torrent[f].first = torrent[f].last

\* The chunk ends a file whose .dnd file was made without its output file
AfterAbsent(c) == Shared(c) /\ \E f \in absent : IsFirst(f, c)

\* The chunk ends a file of which another chunk may have been saved in its place
AfterOverrun(c) == \E f \in Files : IsFirst(f, c) /\ \E e \in ChunksOf(f) : Overrun(e)

\* A chunk in the bitset, which peers are told we have, can be read back from
\* the output and .dnd files, whatever files were deselected, selected again or
\* found missing since it was saved (downloadStatusChanged, saveFirstAndLastChunk,
\* recreateFile).  Excepted are chunks that begin with a small file, whose part
\* is saved as first and read as last; chunks behind a file that was missing when
\* it was deselected, which writeFirstChunk spoils; overrun chunks, which are
\* downloaded although they lie in a file that is not, and the last chunk of this
\* file, in whose place save puts them; and bits taken from an index
\* file or a data check that a later change of the selection had made untrue.
HaveIsStored ==
    \A c \in cman.bitset :
        \/ ChunkIsGood(cache, c) \/ c \in outdated
        \/ SmallHead(c) \/ AfterAbsent(c) \/ Overrun(c) \/ AfterOverrun(c)

\* The cached count of chunksLeft is right whenever no recalculation is pending,
\* over every path that changes the bitset or the exclusion of a chunk; only odd
\* chunks, which may be prioritised while they are excluded, can be missing from it.
\* And everything has its type.
ChunksLeftIsFresh ==
    /\ TypeOK
    /\ \/ cman.recalc
       \/ \E S \in SUBSET {c \in LeftSet(cman) : Odd(c)} : cman.left = Cardinality(LeftSet(cman) \ S)

Wanted(f) == priority[f] > ONLY_SEED_PRIORITY /\ torrent[f].size # 0

\* Chunks to do that the selector does not pick or prepareChunk refuses, because
\* they are on disk although not in the bitset
Stuck ==
    {c \in cman.todo \ down.current : cman.status[c] = "ON_DISK" \/ c \notin down.chunks}

\* A chunk of a file that is to be downloaded is in the bitset or still to do, so that
\* completed() never holds with a part of a wanted file missing: border chunks survive
\* changes of the files they are shared with.  And a chunk that is still to do is being
\* downloaded, or the selector has it and prepareChunk will take it.  Excepted from this
\* are chunk 0 and border chunks: exclude takes their bit but leaves them ON_DISK.
WantedCanBeFetched ==
    /\ \A f \in Files : Wanted(f) =>
          \A c \in ChunksOf(f) : c \in cman.bitset \cup cman.todo \/ Odd(c)
    /\ \A c \in cman.todo :
          \/ c \in down.current
          \/ c \in Stuck /\ (c = 0 \/ Shared(c) \/ Odd(c))
          \/ /\ c \in down.chunks /\ cman.status[c] = "NOT_DOWNLOADED"
             /\ cman.cprio[c] \notin {EXCLUDED, ONLY_SEED_PRIORITY}

\* A torrent that is left running, and has no chunk the selector picks in vain,
\* completes: selections, stops, checks and restarts leave no chunk behind.
WantedIsFetched == <>[](running /\ Stuck = {}) => <>[](cman.todo = {})

\* "if one file in the list needs to be downloaded,decrement last"
\* (chunkmanager.cpp:905): deselecting a file never takes a chunk away from another
\* file that is to be downloaded.
BordersAreKept ==
    \A f \in Files : Wanted(f) => \A c \in ChunksOf(f) : ~Excluded(cman, c)
=============================================================================
