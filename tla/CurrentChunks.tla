--------------------------- MODULE CurrentChunks ---------------------------
(***************************************************************************)
(* The current_chunks file.  Downloader::saveDownloads writes the chunks   *)
(* that are in progress when a torrent stops, each as a header, the bits   *)
(* of its pieces and, if the chunk is buffered, its data; loadDownloads    *)
(* reads them when it starts again, getDownloadedBytesOfCurrentChunksFile  *)
(* counts them when the program begins.  Files may be deselected and data  *)
(* be found complete while the torrent is stopped, the disk may be full    *)
(* when it stops, and the program may end without stopping it.             *)
(*                                                                         *)
(* The file is a sequence of bytes behind the number of chunks in its      *)
(* header, since it matters where a reader is.  What a read at the end of  *)
(* the file leaves unset is arbitrary.  Chunks are small and have at most  *)
(* eight pieces, so that a bitset is one byte and a number fits in one of  *)
(* its four.                                                               *)
(***************************************************************************)
EXTENDS Integers, FiniteSets, Sequences, SequencesExt, FiniteSetsExt

CONSTANTS
    NumChunks,      \* the chunks are 0 .. NumChunks - 1
    ChunkSize,      \* ChunkSize[c]: bytes of a chunk
    MaxPieceLen,    \* MAX_PIECE_LEN
    Arriving,       \* Arriving[c]: the pieces that peers send, as a bound
    Content,        \* Content[c]: the bytes that a buffered chunk is saved with
    Block,          \* a full disk keeps a whole number of blocks of so many bytes
    MaxSessions     \* bound: how often the program begins

Chunks == 0 .. NumChunks - 1

VARIABLES
    running,
    current_chunks,     \* the chunks with a ChunkDownload
    pieces,             \* ChunkDownload::pieces of those, none of the others
    status,             \* of each chunk: Chunk::getStatus
    excluded,           \* the chunks of files that were deselected
    file,               \* current_chunks: the number of chunks and the bytes behind it
    saved,              \* history: what was to be saved, the pieces of some chunks and
                        \* the length of their entries
    sessions

vars == <<running, current_chunks, pieces, status, excluded, file, saved, sessions>>

---------------------------------------------------------------------------
(* The format *)

CeilDiv(a, b) == (a + b - 1) \div b

\* ChunkDownload::num and last_size
num(c) == CeilDiv(ChunkSize[c], MaxPieceLen)
last_size(c) == ChunkSize[c] - (num(c) - 1) * MaxPieceLen

CurrentChunksConstants ==
    /\ {NumChunks, MaxPieceLen, Block} \subseteq 1 .. 127 /\ MaxSessions \in Nat
    /\ ChunkSize \in [Chunks -> 1 .. 8 * MaxPieceLen]
    /\ \A c \in Chunks : /\ Len(Content[c]) = ChunkSize[c] /\ Range(Content[c]) \subseteq 0 .. 255
                          /\ Arriving[c] \subseteq 0 .. num(c) - 1

Number(n) == <<n, 0, 0, 0>>
Header(index, bits, buffered) == Number(index) \o Number(bits) \o Number(buffered)
HeaderSize == 12
indexOf(h) == SubSeq(h, 1, 4)
num_bitsOf(h) == SubSeq(h, 5, 8)
bufferedOf(h) == SubSeq(h, 9, 12) # Number(0)

\* The first piece is the highest bit
BitSet(S) == <<MapThenSumSet(LAMBDA i : 2 ^ (7 - i), S)>>
Bits(byte, n) == {i \in 0 .. n - 1 : (byte \div 2 ^ (7 - i)) % 2 = 1}

\* ChunkDownload::bytesDownloaded, and the same sum over the bits of the file
Bytes(c, S) == MapThenSumSet(LAMBDA i : IF i = num(c) - 1 THEN last_size(c) ELSE MaxPieceLen, S)

\* ChunkDownload::save
save(c) ==
    Header(c, num(c), IF status[c] = "BUFFERED" THEN 1 ELSE 0)
        \o BitSet(pieces[c]) \o (IF status[c] = "BUFFERED" THEN Content[c] ELSE <<>>)

\* Downloader::saveDownloads, the chunks in the order of their map
Entries ==
    LET upTo[n \in 0 .. NumChunks] ==
            IF n = 0 THEN <<>>
            ELSE upTo[n - 1] \o (IF n - 1 \in current_chunks THEN save(n - 1) ELSE <<>>)
    IN  upTo[NumChunks]

---------------------------------------------------------------------------
(* Downloader::loadDownloads *)

\* Where the reader is, the downloads and the statuses it has made, and whether it goes on
Reader == [pos |-> 0, made |-> {}, pieces |-> [c \in Chunks |-> {}], status |-> status, go |-> TRUE]

Rest(r) == SubSeq(file.bytes, r.pos + 1, Len(file.bytes))
Took(r, n) == [r EXCEPT !.pos = IF @ + n > Len(file.bytes) THEN Len(file.bytes) ELSE @ + n]

\* What a header may be of which the file holds the beginning only; NumChunks
\* stands for every index that is none
Headers == {Header(i, n, b) : i \in 0 .. NumChunks, n \in {num(c) : c \in Chunks} \cup {0}, b \in {0, 1}}
HeadersRead(r) ==
    IF Len(Rest(r)) >= HeaderSize THEN {SubSeq(Rest(r), 1, HeaderSize)}
    ELSE {h \in Headers : IsPrefix(Rest(r), h)}

\* The bits that a reader finds; behind the end of the file anything, of the pieces that arrive
BitsRead(r, c) ==
    IF Rest(r) # <<>> THEN {Bits(Rest(r)[1], num(c))} ELSE SUBSET Arriving[c]

\* mutant: the data of a buffered chunk is not read
NoData(r, c, h) == r

\* The data of a buffered chunk
Data(r, c, h) == IF bufferedOf(h) THEN Took(r, ChunkSize[c]) ELSE r
IsWhole(r, c, h) == bufferedOf(h) => Len(Rest(r)) >= ChunkSize[c]

\* ChunkDownload::load of a chunk that was prepared, as an mmapped one or a
\* buffered one.  If it fails the download is deleted and the chunk stays prepared.
load(r, c, h) ==
    IF num_bitsOf(h) # Number(num(c)) THEN {r}
    ELSE LET d == Took(r, 1)
         IN  {IF IsWhole(d, c, h)
              THEN [Data(d, c, h) EXCEPT !.made = @ \cup {c}, !.pieces[c] = bits]
              ELSE Data(d, c, h) : bits \in BitsRead(r, c)}

Prepared == {"MMAPPED", "BUFFERED"}

\* The next entry.  Nothing is read of the entry of a chunk that is excluded or
\* cannot be prepared.
loadNext(r, h) ==
    LET q == Took(r, HeaderSize)
        named == {c \in Chunks : indexOf(h) = Number(c)}
    IN  IF ~r.go THEN {r}
        ELSE IF named \ r.made = {} THEN {[q EXCEPT !.go = FALSE]}
        ELSE LET c == CHOOSE c \in named : TRUE
             IN  IF c \in excluded \/ r.status[c] # "NOT_DOWNLOADED" THEN {q}
                 ELSE UNION {load([q EXCEPT !.status[c] = s], c, h) : s \in Prepared}

\* ChunkManager::completed
completed ==
    /\ \E c \in Chunks : status[c] = "ON_DISK"
    /\ \A c \in Chunks \ excluded : status[c] = "ON_DISK"

\* What loadDownloads may come to
loaded ==
    LET f[n \in 0 .. file.num] ==
            IF n = 0 THEN {Reader}
            ELSE UNION {UNION {loadNext(r, h) : h \in HeadersRead(r)} : r \in f[n - 1]}
    IN  IF completed THEN {Reader} ELSE f[file.num]

---------------------------------------------------------------------------
(* Downloader::getDownloadedBytesOfCurrentChunksFile, which skips the data  *)
(* of every entry, in a file that is whole                                  *)

counted(bytes, n) ==
    LET f[k \in 0 .. n] ==
            IF k = 0 THEN [pos |-> 0, bytes |-> 0]
            ELSE LET r == f[k - 1]
                     h == SubSeq(bytes, r.pos + 1, r.pos + HeaderSize)
                     c == CHOOSE c \in Chunks : indexOf(h) = Number(c)
                     at == r.pos + HeaderSize + 1
                 IN  [pos |-> at + (IF bufferedOf(h) THEN ChunkSize[c] ELSE 0),
                      bytes |-> r.bytes + Bytes(c, Bits(bytes[at], num(c)))]
    IN  f[n].bytes

---------------------------------------------------------------------------
(* The actions *)

\* Downloader::downloadFrom: a new ChunkDownload
Select(c) ==
    /\ running /\ c \notin current_chunks \cup excluded
    /\ status[c] = "NOT_DOWNLOADED"
    /\ current_chunks' = current_chunks \cup {c}
    /\ \E s \in Prepared : status' = [status EXCEPT ![c] = s]
    /\ UNCHANGED <<running, pieces, excluded, file, saved, sessions>>

\* Downloader::pieceRecieved: the last piece ends the download, well or not
Piece(c, i) ==
    /\ running /\ c \in current_chunks /\ i \in Arriving[c] \ pieces[c]
    /\ IF pieces[c] \cup {i} = 0 .. num(c) - 1
       THEN /\ current_chunks' = current_chunks \ {c} /\ pieces' = [pieces EXCEPT ![c] = {}]
            /\ \E s \in {"ON_DISK", "NOT_DOWNLOADED"} : status' = [status EXCEPT ![c] = s]
       ELSE /\ pieces' = [pieces EXCEPT ![c] = @ \cup {i}]
            /\ UNCHANGED <<current_chunks, status>>
    /\ UNCHANGED <<running, excluded, file, saved, sessions>>

\* The file of c is deselected: Downloader::onExcluded, resetChunk
Exclude(c) ==
    /\ c \notin excluded
    /\ excluded' = excluded \cup {c}
    /\ current_chunks' = current_chunks \ {c}
    /\ pieces' = [pieces EXCEPT ![c] = {}]
    /\ status' = IF c \in current_chunks THEN [status EXCEPT ![c] = "NOT_DOWNLOADED"] ELSE status
    /\ UNCHANGED <<running, file, saved, sessions>>

Include(c) ==
    /\ c \in excluded /\ excluded' = excluded \ {c}
    /\ UNCHANGED <<running, current_chunks, pieces, status, file, saved, sessions>>

\* clearDownloads, and what the index file makes of the chunks when the program begins
NoPieces == [c \in Chunks |-> {}]
Cleared == [c \in Chunks |-> IF c \in current_chunks THEN "NOT_DOWNLOADED" ELSE status[c]]
Reloaded == [c \in Chunks |-> IF status[c] = "ON_DISK" THEN "ON_DISK" ELSE "NOT_DOWNLOADED"]

\* TorrentControl::stop: saveDownloads, of which a full disk keeps the beginning, and
\* clearDownloads
Stop ==
    /\ running /\ running' = FALSE
    /\ LET all == Entries
       IN  \E n \in {k \in 0 .. Len(all) : k % Block = 0} \cup {Len(all)} :
              file' = [num |-> Cardinality(current_chunks), bytes |-> SubSeq(all, 1, n)]
    /\ saved' = [c \in current_chunks |-> [pieces |-> pieces[c], size |-> Len(save(c))]]
    /\ status' = Cleared
    /\ current_chunks' = {} /\ pieces' = NoPieces
    /\ UNCHANGED <<excluded, sessions>>

\* The program begins anew; it may have ended without stopping the torrent
ProgramBegins ==
    /\ sessions < MaxSessions /\ sessions' = sessions + 1
    /\ running' = FALSE
    /\ status' = Reloaded
    /\ current_chunks' = {} /\ pieces' = NoPieces
    /\ UNCHANGED <<excluded, file, saved>>

\* A data check while the torrent is stopped finds a chunk
Found(c) ==
    /\ ~running /\ status[c] = "NOT_DOWNLOADED"
    /\ status' = [status EXCEPT ![c] = "ON_DISK"]
    /\ UNCHANGED <<running, current_chunks, pieces, excluded, file, saved, sessions>>

\* TorrentControl::continueStart: loadDownloads
Start ==
    /\ ~running /\ running' = TRUE
    /\ \E r \in loaded :
          current_chunks' = r.made /\ pieces' = r.pieces /\ status' = r.status
    /\ UNCHANGED <<excluded, file, saved, sessions>>

Init ==
    /\ running = FALSE
    /\ current_chunks = {}
    /\ pieces = NoPieces
    /\ status = [c \in Chunks |-> "NOT_DOWNLOADED"]
    /\ excluded = {}
    /\ file = [num |-> 0, bytes |-> <<>>]
    /\ saved = <<>>
    /\ sessions = 1

Next ==
    \/ Stop \/ ProgramBegins \/ Start
    \/ \E c \in Chunks : Select(c) \/ Exclude(c) \/ Include(c) \/ Found(c)
    \/ \E c \in Chunks : \E i \in Arriving[c] : Piece(c, i)

Spec == Init /\ [][Next]_vars

---------------------------------------------------------------------------
TypeOK ==
    /\ running \in BOOLEAN
    /\ current_chunks \subseteq Chunks /\ excluded \subseteq Chunks
    /\ \A c \in Chunks : pieces[c] \subseteq 0 .. num(c) - 1
    /\ status \in [Chunks -> Prepared \cup {"ON_DISK", "NOT_DOWNLOADED"}]
    /\ \A c \in current_chunks : status[c] \in Prepared /\ c \notin excluded
    /\ file.num \in 0 .. NumChunks /\ \A i \in DOMAIN file.bytes : file.bytes[i] \in 0 .. 255

\* The entry of c is in the file; it is not one that loadDownloads refuses
InFile(c) == MapThenSumSet(LAMBDA d : saved[d].size, {d \in DOMAIN saved : d <= c}) <= Len(file.bytes)
Accepted(c) == c \notin excluded /\ status[c] = "NOT_DOWNLOADED"
Returns(c) == c \in current_chunks' /\ pieces'[c] = saved[c].pieces

\* Whatever the chunks are saved from and loaded to, mapped memory or a buffer, and
\* wherever a full disk cuts the file: a partial download whose entry was written, and in
\* front of which nothing was refused, comes back with the pieces it had.  If that is true
\* of all of them, nothing else is made, no chunk is left prepared without a download, and
\* the bytes are those that were counted when the program began.
PartialDownloadsReturn ==
    [][Start /\ ~completed =>
          /\ \A c \in DOMAIN saved :
                (\A d \in DOMAIN saved : d <= c => InFile(d) /\ Accepted(d)) => Returns(c)
          /\ (\A c \in DOMAIN saved : InFile(c) /\ Accepted(c)) =>
                /\ current_chunks' = DOMAIN saved
                /\ \A c \in Chunks \ DOMAIN saved : status'[c] = status[c]
                /\ MapThenSumSet(LAMBDA c : Bytes(c, pieces'[c]), current_chunks')
                       = counted(file.bytes, file.num)]_vars

\* loadDownloads is to "Load all partial downloads" (downloader.cpp:505): with the whole
\* file there, every one comes back that is not refused itself.
AllPartialsReturn ==
    [][Start /\ ~completed /\ (\A c \in DOMAIN saved : InFile(c)) =>
          \A c \in DOMAIN saved : Accepted(c) => Returns(c)]_vars
=============================================================================
