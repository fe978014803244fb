----------------------------- MODULE MCTorrents -----------------------------
(***************************************************************************)
(* The torrents of a program, seen from three sides that do not meet in    *)
(* these properties: the packets one peer is sent, the queue that starts   *)
(* and stops torrents, and the file that keeps the chunks in progress of a *)
(* torrent that was stopped.  A behaviour is about one of them.            *)
(***************************************************************************)
EXTENDS PacketWriter, TLC

CONSTANTS
    Parts,          \* what the behaviours of a run are about
    a1, a2, a3, a4, r1, r2,
    ta, tb, tc

MCAddr == {a1, a2, a3, a4}
MCRequests == {r1, r2}
MCLength == [r \in MCRequests |-> 2]
\* the payload of r1 happens to start with the length of r1, that of r2 does not
MCFirstWord == (r1 :> 2) @@ (r2 :> 7)

\* Addresses are alike; that three of them may change places makes the run small enough
AddrSymmetry == Permutations(MCAddr \ {a4})

---------------------------------------------------------------------------
VARIABLES
    part,
    q, trouble, options, events

\* Two downloads and a seed in the queue, a queued torrent next to two of the
\* user, and a short queue in which more happens
MCSessions ==
    {[list |-> <<ta, tb, tc>>, completed |-> {tc}, queue |-> <<tc, tb, ta>>,
      max_downloads |-> 1, max_seeds |-> 0, events |-> 2],
     [list |-> <<ta, tb, tc>>, completed |-> {}, queue |-> <<tc>>,
      max_downloads |-> 0, max_seeds |-> 0, events |-> 2],
     [list |-> <<ta, tb>>, completed |-> {}, queue |-> <<tb, ta>>,
      max_downloads |-> 1, max_seeds |-> 1, events |-> 3]}

\* Seeding goes on, after a move, with space allocated first; or it ends
MCSettings ==
    {[keep_seeding |-> s, useCompletedDir |-> s, diskPrealloc |-> s, ignore_ratio |-> ~s] :
        s \in BOOLEAN}

Queue == INSTANCE QueueManager WITH
    Torrents <- {ta, tb, tc}, Limits <- {0, 1}, Sessions <- MCSessions,
    Settings <- MCSettings, Troubles <- {"io", "missing", "space"}, MaxPriority <- 4

ASSUME Queue!QueueConstants

---------------------------------------------------------------------------
VARIABLES
    running, current_chunks, pieces, status, excluded, file, saved, sessions

\* Eight pieces and one.  The data of chunk 0 look like the header and the bits of chunk 1.
MCChunkSize == 0 :> 15 @@ 1 :> 2
MCArriving == 0 :> {7} @@ 1 :> {0}
MCContent == 0 :> <<0, 0, 0, 1, 0, 0, 0, 0, 0, 0, 0, 128, 0, 0, 0>> @@ 1 :> <<1, 0>>

Partials == INSTANCE CurrentChunks WITH
    NumChunks <- 2, ChunkSize <- MCChunkSize, MaxPieceLen <- 2,
    Arriving <- MCArriving, Content <- MCContent,
    Block <- 5, MaxSessions <- 2

ASSUME Partials!CurrentChunksConstants

---------------------------------------------------------------------------
queueVars == <<q, trouble, options, events>>
partialVars == <<running, current_chunks, pieces, status, excluded, file, saved, sessions>>
allVars == <<part, vars, queueVars, partialVars>>

MCInit ==
    /\ part \in Parts
    /\ Init /\ Queue!Init /\ Partials!Init
    /\ part # "queue" => events = 3 /\ options.keep_seeding     \* it is not seen

MCNext ==
    \/ part = "peer" /\ Next /\ UNCHANGED <<part, queueVars, partialVars>>
    \/ part = "queue" /\ Queue!Next /\ UNCHANGED <<part, vars, partialVars>>
    \/ part = "partials" /\ Partials!Next /\ UNCHANGED <<part, vars, queueVars>>
    \/ part # "peer" /\ UNCHANGED allVars   \* the bounds of the others may be reached

MCSpec == MCInit /\ [][MCNext]_allVars

---------------------------------------------------------------------------
\* Whenever the queue was ordered the limits are kept and no slot is idle without a
\* reason (QueueManager::orderQueue)
QueueSettles == part = "queue" => Queue!QueueSettles

\* What a pause stopped runs again when it ends, or waits in the queue behind what
\* fills the slots (KTorrentCore::setPausedState)
PausedTorrentsResume == Queue!PausedTorrentsResume

\* Partial downloads come back as they were saved (Downloader::loadDownloads)
PartialDownloadsReturn == Partials!PartialDownloadsReturn

\* "Load all partial downloads" (downloader.cpp:505): also those behind an entry that
\* is refused
AllPartialsReturn == Partials!AllPartialsReturn
=============================================================================
