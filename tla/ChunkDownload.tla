---------------------------- MODULE ChunkDownload ----------------------------
(***************************************************************************)
(* Downloading the last missing chunk of a torrent from several peers:     *)
(* bt::ChunkDownload (the pieces that arrived, what was asked of whom),    *)
(* one bt::PeerDownloader per peer (reqs on the wire, wait_queue behind    *)
(* them) and the parts of bt::Downloader that assign peers, receive pieces *)
(* and judge the finished chunk.  All of it runs on the main thread, one   *)
(* handler per step; the peers answer, reject, choke, forget and vanish in *)
(* any order.  With a single chunk left every unchoked peer is assigned to *)
(* it, which is the endgame the code cancels its duplicate requests for.   *)
(*                                                                         *)
(* piece_queue is rotated at every request, so the order in which missing  *)
(* pieces are asked for is left open; it always holds the missing pieces.  *)
(***************************************************************************)
EXTENDS Integers, Sequences, FiniteSets, SequencesExt

CONSTANTS
    Peers,          \* connections: a peer that comes back is another one
    FastPeers,      \* those with stats.fast_extensions
    BadPeers,       \* those whose data does not match the hash
    Pieces,         \* the pieces of the chunk
    MaxReqs,        \* max_reqs of PeerDownloader::update, at a steady rate
    MaxWait,        \* max_wait_queue_size at that rate
    MaxSessions     \* how often the torrent may be started

ASSUME PeersAssumption == FastPeers \subseteq Peers /\ BadPeers \subseteq Peers
ASSUME LimitsAssumption ==
    MaxReqs \in Nat \ {0} /\ MaxWait \in Nat \ {0} /\ MaxSessions \in Nat

NoPeer == "NoPeer"
ASSUME NoPeerAssumption == NoPeer \notin Peers

VARIABLES
    chunk,      \* "none": no ChunkDownload; "active": there is one; "done"
    pieces,     \* ChunkDownload::pieces
    pdown,      \* ChunkDownload::pdown
    piece_providers,
    pd,         \* each PeerDownloader, its DownloadStatus and its peer's view
    peer,       \* "new", "connected" or "gone"
    choked,     \* peers that choke us
    rerun,      \* the handler of a finished chunk has Downloader::update to do
    session,
    source,     \* history: who sent the bytes each piece now holds, if anybody did
    blamed      \* history: peers finished() killed for bad data

vars == <<chunk, pieces, pdown, piece_providers, pd, peer, choked, rerun, session,
          source, blamed>>

-----------------------------------------------------------------------------
(* PeerDownloader *)

\* ds: the DownloadStatus of this peer; remote: the requests it may still answer
NewPD == [reqs |-> <<>>, wait |-> <<>>, ds |-> {}, remote |-> {}, grabbed |-> 0]

\* TQValueList::remove takes out every item equal to i
Without(s, i) ==
    LET upTo[n \in 0..Len(s)] == IF n = 0 THEN <<>>
                                 ELSE IF s[n] = i THEN upTo[n - 1]
                                 ELSE Append(upTo[n - 1], s[n])
    IN upTo[Len(s)]

Least(a, b) == IF a <= b THEN a ELSE b

\* PeerDownloader::update: wait_queue moves up while fewer than max_reqs are out
UpdatePD(d) ==
    LET n == Least(Len(d.wait), MaxReqs - Len(d.reqs))
        moved == SubSeq(d.wait, 1, n)
    IN [d EXCEPT !.reqs = @ \o moved,
                 !.wait = SubSeq(@, n + 1, Len(@)),
                 !.remote = @ \cup Range(moved)]

canAddRequest(d) == Len(d.wait) < MaxWait

\* the answer i is no longer waited for: in piece() and cancel() the wait_queue
\* comes first and reqs only if the request is not there
Forget(d, i) ==
    IF i \in Range(d.wait) THEN [d EXCEPT !.wait = Without(@, i)]
    ELSE [d EXCEPT !.reqs = Without(@, i)]

-----------------------------------------------------------------------------
(* ChunkDownload *)

Missing(have) == Pieces \ have

Orders == {s \in UNION {[1..n -> Pieces] : n \in 0..Cardinality(Pieces)} :
             \A i, j \in DOMAIN s : s[i] = s[j] => i = j}

\* how many requests the loop of sendRequests can hand to download() before
\* canAddRequest fails, each of them moved on by PeerDownloader::update
Capacity(d) ==
    IF canAddRequest(d) THEN (MaxReqs - Len(d.reqs)) + (MaxWait - Len(d.wait)) ELSE 0

Wanted(d, have) == Missing(have) \ d.ds

RequestOrders(d, have) ==
    {s \in Orders : /\ Range(s) \subseteq Wanted(d, have)
                    /\ Len(s) = Least(Cardinality(Wanted(d, have)), Capacity(d))}

sendRequests(d, s) ==
    IF s = <<>> THEN d
    ELSE UpdatePD([d EXCEPT !.wait = @ \o s, !.ds = @ \cup Range(s)])

\* what sendRequests for each peer of "to" that does not choke us can leave; d,
\* have: the state the handler has reached
AskAll(d, have, to) ==
    LET results(e) == [p \in Peers |-> IF p \in to \ choked'
                                       THEN {sendRequests(e[p], s) : s \in RequestOrders(e[p], have)}
                                       ELSE {e[p]}]
    IN UNION {{f \in [Peers -> UNION Range(r)] : \A p \in Peers : f[p] \in r[p]} :
                 r \in {results(e) : e \in {d}}}

\* releaseAllPDs: the PeerDownloaders keep their requests
Released(d) == [p \in Peers |-> IF p \in pdown
                                THEN [d[p] EXCEPT !.ds = {}, !.grabbed = IF @ > 0 THEN @ - 1 ELSE 0]
                                ELSE d[p]]

\* endgameCancel, which piece() calls only when several peers are assigned
EndgameCancelled(d, i) ==
    IF Cardinality(pdown) > 1
    THEN [q \in Peers |-> IF q \in pdown /\ i \in d[q].ds
                          THEN [Forget(d[q], i) EXCEPT !.ds = @ \ {i}]
                          ELSE d[q]]
    ELSE d

-----------------------------------------------------------------------------
(* Peers come, choke, answer and go *)

\* nothing else happens before the handler of a finished chunk returns
Running == ~rerun

Connect(p) ==
    /\ Running /\ peer[p] = "new"
    /\ peer' = [peer EXCEPT ![p] = "connected"]
    /\ choked' = choked \cup {p}
    /\ UNCHANGED <<chunk, pieces, pdown, piece_providers, pd, rerun, session, source, blamed>>

Unchoke(p) ==
    /\ Running /\ peer[p] = "connected" /\ p \in choked
    /\ choked' = choked \ {p}
    /\ UNCHANGED <<chunk, pieces, pdown, piece_providers, pd, peer, rerun, session,
                   source, blamed>>

\* mutant: the queues are cleared but rejected() is not emitted
ChokeKeepsMarks(p) ==
    /\ Running /\ peer[p] = "connected" /\ p \notin choked
    /\ choked' = choked \cup {p}
    /\ pd' = IF p \in FastPeers THEN pd ELSE [pd EXCEPT ![p].reqs = <<>>, ![p].wait = <<>>]
    /\ UNCHANGED <<chunk, pieces, pdown, piece_providers, peer, rerun, session,
                   source, blamed>>

\* Peer::packetReady, case CHOKE: PeerDownloader::choked.  Each rejected
\* request reaches notDownloaded, which lets the other peers ask for it.
Choke(p) ==
    LET dropped == Range(pd[p].reqs) \cup Range(pd[p].wait)
        d == [pd EXCEPT ![p].reqs = <<>>, ![p].wait = <<>>, ![p].ds = @ \ dropped]
    IN /\ Running /\ peer[p] = "connected" /\ p \notin choked
       /\ choked' = choked \cup {p}
       /\ IF p \in FastPeers THEN pd' = pd
          ELSE IF p \in pdown /\ dropped # {} THEN pd' \in AskAll(d, pieces, pdown)
          ELSE pd' = d
       /\ UNCHANGED <<chunk, pieces, pdown, piece_providers, peer, rerun, session,
                      source, blamed>>

\* PeerDownloader::onRejected and ChunkDownload::notDownloaded
Reject(p, i) ==
    LET d == [pd EXCEPT ![p].remote = @ \ {i}]
        e == [d EXCEPT ![p].reqs = Without(@, i)]
    IN /\ Running /\ peer[p] = "connected" /\ p \in FastPeers /\ i \in pd[p].remote
       /\ UNCHANGED choked
       /\ IF i \notin Range(pd[p].reqs) THEN pd' = d
          ELSE IF p \in pdown
          THEN pd' \in AskAll([e EXCEPT ![p].ds = @ \ {i}], pieces, pdown)
          ELSE pd' = e
       /\ UNCHANGED <<chunk, pieces, pdown, piece_providers, peer, rerun, session,
                      source, blamed>>

\* the remote peer forgets a request without a word: it has no fast extensions,
\* or the request was cancelled
Drop(p, i) ==
    /\ Running /\ peer[p] = "connected" /\ i \in pd[p].remote
    /\ p \in FastPeers => i \notin Range(pd[p].reqs)
    /\ pd' = [pd EXCEPT ![p].remote = @ \ {i}]
    /\ UNCHANGED <<chunk, pieces, pdown, piece_providers, peer, choked, rerun, session,
                   source, blamed>>

\* PeerManager::update deletes a killed peer: Downloader::onPeerKilled
PeerKilled(p) ==
    /\ Running /\ peer[p] = "connected"
    /\ peer' = [peer EXCEPT ![p] = "gone"]
    /\ pdown' = pdown \ {p}
    /\ pd' = [pd EXCEPT ![p] = NewPD]
    /\ choked' = choked \ {p}
    /\ UNCHANGED <<chunk, pieces, piece_providers, rerun, session, source, blamed>>

-----------------------------------------------------------------------------
(* Downloader::pieceRecieved *)

\* what PeerDownloader::piece does before and after it emits downloaded(p)
Answered(d, i) == [Forget(d, i) EXCEPT !.remote = @ \ {i}]
Received(p, i) == [pd EXCEPT ![p] = Answered(@, i)]

\* a piece nobody waits for: there is no ChunkDownload or it has the piece
UnneededPiece(p, i) ==
    /\ Running /\ peer[p] = "connected" /\ i \in pd[p].remote
    /\ chunk # "active" \/ i \in pieces
    /\ pd' = [Received(p, i) EXCEPT ![p] = UpdatePD(@)]
    /\ UNCHANGED <<chunk, pieces, pdown, piece_providers, peer, choked, rerun, session,
                   source, blamed>>

\* ChunkDownload::piece up to the point where it asks for more
Stored(p, i) ==
    EndgameCancelled([Received(p, i) EXCEPT ![p].ds = @ \ {i}], i)

NewPiece(p, i) ==
    /\ Running /\ peer[p] = "connected" /\ i \in pd[p].remote
    /\ chunk = "active" /\ i \notin pieces
    /\ pieces' = pieces \cup {i}
    /\ source' = [source EXCEPT ![i] = p]
    /\ piece_providers' = piece_providers \cup {p}

PieceStored(p, i) ==
    /\ NewPiece(p, i) /\ pieces' # Pieces
    /\ UNCHANGED choked
    /\ \E d \in AskAll(Stored(p, i), pieces', pdown) : pd' = [d EXCEPT ![p] = UpdatePD(@)]
    /\ UNCHANGED <<chunk, pdown, peer, rerun, session, blamed>>

\* the last piece: releaseAllPDs, then Downloader::finished
HashOK(from) == \A i \in Pieces : from[i] \notin BadPeers \cup {NoPeer}

Finished(p, i) ==
    /\ NewPiece(p, i) /\ pieces' = Pieces
    /\ pd' = [Released(Stored(p, i)) EXCEPT ![p] = UpdatePD(@)]
    /\ pdown' = {}
    /\ UNCHANGED <<peer, choked, session>>

ChunkFinished(p, i) ==
    /\ Finished(p, i) /\ HashOK(source')
    /\ chunk' = "done"
    /\ UNCHANGED <<rerun, blamed>>

\* mutant: everybody who sent a piece is blamed
EveryDownloader(providers) == providers

\* getOnlyDownloader: the chunk came from a single peer, who is killed
OnlyDownloader(providers) == {q \in providers : providers = {q}}

ChunkFailed(p, i) ==
    /\ Running /\ peer[p] = "connected" /\ i \in pd[p].remote
    /\ chunk = "active" /\ i \notin pieces /\ pieces \cup {i} = Pieces
    /\ ~HashOK([source EXCEPT ![i] = p])
    /\ chunk' = "none"
    /\ pieces' = {}
    /\ source' = [j \in Pieces |-> NoPeer]
    /\ blamed' = blamed \cup OnlyDownloader(piece_providers \cup {p})
    /\ piece_providers' = {}
    /\ pd' = [Released(Stored(p, i)) EXCEPT ![p] = UpdatePD(@)]
    /\ pdown' = {}
    /\ rerun' = TRUE
    /\ UNCHANGED <<peer, choked, session>>

-----------------------------------------------------------------------------
(* Downloader::update *)

AllChoked == pdown # {} /\ pdown \subseteq choked

Assignable(d, down) ==
    {p \in Peers \ (choked \cup down) : peer[p] = "connected" /\ canAddRequest(d[p])
                                        /\ d[p].grabbed = 0}

NotRetransmitted(d, n) == d  \* mutant: a timed out request is not sent again

\* checkTimeouts: the n oldest requests are cancelled, sent again and appended
Retransmitted(d, n) ==
    LET old == SubSeq(d.reqs, 1, n)
    IN [d EXCEPT !.reqs = SubSeq(@, n + 1, Len(@)) \o old, !.remote = @ \cup Range(old)]

UpdateWith(n) ==
    LET rel == IF AllChoked THEN Released(pd) ELSE pd
        down == IF AllChoked THEN {} ELSE pdown
        add == Assignable(rel, down)
        grab == [p \in Peers |-> IF p \in add THEN [rel[p] EXCEPT !.grabbed = @ + 1] ELSE rel[p]]
    IN /\ chunk # "done"
       /\ rerun' = FALSE
       /\ chunk' = IF add # {} THEN "active" ELSE chunk
       /\ pdown' = down \cup add
       /\ UNCHANGED choked
       \* needsToBeUpdated: a ChunkDownload quiet for 60 s asks everyone again
       /\ \E again \in {{}, down} :
          \E d \in AskAll(grab, pieces, again \cup add) :
             pd' = [p \in Peers |-> Retransmitted(d[p], Least(n[p], Len(pd[p].reqs)))]
       /\ UNCHANGED <<pieces, piece_providers, peer, session, source, blamed>>

\* n: how many of its oldest requests have timed out, for each peer
Update ==
    \E n \in [Peers -> 0..MaxReqs] :
        (\A p \in Peers : n[p] <= Len(pd[p].reqs)) /\ UpdateWith(n)

-----------------------------------------------------------------------------
(* Sessions: saveDownloads and clearDownloads at stop, loadDownloads at start *)

\* What loadDownloads makes of the current_chunks file: a download of the chunk with the
\* pieces that were saved, or none, or, misread, one with others, which hold anything.  The
\* file and its reader are in CurrentChunks.  A chunk that load() leaves prepared without a
\* download, or that is misread as complete, is out of use until the program begins anew;
\* that is left out here.
loadDownloads ==
    /\ IF chunk = "active"
       THEN \/ chunk' = "active" /\ pieces' \in (SUBSET Pieces) \ {Pieces}
            \/ chunk' = "none" /\ pieces' = {}
       ELSE UNCHANGED <<chunk, pieces>>
    /\ source' = [i \in Pieces |-> IF i \in pieces \cap pieces' THEN source[i] ELSE NoPeer]

\* Every peer is closed; piece_providers is not saved
Restart ==
    /\ Running /\ session < MaxSessions
    /\ session' = session + 1
    /\ peer' = [p \in Peers |-> IF peer[p] = "connected" THEN "gone" ELSE peer[p]]
    /\ pd' = [p \in Peers |-> NewPD]
    /\ pdown' = {}
    /\ choked' = {}
    /\ piece_providers' = {}
    /\ loadDownloads
    /\ UNCHANGED <<rerun, blamed>>

-----------------------------------------------------------------------------
Init ==
    /\ chunk = "none"
    /\ pieces = {} /\ pdown = {} /\ piece_providers = {}
    /\ pd = [p \in Peers |-> NewPD]
    /\ peer = [p \in Peers |-> "new"]
    /\ choked = {}
    /\ rerun = FALSE
    /\ session = 1
    /\ source = [i \in Pieces |-> NoPeer]
    /\ blamed = {}

pieceRecieved(p, i) ==
    UnneededPiece(p, i) \/ PieceStored(p, i) \/ ChunkFinished(p, i) \/ ChunkFailed(p, i)

Next ==
    \/ \E p \in Peers : Connect(p) \/ Unchoke(p) \/ Choke(p) \/ PeerKilled(p)
    \/ \E p \in Peers, i \in Pieces : pieceRecieved(p, i) \/ Reject(p, i) \/ Drop(p, i)
    \/ Update \/ Restart

Spec == Init /\ [][Next]_vars

\* The 250 ms timer of the core runs Downloader::update for ever, every request
\* that gets no answer times out, and an honest peer that is asked for a piece
\* again and again while it serves us sends it.
Fairness ==
    /\ WF_vars(UpdateWith([p \in Peers |-> MaxReqs]))
    /\ \A p \in Peers \ BadPeers, i \in Pieces : SF_vars(pieceRecieved(p, i))

FairSpec == Spec /\ Fairness

-----------------------------------------------------------------------------
(* Properties *)

PDs == [reqs : Seq(Pieces), wait : Seq(Pieces), ds : SUBSET Pieces,
        remote : SUBSET Pieces, grabbed : Nat]

\* Every variable has its type.
TypeOK ==
    /\ chunk \in {"none", "active", "done"}
    /\ pieces \subseteq Pieces
    /\ pdown \subseteq Peers /\ piece_providers \subseteq Peers
    /\ pd \in [Peers -> PDs]
    /\ peer \in [Peers -> {"new", "connected", "gone"}]
    /\ choked \subseteq Peers
    /\ rerun \in BOOLEAN
    /\ session \in Nat
    /\ source \in [Pieces -> Peers \cup {NoPeer}]
    /\ blamed \subseteq Peers

\* Every request is on the books: a missing piece marked as asked of a
\* peer is in that peer's queues (a mark without a request would keep sendRequests
\* from ever asking for it again), and the queues stay within max_reqs and
\* max_wait_queue_size, whatever is rejected, timed out, choked and asked for again.
RequestsAreAccounted ==
    /\ TypeOK
    /\ \A p \in pdown : \A i \in pd[p].ds \ pieces :
          i \in Range(pd[p].reqs) \cup Range(pd[p].wait)
    /\ \A p \in Peers : Len(pd[p].reqs) <= MaxReqs /\ Len(pd[p].wait) <= MaxWait

\* getOnlyDownloader "checks if all pieces are delivered by the same peer"
\* (chunkdownload.h:147-148): a peer killed for bad data sent bad data.  Only in
\* the first session: load() restores pieces without their providers.
OnlyBadPeersBlamed == session = 1 => blamed \subseteq BadPeers

\* Requests wait behind nothing: none is on the wire whose answer would call
\* PeerDownloader::update and move wait_queue up.
Serves(p) == peer[p] = "connected" /\ p \notin choked
Stranded(p) == pd[p].wait # <<>> /\ pd[p].reqs = <<>>

\* If some honest peer serves us from some point on, its wait_queue is not left
\* stranded and the bad peers are gone, the chunk is finished: no choke, reject,
\* timeout, silent drop, disconnect or bad chunk leaves a piece that nobody asks for.
ChunkCompletes ==
    \A p \in Peers \ BadPeers :
        <>[](Serves(p) /\ ~Stranded(p) /\ \A q \in BadPeers : peer[q] = "gone")
            => <>(chunk = "done")
=============================================================================
