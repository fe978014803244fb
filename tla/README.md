# TLA+ specifications of ktorrent and its core (libktorrent)

ktorrent is a BitTorrent client. Its core, `src/libktorrent`, downloads the chunks of a
torrent from many peers at once, verifies and stores them, uploads them to other peers,
and decides which torrents run and whom they ask for peers. These specifications model
that core: what the main thread and the two network threads do to shared state, what
peers, trackers, kernel and disk may do in between, and what must hold of it. TLC checks
each module on small instances. For every instance TLAPS proves the safety properties of
nine of them (peer connections, downloads, storage of chunks, selection of files, network
threads, buffered sockets, rate limits, trackers and the peer manager), and that the trackers implement an abstract specification.

Line references are to `src/libktorrent/`, for plugins to `src/plugins/`. Names follow the code, its spelling included
(`pieceRecieved`, `wait_queue`, `curr_packet`).

## Contents

1. The system and its components
2. Threads and scheduling
3. Modules: state, actions and code
4. Runs: what is checked, bounds and results
5. Fairness
6. Where the code deviates from what one would expect
7. Theorems
8. What is only model-checked, and what is not modelled
9. Plan

## 1. The system and its components

| Component | State | Operations | Talks to |
|---|---|---|---|
| Packet writer (`torrent/packetwriter`, `packet`, `peeruploader`) | control and data packet lists, `curr_packet`, `ctrl_packets_sent`; the peer's pending requests; `am_choked` | queue a packet, select and write the next one, withdraw pieces on choke and cancel, turn requests into pieces or rejects | filled by the main thread, emptied by the upload thread |
| Packet reader (`torrent/packetreader`) | queue of packets, partial length field, error flag | cut the byte stream into packets, hand complete ones over | filled by the download thread, emptied by `Peer::update` |
| Peer (`torrent/peer`) | choke, interest, bitfield and statistics of one connection | dispatch of received packets, choke, kill, update | owns reader, writer, uploader, `PeerDownloader` |
| Chunk download (`torrent/chunkdownload`, `peerdownloader`) | received pieces, who was asked for what, providers; per peer `reqs` and `wait_queue` | assign and release peers, send requests, receive, reject, time out, cancel duplicates, save and load | `Downloader`, packet writer |
| Downloader (`torrent/downloader`) | `current_chunks`, and the file of that name | choose chunks for peers, store pieces, judge finished chunks, save and load partial ones | chunk manager, selector, peer manager |
| Chunk manager (`torrent/chunkmanager`, `chunk`) | chunk states, bitset, `loaded`, index file, priorities, cached counts | prepare, save, reset, grab and free chunks, data check, exclude, include and prioritise | cache, downloader, uploaders, files |
| Chunk selector (`torrent/chunkselector`) | list of chunks to choose from | select, reinsert, prune | downloader |
| Caches (`torrent/singlefilecache`, `multifilecache`, `cachefile`, `dndfile`) | mappings and buffers of chunks, output files, files of what is kept of deselected ones | prep, load, save, change a file between both kinds | chunk manager, files |
| Buffered socket (`net/bufferedsocket`, `socket`) | output buffer, two counters | write with a limit, refill, read with a limit | kernel, packet reader and writer |
| Socket monitor and threads (`net/socketmonitor`, `networkthread`, `uploadthread`, `downloadthread`) | list of sockets, mutex, `running`, wait condition | add and remove sockets, start and stop threads, poll, sleep, wake | every socket |
| Socket groups (`net/socketgroup`, `speed`) | sockets ready in this update, allowance | share a rate limit among groups and sockets | network threads |
| Encrypted stream (`mse/streamsocket`, `rc4encryptor`) | ciphers, reinserted bytes | start monitoring, encrypt, decrypt | socket monitor, reader, writer |
| Handshakes (`torrent/authenticate*`, `serverauthenticate`, `mse/encrypted*`) | bytes received so far, phase, timer | partial reads, time out, accept or refuse | peer manager, server |
| Peer manager (`torrent/peermanager`) | connected, pending, killed and potential peers; global connection count; chunk counters | connect, accept, kill, stop, save and load | handshakes, server, choker |
| Choker (`torrent/choker`, `advancedchokealgorithm`) | unchoke slots, optimistic peer | rank peers, choke and unchoke | peers |
| Queue manager (`torrent/queuemanager`) | torrents, priorities, limits, paused state | order, start, stop, pause | torrent control, core, dialogs |
| Torrent control (`torrent/torrentcontrol`) | status of a torrent, stats file | start, stop, check data, preallocate, move files | everything above |
| Trackers (`torrent/peersourcemanager`, `udptracker`, `httptracker`, `udptrackersocket`) | event, transaction and connection ids, timers, jobs, current tracker | announce, retry, switch | peer manager |
| DHT (`kademlia/`) | calls by transaction id, call queue, buckets, tasks, tokens | call, time out, ping and replace, look up, announce | UDP socket, peer manager |
| Port forwarding (`plugins/upnp/`, `net/portlist`) | routers, the default device, forwardings and their requests, ports in use | discover, forward, undo, unload | routers, server, DHT |
| RSS feeds (`plugins/rssfeed/`) | feeds and their articles, filters and their matches, a file per feed, lists of feeds and filters, downloads under way | refresh, scan, match, download over several pages, save and load | core, web servers |
| Data checkers, preallocation, peer exchange, bencoding, utilities, other plugins, applications | see `PROJECT.json` | | |

What makes each part correct, and what is hard about it:

* **Packet writer.** Two threads share lists of heap packets through raw pointers; the
  writer must free what it sent and nothing else, must not mix two half-sent packets, and
  must not send pieces to a choked peer. The handlers of choke and cancel take and release
  the mutex several times.
* **Chunk download.** Every answer can be late, missing, doubled or unwanted; a mark that a
  piece was asked for must never outlive the request, or nobody asks again.
* **Partial downloads.** A file that is written when a torrent stops is read when the torrent
  or the program has changed meanwhile, entry by entry, each of a length of its own.
* **Chunk store.** Five places hold the state of a chunk (status, bitset, `loaded`,
  `current_chunks`, index file), plus files that outlive the program.
* **File selection.** Files share chunks, so that deselecting one must neither lose nor
  keep too much of its neighbours; four derived sets, a cached count and two kinds of
  files on the disk have to follow.
* **Network threads.** Starting, stopping, sleeping and waking without losing a wake-up, a
  thread or the lock; sharing an allowance without spinning or exceeding it.
* **Sockets and streams.** Partial sends and reads at every byte.
* **Peers and handshakes.** Counts over handshakes that end in many ways, some of them
  inside the call that began them, some after the torrent was stopped.
* **Queue.** Stopping a torrent emits a signal whose slot orders the queue, which stops and
  starts torrents inside the loop that stopped the first.
* **Trackers and DHT.** Retries against late answers, timers that are only sometimes
  started, and calls recognised by a small number that is soon used again.
* **Port forwarding.** Requests to routers that may be answered in any order, late or not at
  all, for objects that are replaced or deleted meanwhile; an exit that waits for the last of
  them.
* **RSS feeds.** What was matched must be downloaded once, over feeds that repeat articles,
  downloads that fail or are cut off, filters that are changed or deleted while a download
  holds their address, and files that are written at different times.

`PROJECT.json` lists these hazards at the lines where they bite, with the properties that
would show them going wrong.

## 2. Threads and scheduling

There are three threads. The **main thread** runs handlers to completion: timers
(`Downloader::update`, `Peer::update`, `PeerManager::update` every 250 ms), signals and
the user's commands. The **upload** and the **download thread** loop over `update()` with
the mutex of the `SocketMonitor` held. They meet the main thread in four places: the
monitor's list (its mutex), the packet lists (`PacketWriter::mutex`), the packet queue
(`PacketReader::mutex`), and the wait condition of the upload thread.

Modules of code that runs on the main thread only take one handler per step. Where a
second thread can see the state between two parts of a handler (each critical section of
choke and cancel; `add()` between the two `start()`s; `startMonitoring` between `add` and
the reinserted bytes) every part is a step of its own.

Handlers of the main thread call each other through signals, and a slot may run inside the
loop that emitted its signal. `QueueManager`, `Trackers`, `PeerManager` and `DHT` therefore
write every call as an operator from the state to the next state, and an action applies
them in the order of the code: `onTrackerError(v)` is what the slot does to `v`, wherever
it is called from.

## 3. Modules: state, actions and code

### PacketWriter — `packetwriter.cpp`, `packet.cpp`, `peeruploader.cpp`, parts of `peer.cpp`

The sending half of one connection. `heap` maps addresses to packets (or `Free`), so that
use after delete and double delete are visible; `control_packets`, `data_packets`,
`curr_packet` and `ctrl_packets_sent` are the members of the same names; `requests` and
`am_choked` belong to the uploader and the peer; `mutex`, `main.pc` and `upload.pc` give
the position of each thread. `told_choked` (what the peer has been told so far) and
`bypassed` (control packets that overtook a waiting piece) are history.

* Upload thread: `EnterOnReadyToWrite`, `FinishPacket`, `PutPartOfPacket` and
  `LeaveOnReadyToWrite` are `onReadyToWrite`, one packet per step, with `selectPacket`.
* Main thread: `OnRequest`, `OnRequestWhileChoked`, `OnCancel`, `SendOther`,
  `sendUnchoke`; `choke` and then `EnterClearPieces`, `clearPieces`, `RejectRequest`,
  `ClearRequests`; `removeRequest`, `EnterDoNotSendPiece`, `doNotSendPiece`;
  `EnterUpdate`, `Satisfy`, `Refuse`, `LeaveUpdate` for `PeerUploader::update`.

A packet is its type, the request it answers and how much of it is written; payloads are
reduced to the word `isPiece` compares (`FirstWord`).

Invariants: `CurrPacketIsFront`, `ListsOwnPackets`, `PartiallySentIsCurrent`, `ChokeIsKept`,
`BoundedBypass`; action property: `RequestsAreAnswered`. The announcements of choke and
unchoke that wait are positions of the control list (`Announcements`); a request that waits
for its answer is a position of `requests` that `clearAllRequests` has not passed yet
(`Unanswered`), or a packet (`Answers`).

### ChunkDownload — `chunkdownload.cpp`, `peerdownloader.cpp`, parts of `downloader.cpp`

The last missing chunk, downloaded from several peers: the endgame, where all of them are
assigned to it. Per peer: `reqs`, `wait`, `ds` (the `DownloadStatus`), `remote` (requests
the remote side may still answer) and `grabbed`. Actions: `Connect`, `Unchoke`, `Choke`,
`Reject`, `Drop` (the remote side forgets a request silently), `PeerKilled`;
`pieceRecieved` as `UnneededPiece`, `PieceStored`, `ChunkFinished` or `ChunkFailed`;
`Update` (release when all choke, assign, ask again, time out); `Restart`, a new
session, in which `loadDownloads` brings the chunk back with the pieces that were saved, with
none, or, misread, with others (how the file is read is the subject of `CurrentChunks`). `piece_queue` is rotated by every request; its order is left open. The limits of
both queues depend on the measured rate in the code; here they are constants.
`Answered` is what `PeerDownloader::piece` does to the queues around `downloaded`.

### CurrentChunks — parts of `downloader.cpp`, `chunkdownload.cpp`

The file that keeps the chunks in progress, byte by byte, because it matters where a reader
is. `save` writes an entry: a header of three numbers, the bits of the pieces, and the data of
a buffered chunk. `loadDownloads` (`loaded`) takes header by header and goes through
`loadNext` and `load`; what a read past the end of the file leaves unset may be anything.
`counted` is `getDownloadedBytesOfCurrentChunksFile`, the second reader, which skips what the
first does not. Actions: `Select`, `Piece`, `Exclude`, `Include`; `Stop` (save and clear; a
full disk keeps the beginning, in whole blocks), `Found` (a data check of a stopped torrent),
`Start`, and `ProgramBegins`, which need not follow a `Stop`. A chunk is mapped or buffered,
one or the other before and after. `saved` is history: what the last stop was to write.

### ChunkStore — `chunkmanager.cpp`, `chunk.cpp`, `singlefilecache.cpp`, parts of `downloader.cpp`, `chunkselector.cpp`, `torrentcontrol.cpp`

All chunks of a torrent between network and disk. A chunk has a `status`, a buffer
(`mem`) or a place in the file (`disk`), each piece of it good or bad. Actions:
`StartDownload`, `SelectFails`, `Reload`, `PutAway`; `PieceStored`, `ChunkVerified`,
`SaveFails`, `ChunkRejected`; `GrabInMemory`, `GrabLoads`, `GrabFindsCorruption`,
`FreeChunk`; `Stop`, `Start`, `DataCheck`, `Restart` (end or crash of the program and a
new run that believes the index file) and `Decay`. `env`, fixed in a behaviour, is the
environment the torrent lives in: whether peers lie, mmap fails, chunks are hashed while
they come in, peers ask for what was not announced, how many faults the disk has and how
many sessions there are. `decayed` and `unwritten` are history.

### FileSelection — `chunkmanager.cpp`, `torrentfile.cpp`, `multifilecache.cpp`, `dndfile.cpp`, `chunkselector.cpp`, parts of `downloader.cpp`, `torrentcontrol.cpp`, `multidatachecker.cpp`

The files of a torrent and the chunks they share. `torrent` is the layout, made by
`LoadFiles` from the offsets at which the files end; `FilesOf` (`calcChunkPos`) tells the
files of a chunk; `priority` belongs to the user; `cman` (status,
priorities and bitsets of the chunks, and the cached count behind `recalc_chunks_left`),
`down` (downloads and selector) and `cache` (per file: output or `.dnd` file, and what each
holds) are the three objects a change runs through. `SetPriority` is the whole of
`TorrentFile::setPriority` with the slots it triggers: `Prioritised`, or
`downloadStatusChanged` with `Deselected` or `Selected`, then `CacheStatusChanged`, which
moves the border chunks between both kinds of files (`ToDND`, `FromDND`). A deselected file
gives up what lies in it alone (`Own`) and excludes its range but for the border chunks other
files want (`KeepFirst`, `KeepLast`). Actions:
`ChangePriority`, `StartDownload`, `FinishChunk`, `GrabCorrupted`, `UpdateStats`, `Stop`,
`Start`, `DataCheck` and, later, `AfterDataCheck` (the selection may change in between),
`RecreateMissingFiles`, `DndMissingFile`; and `Restart`, after which `LoadPriority` sets the
saved priorities one by one and `LoadIndex` reads the index, with the program ending at any
point in between. Chunks are complete or not; `ChunkStore` has their
pieces.

Some chunks are not treated by the code as their files say (section 6). The properties name
them instead of leaving the layouts out: `Pinched`, `Overrun` and both together `Odd`;
`SmallHead`, `AfterAbsent` and `AfterOverrun` for what is read back wrongly. `outdated` and
`absent` are history for these.

### QueueManager — `queuemanager.cpp`, parts of `torrentcontrol.cpp`, `ktorrentcore.cpp`, `scandialog.cpp`, `queuedialog.cpp`

`q` is the manager and its torrents. `QMStart`, `QMStop`, `orderQueue`, `torrentAdded`,
`enqueue`, `dequeue`, `startall`, `stopall`, `Pause`, `Unpause` are the functions of those
names; `Stopped` sets the flags of a stopped torrent, and `QMStop` and `stop` then go
through `torrentStopped`, which orders the queue before they return. Actions are what the
user and the core do: `Add`, `RemoveTorrent`, `UserStarts`, `UserStops`, `UserQueues`,
`StartAll`, `StopAll`, `SetLimits`, `WriteQueue` (any new numbering of the queue dialog),
`SetPaused`, `Move` and `MoveDone`, `ChangeDataDir`, `StartScan`, `CheckerDone`,
`AfterCheck`, `PreallocationDone`, `Restart`; and `Update`, one round of the core's timer
over all torrents, in which they finish, fail, run out of space or reach their share limit.
`Fault` changes what is wrong with the disk of a torrent.

### Trackers — `peersourcemanager.cpp`, `httptracker.cpp`, `udptracker.cpp`, `udptrackersocket.cpp`; AnnounceRequests

`w` is the manager and its trackers: per UDP tracker the event, the connection and
transaction ids, the retry counter and the timer, per HTTP tracker the event, the running
jobs and the queue. Actions: `Start`, `Stop`, `Completed`, `ManualUpdate`, `SetTracker`,
`AddTracker`, `RemoveTracker`, `RestoreDefault`; `TimerFires` and `ConnTimeout`;
`ReceiveConnect`, `ReceiveAnnounce`, `ReceiveError` and `ReceiveLate`, for any request that
was sent and not answered yet; `JobFails` and `JobIsAnswered`.

`AnnounceRequests` is the abstract specification: a tracker asks, and takes an answer only
while its last request is open, which closes it. `Trackers` implements it under the mapping

    asked[t] <- transaction_id of t
    open[t]  <- UDPTrackerSocket still has a transaction with that id
    taken[t] <- answers t has handled

(`OneAnswerEach`). One step of `Trackers` may be a step of several askers, because the
failure of one tracker stops it and starts another.

### PeerManager — `peermanager.cpp`, `authenticate*.cpp`, `serverauthenticate.cpp`, `mse/encrypted*.cpp`, `server.cpp`, `advancedchokealgorithm.cpp`, `chunkcounter.cpp`, parts of `streamsocket.cpp`

`w` holds, per torrent, `peers`, `potential`, `saved`, `cnt`, `available` and
`num_pending`; the handshakes we began, `auths`, in the order they began; and the static
counters `total_connections` and `num_connecting`. `incoming` is how far the handshakes of
others have come. `extra` counts what `killBadPeer` replaces although it is dead already.
Actions for outgoing handshakes: `Connected`, `ConnectFails`, `ExchangeKeys`,
`PartOfHandshake`, `WholeHandshake`, `HandshakeFails`, `Timeout`; for incoming ones
`Accept`, `IncomingExchangesKeys`, `IncomingPart`, `IncomingWhole`, `IncomingFails`. A
failed encrypted handshake tries again without encryption inside the same call
(`Failures`), and that connect may fail at once too. `OnHave`, `OnBitSet`, `Kill`;
`Update` is `TorrentControl::update`: dead peers are removed, connections made, and the
choker run. `addPotentialPeer`, `Start`, `Stop`.

### DHT — `kademlia/`

One bucket, the RPC server, tasks and their manager, and the announcer of one torrent. `d`
has the calls by transaction id, the queue of calls, the entries of the bucket and the
nodes waiting for a place, tasks and the list of queued ones; it is discarded at `Stop`.
Actions: `ping` and `portRecieved` (others reach us), `Response` (any answer to any id in
use), `Timeout`, `Silent` (an entry gets questionable), `onResolverResults`, `Update`
(`removeFinishedTasks` and the refresh of the bucket), `BackendStart`, `BackendStop`,
`ManualUpdate`, `OnTimeout` for the announcer, `Stop` and `Start`.

### PortForwarding — `plugins/upnp/`: `upnprouter.cpp`, `upnpmcastsocket.cpp`, `upnpprefwidget.cpp`, `upnpplugin.cpp`; `portlist.cpp`, `httprequest.cpp`, `waitjob.cpp`, `pluginmanager.cpp`

`u` is the plugin: routers that were found, the default device, forwardings (`fwds`, each
with the address of its pending request, or 0), requests on the way and those the exit waits
for. `mapped` is what the routers do forward. An action is a discovery, the end of a
download, a change of the ports, a click, loading or unloading, a step of a router
(`RouterActs`), or the end of a request: its answer, a refusal, an error or a time-out, or a
connection closed without an answer. Requests have connections of their own and may overtake
each other. `unsure`, `refused`, `doubled` and `cut` are history: they name the keys and
ends about which nothing can be known (section 6).

### RssFeeds — `plugins/rssfeed/`: `rssfeed.cpp`, `rssfilter.cpp`, `rssfeedmanager.cpp`, `rsslinkdownloader.cpp`, `rssfeedplugin.cpp`

`m` is the plugin: feed and filter objects, the lists of them, downloads, and the files (one
of articles for each URL, one of each list). Objects that a plugin leaves behind when it is
unloaded stay. An action is loading, unloading or the end of the program; a refresh, the
arrival of a document or a failure; what a job of a download brought (a torrent, a page,
nothing); or something the user does to a feed, a filter or a match. `feedLoaded` scans the
new articles one after the other, with every filter; matches are saved at once. An article
stands for its link, which for those in `Broken` is no URL: `newDownload` begins nothing for
them. `Episode` and `Patterns` stand for the regular expressions. `names`,
`done`, `old` and `lax` are history.

### BufferedSocket — `bufferedsocket.cpp`

The output buffer: `bytes_in_output_buffer`, `bytes_sent`, and the `writeBuffered` call
under way. `Call` enters it, `Fill` asks the writer, `Send` and `SendNothing` are
`sendOutputBuffer` with whatever part the kernel takes. `first`, `filled` and `wire`
number the bytes, so that loss, repetition and disorder show.

### SocketMonitor — `socketmonitor.cpp`, `networkthread.cpp`, `uploadthread.cpp`, `downloadthread.cpp`

The life of the threads: `add`, `StartDownload`, `StartUpload`, `remove`, `queuePacket`,
`signalPacketReady` on the main thread; `Run`, `Loop`, `Lock`, `Rest`, `Upload`, `Wait`,
`FillPollVector`, `Poll`, `Read` on the others. `TQThread` and `TQWaitCondition` are
external: `start()` of a living thread waits for its end, `wakeOne()` is lost when nobody
waits.

### SocketGroup — `socketgroup.cpp`, `networkthread.cpp`

One `update()` once the ready sockets are known: `Update`, `EnterGroup`, `SkipGroup`,
`processLimited`, `processUnlimited`, `LeaveGroup`, `NextPass`, `Return`, one socket per
step; data arrives and remote sides close in between. `up` says which thread it is, `cap`
whether this update has a global limit. An allowance is any number up to a bound (the code
computes it from the elapsed time).

### PacketReader — `packetreader.cpp`, `streamsocket.cpp`, parts of `peer.cpp`

Bytes are `<<m, k>>`, the k-th byte of message m. `onDataReady` is translated with its
helpers `newPacket` and `readPacket` as operators on the reader's state, and applied to
any part of the stream (`Receive`), to the reinserted bytes (`DeliverReinserted`), in
either order. `PeerUpdate` delivers. A length field made of misplaced bytes says
`Garbled`.

### How the modules fit together

The bytes `BufferedSocket.Fill` asks for come from `PacketWriter`'s `onReadyToWrite`;
`SocketMonitor.Upload` is one pass of `SocketGroup`, whose `Moves` is one `writeBuffered`
or `readBuffered`; the bytes `readBuffered` reads go to `PacketReader.Receive`, and what
`PeerUpdate` delivers is an `OnRequest`, a `Choke`, a `pieceRecieved`, an `OnHave` or an
`OnBitSet`. What a `Stop` leaves in progress is what
`CurrentChunks` saves, and its `Start` is the `loadDownloads` of `ChunkDownload` and
`ChunkStore`. A finished chunk of `ChunkDownload` is a `ChunkVerified` or `ChunkRejected` of
`ChunkStore` and a `FinishChunk` of `FileSelection`. `QueueManager.start` is the `Start` of
`ChunkStore`, `FileSelection`, `PeerManager` and `Trackers`, and a `BackendStart` of `DHT`;
what `Trackers` and `DHT` find is an `addPotentialPeer` of `PeerManager`, whose
`createPeer` is an `add` of `SocketMonitor` and a `Connect` of `ChunkDownload`. Each module
keeps the others' part as an input that may be anything the other can produce.

## 4. Runs: what is checked, bounds and results

Each run is `tlc -config <run>.cfg MC<module>`, where the name of the module is that of the
run up to a `_`. With two workers, TLC finds no error in nine of them, and in the other three
the violation of the one property they check, each of which is a sentence of the sources that
the code does not keep (section 6):

| run | distinct states | time |
|-----|----------------:|-----:|
| Torrents (PacketWriter, QueueManager, CurrentChunks) | 626,518 | 90 s |
| Torrents_Refused | violation of `AllPartialsReturn` | 5 s |
| ChunkDownload | 90,171 | 63 s |
| Network (BufferedSocket, PacketReader, SocketMonitor) | 27,745 | 88 s |
| Network_Refill | violation of `FullySentBeforeRefill` | 1 s |
| SocketGroup | 300,412 | 41 s |
| ChunkStore | 104,010 | 67 s |
| FileSelection | 491,104 | 108 s |
| FileSelection_Borders | violation of `BordersAreKept` | 5 s |
| PeerManager | 146,676 | 76 s |
| DHT | 85,592 | 96 s |
| Services (Trackers, RssFeeds, PortForwarding) | 1,561,881 | 151 s |

Three modules for TLC, `MCTorrents`, `MCNetwork` and `MCServices`, put together modules that
share no state, by a variable `part` that says which of them the behaviour is about; each is
explored as it would be alone. `Parts` of `MCTorrents` chooses among them: `Torrents_Refused`
is about the file of partial downloads alone.

Type correctness has no run of its own: it is a conjunct of one safety property of its
module, where there is one. An operator marked `mutant` in a module is what a plausible
bug would make of a definition; every property is violated under at least one of them
(`PROJECT.json`, "mutants"), so that none holds whatever the code does. Deadlock is
checked except where the system may really stop: all bytes sent, all events used up.

**Torrents, packets.** `CurrPacketIsFront`, `ListsOwnPackets` and `PartiallySentIsCurrent`: each
packet is freed once, by the list that owns it, and its bytes are not mixed with another's.
`ChokeIsKept`: a choked peer gets no new piece, and the last choke or unchoke that was sent
or waits says what `am_choked` says. `BoundedBypass`: at most three control packets overtake a waiting piece.
`RequestsAreAnswered`: a request leaves the queues only as an answer or by its own cancel.
Four addresses let one be freed and used again while three packets wait; pieces of three
bytes, control packets of two and a buffer of two put the boundary of the buffer inside
and between packets of both kinds. Addresses are alike; that three of the four may change
places makes the run small enough. The run is about a peer with fast extensions, who gets
the rejects as well; the theorems cover both.

**ChunkDownload.** `RequestsAreAccounted`: a piece marked as asked of a peer is in that
peer's queues, which stay within their limits. `OnlyBadPeersBlamed`: only who sent bad data is blamed, in a first session.
`ChunkCompletes`: with an honest peer that serves us, the chunk is finished. Two pieces and
queues of one make a peer hold one request and have one waiting, which is where they are
moved, stranded and timed out; one peer has fast extensions and lies, the other is honest,
so that every branch on either is taken; two sessions make `load()` restore a half-finished
chunk.

**Torrents, partial downloads.** `PartialDownloadsReturn`: whatever a chunk was saved from and
is loaded to, and wherever a full disk cut the file, a partial download comes back with the
pieces it had if its entry was written and nothing in front of it was refused; if that is
true of all of them, nothing else comes up, no chunk is left prepared without a download, and
both readers of the file agree on its bytes. Two chunks, of eight pieces with a short last one
and of a single piece, cover the last bit of a byte and the smallest bitset; the data of the
first look like the entry of the second, so that a reader in the wrong place is not
caught by chance. A full disk keeps blocks of five bytes, which cuts headers, bits and data;
two sessions, each with any number of stops, selections and checks. `Torrents_Refused` checks
`AllPartialsReturn`, the property without its condition on the entries in front: TLC
deselects the first of two saved chunks, and the second is gone after the next start.

**Network, sending.** `BytesInOrder` and `WithinLimit`. A buffer of four bytes, limits on
both sides of its size and a kernel that takes any part; eight bytes refill it, once
in the middle. `Network_Refill` checks `FullySentBeforeRefill`, what bufferedsocket.h:56
promises: TLC has the kernel take half of the buffer, and the writer is asked for more.

**Network, threads.** `SocketsAreServed`: the list is walked only under the lock, and both
threads are alive while there are sockets. `SentByLaterSignals`: queued data is sent as
long as packets keep being queued. Two sockets and three additions let the list become
empty and be filled again while a thread that noticed the first has not ended.

**SocketGroup.** `LimitsAreKept`: neither the global limit nor that of a group is exceeded,
by rounding or by a larger share. `UpdateEnds`: an update ends although ready sockets turn
out to have nothing. Three sockets in two groups, one of them limited, and allowances up to
three, so that shares of an allowance are zero, equal and uneven.

**Network, receiving.** `PacketsAreIntact` and `CompleteIsDelivered`. Seven messages: a
keep-alive between packets, packets of one byte, of the maximal length (four), and one that
is too long with another behind it; the length field keeps its real four bytes, of which any
part may come, and seven bytes are reinserted, one packet and part of a length.

**ChunkStore.** `VerifiedIsGood`: what we announce is good on the disk, and a restart
believes what was verified and, where the disk keeps what it is given and peers ask for what
is announced, all of it. `MissingCanBeFetched`: no missing chunk is in a state
that keeps it from being downloaded. `AllDownloaded`: a torrent left running completes. Two
chunks of two pieces, since the hazards are those of one chunk in two places or of one
evicted for another, in three environments: bad peers with continuous hashing, two sessions
and crashes; a disk that fails once while nothing can be mapped; one that fails once while
peers ask for chunks we did not announce. One environment with all of them is too large for
a run, and section 6 says what would happen in it.

**FileSelection.** `HaveIsStored`: what the bitset promises can be read back from files or
from what was kept of deselected ones. `ChunksLeftIsFresh`: the cached count that decides
about seeding is right. `WantedCanBeFetched`: a chunk of a wanted file that is
missing is to do, and in the sets that lead to its download. `WantedIsFetched`: a torrent left running
completes. Six layouts of two or three files in chunks of four bytes: a chunk shared by two
files, one shared by three, a first chunk that begins with a small file, a file pinched
between two others, an empty file at a border, and multimedia files; three priorities
(excluded, only seed, normal), two changes and a restart or a lost file.

**FileSelection_Borders.** The comment of `downloadStatusChanged` on border chunks, stated as
`BordersAreKept`: deselecting a file takes no chunk from another one. TLC finds it violated by
one change: the middle file of three lies in two chunks and shares both (section 6).

**Torrents, queue.** `QueueSettles`: after `orderQueue`, whatever happened before it, no torrent
of the queue waits while its limit has a free slot, and none runs above it. `PausedTorrentsResume`:
a pause keeps the queue down; after it every torrent that it stopped, of the user or of the
queue, runs again or waits in the queue behind those that fill its slots, unless its files are
being moved or its disk refuses it; and a restart brings back what the user had running.
Three sessions: two downloads and a seed in the queue with limits of one and zero; one queued
torrent next to two of the user; two torrents with more events. Limits may be changed to
zero or one; torrents meet input/output errors, missing files and too little space; settings
for the end of seeding, moving completed files, preallocation and share ratio are on or off
together, as each is read in another handler.

**Services, trackers.** `NeverForgotten`: a started torrent has a timer or a job that will make it ask
again, apart from the deviation of section 6. `OneAnswerEach`: the UDP trackers implement
`AnnounceRequests`, in which an answer is taken once and for the last request only. A UDP
and an HTTP tracker, of which the user may remove and add one; three calls of the user or
the torrent. Eight requests and eight jobs leave several retries after each of them; an
execution that has used them up goes no further. The retry
counter that is read before it is set begins at 0 or at 6, below and above the limit of its
branch.

**PeerManager.** `LimitsAreKept`, `OnePeerEach`, `SwarmIsCounted` and `HandshakesEnd`. Six
worlds, each for one interaction: a limit of one connection and three clients; two upload
candidates and one slot; two torrents under a common limit, with a client in common or with
different ones, retrying without encryption; clients that are tried again and again;
required encryption and our own address among the peers. `num_pending > MAX_SIMULTANIOUS_AUTHS`
with a maximum of one lets two handshakes of a torrent meet, besides an incoming one.

**DHT.** `CallsAreAccounted`: calls, tasks and bucket agree on who waits for what, and calls
wait only while all transaction ids are in use. `TasksEnd`: every task ends. `AnnouncesGoOn`:
a torrent that announced itself goes on. Two nodes and a bucket of one entry make every new
node a replacement; two transaction ids and one task slot are used up by two lookups; two
events (start and stop of the torrent and of the DHT).

**Services, port forwarding.** `DefaultDeviceServes`: what is shown as forwarded is forwarded,
and nothing else is (`ShownIsMapped`); every port in use has a forwarding at the default
device, in spite of late answers to older requests. `UnloadUndoes`: an end that was not cut off leaves
no mapping of the default device. Two routers with one service, two ports, of which one is in
use at first; three events, so that the default device may change and change back, or a port
be removed and added again, while three requests are on the way; one failure. One description is downloaded at a time, so
that a router found again while its description is on the way is outside these bounds.

**Services, RSS.** `EpisodeOnce`: a series filter downloads an episode once, unless a download
of it failed. `MatchIsPursued`: a match made since its filter was loaded is being downloaded,
was, or has a link that is no URL, and what is being downloaded has its match. An episode that
is posted in both feeds and again in one of them, an article without an episode, and the next
episode without a link; a saved feed and a second one, a
saved accept and reject filter and room for a third; three days, so that articles come and
are cleaned; pages with up to one link, two downloads at a time; three events of the user,
unloads or ends of the program, so that a filter may be deleted, replaced and set up again
while a download runs, and one failure.

## 5. Fairness

Only liveness properties use it; the theorems are about `Spec` without fairness where a
module has both.

* `ChunkDownload`: weak fairness of `Update`, with every overdue request timing out (the
  core's timer never stops while the torrent runs); strong fairness of receiving each piece
  from an honest peer (asked again and again, it answers in the end).
* `ChunkStore`: strong fairness of starting a chunk and of receiving each piece. Both stop
  and restart with the torrent, so weak fairness would not do; that the torrent is left
  running is a premise of the property.
* `FileSelection`: weak fairness of starting and of finishing each chunk; that the torrent
  is left running is a premise again.
* `PeerManager`: weak fairness of the time-out of the oldest handshake. Every handshake has
  a timer of 20 seconds; nothing is assumed of the remote side.
* `DHT`: every timer fires in the end (calls, the announcer, `update()`), and room for a
  queued task found by `update()` is used sooner or later: it looks every second, while five
  minutes pass between two announces. It is written with `[]<>` and the guards of the
  timers, because TLC cannot evaluate `ENABLED` of actions built from so many calls.
* `SocketMonitor`: weak fairness of both threads' steps, strong fairness of getting the
  mutex (nobody keeps it for ever) and of each socket with data being served in the end.
* `SocketGroup`: weak fairness of the thread inside `doGroups`, and none of data arriving.
* `PacketReader` (stated in `MCNetwork`): weak fairness of `Peer::update` and
  `startMonitoring`; none of the download thread.

## 6. Where the code deviates from what one would expect

The models follow the code, so these are in them. They bound what the properties can say;
`PROJECT.json` repeats the most important ones in the notes of its hazards.

**Sending and receiving.**

* A CANCEL withdraws a piece only if its data happens to begin with the requested length:
  `isPiece` compares payload bytes (packet.cpp:112), against packetwriter.h:163-164.
* A send of exactly half of what is left in the output buffer drops the other half
  (bufferedsocket.cpp:142), against bufferedsocket.h:56: a finding of `PROJECT.json`, shown by
  the run `Network_Refill`.
* A packet queued between the upload thread's last look and its wait is not sent until
  another one is queued (uploadthread.cpp:71), against packetwriter.cpp:79.
  `SentByLaterSignals` is what remains true.
* `add()` may wait for ever: it calls `start()` under the lock that the ending thread needs
  (socketmonitor.cpp:108).
* A socket's second go in an update closes a healthy connection whose data has been read in
  full (bufferedsocket.cpp:91).
* `startMonitoring` lets the download thread run ahead of reinserted bytes
  (streamsocket.cpp:87); `PacketsAreIntact` says more for bytes in order than for others.

**Downloading and storing.**

* `load()` restores pieces without their providers (chunkdownload.cpp:387), so
  `OnlyBadPeersBlamed` is about the first session.
* `loadDownloads` reads nothing of an entry that it refuses, because the chunk was deselected
  or found by a data check meanwhile (downloader.cpp:540-566). The reader goes on in its bits
  and data, finds no chunk there or a wrong one, and what was saved behind it is lost; the
  count of downloaded bytes includes it (`getDownloadedBytesOfCurrentChunksFile` skips properly).
  This is a finding of `PROJECT.json`, shown by the run `Torrents_Refused`. Data taken for an
  entry may restore pieces that never arrived, and so may a file that a full disk cut, of
  which unset memory is read; a later check of the chunk finds out.
* A chunk whose entry cannot be loaded stays prepared without a download, so that nothing
  downloads it before the program begins anew (downloader.cpp:560-566).
* `wait_queue` may be stranded behind an empty `reqs` (peerdownloader.cpp:288);
  `ChunkCompletes` assumes that the serving peer's is not.
* `saveIndexFile`, called when an upload finds a corrupt chunk, lists chunks in progress
  (chunkmanager.cpp:212), and the next start believes it.
* A chunk that could not be written is neither there nor fetchable until a data check
  (downloader.cpp:403); `loaded` survives a stop, so a chunk found bad by a check may become
  `ON_DISK` again (chunkmanager.cpp:378); a failed mmap brings a chunk back without its
  pieces (singlefilecache.cpp:90); `grabChunk` gives out chunks in progress
  (chunkmanager.cpp:291). No environment combines the faults that would turn these into
  lost chunks.

**Files.**

* Deselecting a file takes the bits of chunk 0 and of border chunks but leaves them
  `ON_DISK`, and `prepareChunk` refuses them when the file is selected again
  (chunkmanager.cpp:859); `WantedCanBeFetched` excepts them, `WantedIsFetched` assumes
  there are none.
* A file that lies in two chunks and shares both takes the second one with it when it is
  deselected (`Pinched`): `first` was incremented for the first chunk and equals `last`, so
  `last` is not decremented (chunkmanager.cpp:914), against the comment in line 905; the test
  `last < first` (:930) that was to catch this can never be true. A file that wants the chunk
  cannot be completed until one of its neighbours is selected again. This is the finding of
  `PROJECT.json`, shown by the run `FileSelection_Borders`.
* An empty file at the beginning of a chunk selects, deselects and prioritises this chunk with
  itself, because `calcChunkPos` knows nothing of empty files; a multimedia file of one chunk
  prioritises the chunk behind it (chunkmanager.cpp:822-823). Such chunks (`Overrun`) may be
  downloaded while their file is deselected, are then saved as the last part of its `.dnd`
  file (`AfterOverrun`), and are missing from the cached count.
* `writeFirstChunk` looks for the last part behind the new first part (dndfile.cpp:167), so a
  `.dnd` file that was made for a missing file loses its last part (`AfterAbsent`).
* The part of a small file at the head of a chunk is saved as a first chunk and read as a
  last one (multifilecache.cpp:376, :604); the index file is not rewritten when a file is
  deselected (chunkmanager.cpp:601); a data check is applied to whatever is selected when
  it ends (torrentcontrol.cpp:1444). `HaveIsStored` excepts what depends on them.

**Queue.**

* The limits minus the user's torrents may be negative and are used as an unsigned index
  (queuemanager.cpp:494), so nothing is stopped; a torrent that is refused still uses up its
  slot (:547). `QueueSettles` excepts both.
* `stopall` stops one torrent at a time, each of which orders the queue, which starts others
  (queuemanager.cpp:230), against "Stop all torrents." (interfaces/coreinterface.h:96);
  `remove()` of a queued torrent likewise (ktorrentcore.cpp:525).
* The ends of moving and of scanning start a torrent while the manager is paused; exit
  during a scan loses its priority and autostart (scandialog.cpp:95); a torrent that was
  allocating at exit is not resumed.

**Trackers and peers.**

* An announce on a known connection id starts no timer (udptracker.cpp:190), so its loss is
  not noticed: `NeverForgotten` excepts exactly this. The retry counter `n` is read before it
  is first set, and set to 0 by every request without a connection, so the back-off does not
  grow. An HTTP tracker that is replaced before its "started" is answered is not told to
  stop (peersourcemanager.h:74-77), and may have two jobs at once.
* `stop()` forgets pending handshakes while the global count keeps them
  (peermanager.cpp:507), so `total_connections` may only be too large.
* `killBadPeer` may choose a peer that is dead already (peermanager.cpp:538); each time, a
  limit may be exceeded by one (`extra`).
* A failed connect is taken off `num_connecting` twice (streamsocket.cpp:307-317 and :72).
* A handshake that came in part goes on only if 48 bytes are there
  (authenticatebase.cpp:85); an encrypted one that is cut at the wrong place decrypts twice.
  Both end by their time-out.
* HAVE is counted again each time, and BITFIELD forgets what HAVE has counted
  (peermanager.cpp:182-198), so `cnt` may only be too large.

**DHT.**

* Answers are recognised by an 8-bit id alone (rpcserver.cpp:137).
* A good entry may be replaced by the node that waited for a ping's late time-out
  (kbucket.cpp:179); a node may be in a bucket twice.
* When the DHT stops, every announcer is turned off and not on again
  (dhttrackerbackend.cpp:60-69), and an announce with an empty table is never retried
  (:83-108): `AnnouncesGoOn` is about torrents that have announced and a DHT that stays on.

**Port forwarding.**

* Opposite requests for one port go through connections of their own and may be carried out
  in either order (upnprouter.cpp:341): `ShownIsMapped` says nothing of such keys until the
  next request of its own.
* A refused or failed forwarding is removed and not tried again (upnprouter.cpp:363); when it
  had replaced an older one, that mapping is forgotten.
* A former default device keeps its mappings (upnpprefwidget.cpp:128).
* A port in the list twice loses its forwarding when it is removed once
  (webinterfaceprefwidget.cpp:81): `doubled`.
* A router that closes the connection without an answer does not end the wait of the exit
  (httprequest.cpp:73), which then takes its two seconds.

**RSS feeds.**

* A match is saved when its download begins (rssfilter.cpp:351), its deletion is not: after a
  restart an episode whose download failed, or was under way at the end, counts as downloaded.
* An article whose link is no URL is matched and its match saved, and no download begins
  (rsslinkdownloader.cpp:42-47, rssfilter.cpp:347-352). A proper posting of its episode is then
  refused as already downloaded: `MatchIsPursued` excepts such links (`Broken`).
* A download keeps a pointer to its filter and uses it when it fails
  (rsslinkdownloader.cpp:178), deleted or not. In the model the program may end then; or
  another filter at the address loses its match.
* While a download runs, a second posting of its episode is refused; if the download fails,
  that posting is not tried, because only new articles are scanned (rssfeed.cpp:300).
* Articles without an episode, and those of filters that are not for series, are downloaded
  again when their feed forgets and reads them again: a new URL clears the articles after it
  loaded those of its file (rssfeed.cpp:106, rssfeedmanager.cpp:139).
* A document that is on its way when the URL changes goes to the articles of the new URL
  (rssfeed.cpp:258), whose own document is not fetched until the next refresh.
* `setArticleAge` cleans with the old age (rssfeed.cpp:141).
* The feeds of an unloaded plugin are not deleted: active ones go on refreshing and saving
  their articles, unscanned, into the files of the feeds of the next load
  (rssfeedplugin.cpp:72).
* A feed or filter that the user adds is not saved before a setting of one of them changes
  (rssfeedmanager.cpp:366).

## 7. Theorems

`tlapm` checks them in eight modules, one for each module they are about (`NetworkProofs` for
two of them), for every value of
the constants that satisfies the assumptions named there: sizes and bounds are naturals
(packets and the buffer not empty), the null pointer is not an address, the sets of torrents,
clients and chunks of `PeerManager` are finite, lists of constants are sequences of what they
list, the ends of files are in order, and `EXCLUDED` is one of the priorities the user may
give. Two theorems have a hypothesis besides (`Promised`, `OwnTracker`); both are explained
below, and both hold in the runs.

The theorem of a property is named in `PROJECT.json`, next to the property. In every module
the proof has three parts: what the model's operators do (lemmas on lists, finite sets and
counts, and on each function of the code), that every action keeps the inductive invariant
(one step per action, one below it for each conjunct the action can disturb), and that the
invariant implies the properties. TLC has checked each inductive invariant on the run of its
module before it was proved.

**NetworkProofs, BufferedSocket.** The inductive invariant is

    IInv == TypeOK /\ ReadsWhatWasWritten /\ WithinLimit /\ WireBehindBuffer /\ BytesInOrder

`BytesInOrder` alone is not inductive: that the next byte is larger than all those sent
needs `WireBehindBuffer`, which says that the wire is behind the next byte the buffer will
offer, and that no refill starts before the numbers already used. `ReadsWhatWasWritten`
ties both counters to the extent of the buffer, also on the branch that resets them too
early. From it follow `TypeCorrect`, `NoStrayRead`, `WireIsOrdered` and `LimitIsKept`, for
kernels that take any part. That nothing is lost is not true of them (section 6).

**PacketWriterProofs.** All six properties about packets. The inductive invariant is
`LInv /\ CInv /\ BInv /\ HInv /\ KInv /\ AnnouncedChokeState`.

* `LInv` (lists): the types, and `Owned` for both lists: the addresses in a list are
  distinct, live, of its types, and include every live packet of those types; `curr_packet`
  is null or the front of its list; a packet that is partly written is `curr_packet`.
* `CInv`: the types of the rest, and that a loop that erases starts at the first element.
* `BInv` (bypass): the counter of control packets bounds the history of overtaking.
* `HInv`: who holds the mutex, without which the main thread's erasures could meet the writer
  half way.
* `KInv`: how far `Peer::choke` has got. From the CHOKE on the peer is choked and asks for
  nothing; before the position of `clearPieces` only pieces that are being sent are left,
  behind its end nothing else; and nothing is left of the requests when it returns.

The erasures are the hard steps: removing an element from the middle of a list while a
position into it is kept (`clearPieces`, `doNotSendPiece`), with a reject queued at a new
address in the same step. `Owned` is preserved by lemmas on appending to, removing from
and leaving a list. `TypeCorrect`, `PopsWhatItSent`, `PacketsAreOwned`, `NoInterleaving`,
`UploadsAreNotStarved` and `ChokingIsKept` follow for peers with and without fast
extensions. `EveryRequestIsAnswered` (`RequestsAreAnswered`) is an action property: by `LInv`
the packets that answer a request are the live ones on the heap, so that each handler is
shown to turn a position in `requests` into a packet, or a packet into another.

**ChunkDownloadProofs.** `Sound` says of each peer that its queues are within their limits
and that a piece marked as asked of it is in them unless it has arrived; a peer that is not
assigned has no marks; a chunk that is not in progress has no peers; in a first session the
pieces at hand came from known providers. The marks of a peer survive the handlers because
each of them (answer, reject, choke, timeout, release) removes mark and request together;
`TQValueList::remove` takes every equal item out, which is shown of the list built element by
element. `EveryRequestIsOnTheBooks` and `BlameIsDeserved` follow, whatever `loadDownloads`
makes of the file at a restart.

**ChunkStoreProofs.** `VerifiedChunksAreGood` and `MissingChunksCanBeFetched` are about the
environments that keep

    Promised(e) == /\ e.hashing => ~e.mmap_fails
                   /\ e.faults > 0 \/ e.unannounced => e.sessions <= 1

Without any one of the exclusions TLC violates `VerifiedIsGood`: a chunk that is hashed while
it comes in and returns in a new buffer after a failed mmap has lost pieces that count as
verified, and a chunk in progress that `saveIndexFile` lists, when an upload finds a corrupt
chunk, is believed by the next session (section 6). Within it the number of chunks, pieces,
faults and sessions is arbitrary. The invariant puts a chunk in one place (`Placed`: in the
bitset, in `current_chunks`, unwritten, or to be fetched), says what is on the disk for the
bitset and for the prefix of pieces that was hashed already (`Hashed`), and what a restart
will believe (`Recorded`): with a disk that keeps what it is given, the index file is the
bitset and `loaded` holds nothing else.

**SocketGroupProofs.** `LimitsHold`: what an update has moved, plus the allowance that is left,
is what it began with, plus what the call of `processLimited` under way has not been charged
for yet (`CapCounted`, `GroupsCounted`). A call never gets more than both allowances it will
be charged to (`FrameIsCovered`), which makes the subtraction of unsigned numbers safe, and a
share that rounds to zero is raised within them.

**NetworkProofs, SocketMonitor.** `MonitorInv` adds two facts to `TypeOK /\ LockHolder`. `FlagIsHonest`:
`running` of a thread is set only while that thread lives and has begun, which is what makes
it safe for `add()` to skip `start()` when `isRunning()` says so. `Starting`: inside `add()`
the list is not empty and the threads passed so far are up; this carries the promise over
the two `start()`s. `ThreadsServe` follows, for any number of connections and restarts.

**FileSelectionProofs.** The three invariants of the run, for every number and every size of
files. From the ends of the files follows `Layout`: a file begins in the last chunk of the one
before it or in the chunk after that. So a shared chunk is the last one of its first file and
the first one of all others (`BorderChunks`), which is what makes two parts in a `.dnd` file
enough. Then each operation is summed up by what it does to any one chunk: `IsPrioritised`,
`IsReset`, `IsIncluded`, `IsExcluded`, and of those `IsSelected`, `IsGivenPriority` and
`IsDeselected`, whatever borders are kept or previews come first. The invariant is

* `Consistent`: a chunk in the bitset is on disk and a downloaded one is buffered (`Statuses`);
  what is to do is neither there nor excluded (`Marked`, of all chunks); the sets of the chunk
  manager say what the priorities of the chunks say (`SetsAgree`) and these say what their
  files want (`Wishes`, of all but odd chunks);
* `Offered`: the selector has what may be downloaded;
* `Fresh`: the cached count is right or will be made anew;
* `DiskOf` and `PhaseOf`: a file has a `.dnd` file if and only if its saved priority is
  EXCLUDED, and the saved priorities are those in use, or are being loaded one by one into a
  chunk manager that has no chunk yet. This is what makes a restart harmless: loading the
  priorities moves no file.

`HaveIsStored` is inductive with these, since what is deselected gives up every chunk that lies
in it alone before its output file is deleted (`SelectionKeepsStored`), and a finished chunk is
written to each of its files (`SaveKeepsStored`). `WantedCanBeFetched` follows from
`SetsAgree`, `Wishes` and `Offered`. The proof attempts showed which layouts the properties do
not hold for: the exceptions of section 6 were found by them and then by TLC.

**TrackersProofs.** `Implements` proves `Spec => OneAnswerEach`, so that every step of the
trackers, with all the calls nested in it, is a step of `AnnounceRequests`. The invariant
says that transaction ids are handed out once: none is above the counter, no two pending
transactions share one, and no two trackers wait for the same one. The argument is about
calls rather than steps: `Later(v, u)` says what any sequence of calls may do to the
requests (take no answer, forget no transaction, and give a tracker either its old request
or a new, open one); it is transitive, each function of the code satisfies it, and so does
whatever they call. An answer first takes its transaction away, after which any calls may
follow.

`TorrentIsNeverForgotten` needs more of the calls: what keeps a started torrent going
(`WatchInv`). Either the manager's timer runs, or the current tracker has something in hand
that will call the manager again: a timer or a known connection, or a job or queue entry
that is not the report of a stop. `Told`, `JobRuns` and `QueueWaits` say why this cannot
evaporate: a tracker that counts itself as started is not about to say that it stops, the
note of a job belongs to a job, and what is put aside waits for one. The theorem is about
torrents with a tracker of their own (`OwnTracker`). When the user removes the last tracker
there is, no other is selected and `curr` stays at the one that is deleted
(peersourcemanager.cpp:228-259, 277-312); a tracker of the torrent itself cannot be removed.

**PeerManagerProofs.** The invariant says the same of every torrent (`TorrentSound`): its peers
are different clients and none is ourselves; the chunk counter covers them; only a started
torrent has peers or handshakes; `num_pending` is the number of its handshakes; living peers
and handshakes are within the limit but for `extra`. Two sums tie them together: the global
count is at least the number of peers and handshakes, and living peers and handshakes of all
torrents are within the global limit but for all of `extra`. What one torrent does keeps the
sums if it is `Balanced`: it changes the global count by as much as its peers and handshakes,
or there was room for one more (`Slack`). Room is what `connectToPeers` and `newConnection`
look for in the counts, which is enough because the global count misses nobody, or what
`killBadPeer` makes, which is where `extra` comes from. The loop of `connectToPeers` starts
at most as many handshakes as there was room for (`AttemptsSound`). `LimitsHold`,
`OneConnectionEach` and `CountsHold` (with the slots of the choker) follow for any number of
torrents and clients, and for any settings.

Where the code loops over a list or a count (`remove`, the ready sockets, `connectToPeers`,
the handshakes a stop leaves, `selectTracker`), the model has a recursive function, and the
proofs take the first place at which a claim about it would fail (`WFMin`), since rules of
induction cannot be instantiated here. That the function exists at all is proved in the same
way.

## 8. What is only model-checked, and what is not modelled

Only TLC checks, because they need fairness and the prover has no liveness: `ChunkCompletes`,
`CompleteIsDelivered`, `SentByLaterSignals`, `UpdateEnds`, `AllDownloaded`, `WantedIsFetched`,
`HandshakesEnd`, `TasksEnd` and `AnnouncesGoOn`.

Not proved yet, and checked by TLC: `PacketsAreIntact` (the framing loop cuts a byte stream at
positions that depend on all of what came before, by recursion over data), and the invariants
and action properties (`PausedTorrentsResume`, `UnloadUndoes`) of `QueueManager`, `DHT`,
`RssFeeds` and `PortForwarding`; `PartialDownloadsReturn`, whose readers are recursive over
the bytes of a file. Their handlers call each other in loops over lists that they
change meanwhile: `orderQueue` sorts the queue and stops torrents one by one, each of which
orders it again; a lookup of the DHT goes over the nodes of an answer, and every call that ends
may begin others; new articles are scanned with every filter, whose matches the next scan
sees. The models have these loops as folds and sorted sequences (`SortSeq`, `FoldLeft`), and
what a fold computes for every list is a statement by induction over data, which is beyond the
prover; the loops of the modules in section 7 could be stated as recursive functions whose
first failing place is taken (end of section 7), or, in `FileSelection`, as sets of chunks.

What the theorems say is limited by the models as described in sections 3 and 6: they hold
for the code only as far as its actions are those of the modules.

Left out of the models on purpose: time (timeouts may happen whenever their timer could
fire), speed estimates and choices that depend on them, the order in which the selector
prefers chunks, contents of packets beyond what a decision reads, logging and statistics.

Some branches of modelled functions are left out or merged as well:

* `SocketMonitor.add`: the test `isRunning()` and the wait inside `start()` are one step.
* `ChunkStore`: `chunkVerified` without the exception of `writeIndexFileEntry`
  (chunkmanager.cpp:430-432); `Start` without entries of `current_chunks` that are refused,
  which `CurrentChunks` has.
* `ChunkDownload.Restart`: a chunk that is misread as complete, or stays prepared without a
  download, is out of use for the rest of the session; `ChunkCompletes` is not about those.
* `QueueManager`: the event loops of its message boxes; `over` stands for both the share ratio
  and the seed time that were reached (queuemanager.cpp:156).
* `Trackers.AddTracker`: a tracker that is added anew after its removal keeps the record of the old
  object instead of a fresh one (peersourcemanager.cpp:213-219); a URL that is
  not valid, which ends like a job that fails (httptracker.cpp:188-193).
* `DHT`: an answer ends its call, while the code leaves the timer running and deletes the call
  with `deleteLater` (rpccall.cpp:59, rpcserver.cpp:143), so that a time-out due in the same
  pass of the event loop may still fire; answers that carry our own id (node.cpp:132); the cap
  of 100 nodes an announce has yet to ask (announcetask.cpp:62).
* `RssFeeds`: the event loop of the message box inside a scan.

Not modelled, with reasons in `PROJECT.json`: peer exchange, the utilities and one-off
migration, all plugins but port forwarding and RSS feeds, and of the applications all but what they do to
torrents and the queue. Of the DHT, the 160 buckets, the store of announces and its tokens, and the encoding
of messages; of the handshakes, the arithmetic of the key exchange; of the caches, creating,
moving and growing files. Most lines of the repository are plugins and user interface, so
that the map covers a large part of `libktorrent`'s protocol, storage and scheduling code
and a small part of the repository as a whole.

## 9. Plan

What is left, most important first:

1. Proofs: `CallsAreAccounted` of the DHT, with its calls as a function and its loops over
   sets; `QueueSettles`, once the order of the queue is stated by ranks; `PacketsAreIntact`, as
   a refinement of a stream of whole packets.
2. Abstract specifications: a reliable byte pipe that `BufferedSocket` with whole sends
   implements; a torrent whose chunks only go from missing to verified and back by a failed
   check, which `ChunkStore` implements; a request that is answered, rejected or withdrawn
   once, which `PacketWriter` implements.
3. The rest of the DHT: splitting the table into buckets, the store of announces with its
   tokens, and the requests of others; a composition of two nodes over a lossy network.
4. Moving a torrent's files while it is loaded (`torrentcontrol.cpp`, `multifilecache.cpp`):
   what is where when a step of the move fails.
5. `Socket::close` against a network thread that is about to use the descriptor
   (socket.cpp:100), as an extension of `SocketMonitor`.
