--------------------------- MODULE QueueManager ---------------------------
(***************************************************************************)
(* The queue manager (queuemanager.cpp) together with the life cycle of    *)
(* the torrents it starts and stops (torrentcontrol.cpp) and the callers   *)
(* of both: the core's timer and its slots (ktorrentcore.cpp), the dialog  *)
(* that scans data (scandialog.cpp) and the one that edits the queue       *)
(* (queuedialog.cpp).                                                      *)
(*                                                                         *)
(* All of it runs on the main thread, but it is re-entrant: stopping a     *)
(* torrent emits torrentStopped, whose slot orders the queue, which starts *)
(* and stops torrents before the first stop() has returned to its caller.  *)
(* A call is an operator from the state of the manager to the next one, so *)
(* that nested calls compose in the order in which the code makes them.    *)
(*                                                                         *)
(* A torrent has priority 0 when the user controls it, and otherwise its   *)
(* place in the queue, the highest first.  A download is a torrent that is *)
(* not completed, a seed one that is.                                      *)
(***************************************************************************)
EXTENDS Naturals, Integers, FiniteSets, Sequences, SequencesExt, TLC

CONSTANTS
    Torrents,      \* the torrents that may be loaded
    Limits,        \* the values of the limits on downloads and on seeds (0: none)
    Sessions,      \* what earlier sessions left: the torrents found, those completed
                   \* and those queued, the last one first, and the limits; and, as a
                   \* bound, how many actions of the user and faults may follow
    Settings,      \* the settings to start from
    Troubles,      \* what may be wrong with a torrent, besides "none"
    MaxPriority    \* bound: the queue is edited while priorities stay below

QueueConstants ==
    /\ IsFiniteSet(Torrents)
    /\ Limits \subseteq Nat
    /\ \A s \in Sessions : /\ Range(s.queue) \cup s.completed \subseteq Range(s.list)
                           /\ {s.max_downloads, s.max_seeds} \subseteq Limits
                           /\ s.events \in Nat
    /\ Settings \subseteq [keep_seeding: BOOLEAN, useCompletedDir: BOOLEAN,
                     diskPrealloc: BOOLEAN, ignore_ratio: BOOLEAN]
    /\ Troubles \subseteq {"io", "missing", "space"}
    /\ MaxPriority \in Nat

VARIABLES
    q,         \* the manager and its torrents
    trouble,   \* trouble[t]: the fault of the disk that t runs into when it starts
    options,   \* the settings
    events     \* the events left

vars == <<q, trouble, options, events>>

Kinds == {"download", "seed"}
NoScan == [restart |-> FALSE, priority |-> 0]

\* A torrent as TorrentControl creates it
Fresh == [priority |-> 0, running |-> FALSE, completed |-> FALSE, error |-> FALSE,
          autostart |-> TRUE, over |-> FALSE, moving |-> FALSE, restart |-> FALSE,
          prealloc |-> TRUE, allocating |-> FALSE, check |-> "no", scan |-> NoScan]

TypeOK ==
    /\ q.downloads \in Seq(Torrents)
    /\ q.tor \in [Torrents -> [priority: 0..(MaxPriority + Cardinality(Torrents)),
          running: BOOLEAN, completed: BOOLEAN, error: BOOLEAN, autostart: BOOLEAN,
          over: BOOLEAN, moving: BOOLEAN, restart: BOOLEAN, prealloc: BOOLEAN,
          allocating: BOOLEAN, check: {"no", "running", "done"},
          scan: [restart: BOOLEAN, priority: 0..(MaxPriority + Cardinality(Torrents))]]]
    /\ q.paused \in BOOLEAN
    /\ {q.max_downloads, q.max_seeds} \subseteq Limits
    /\ q.paused_torrents \subseteq Torrents
    /\ trouble \in [Torrents -> Troubles \cup {"none"}]
    /\ events \in Nat

---------------------------------------------------------------------------
(***************************************************************************)
(* Reading the state of the manager                                        *)
(***************************************************************************)
Loaded(w) == Range(w.downloads)
Kind(w, t) == IF w.tor[t].completed THEN "seed" ELSE "download"
UserControlled(w, t) == w.tor[t].priority = 0
Limit(w, kind) == IF kind = "seed" THEN w.max_seeds ELSE w.max_downloads

Running(w, kind) == {t \in Loaded(w) : w.tor[t].running /\ Kind(w, t) = kind}
UserRunning(w, kind) == {t \in Running(w, kind) : UserControlled(w, t)}
getNumRunning(w, kind) == Cardinality(Running(w, kind))

\* compareItems: torrents of the user behind the queue, the queue by priority
Before(w, s, t) == w.tor[s].priority > w.tor[t].priority
Sorted(w) == [w EXCEPT !.downloads = SortSeq(@, LAMBDA s, t : Before(w, s, t))]

setPriority(w, t, p) == [w EXCEPT !.tor[t].priority = p]

---------------------------------------------------------------------------
(***************************************************************************)
(* A torrent on its own: TorrentControl::start and the part of stop before *)
(* its signal                                                              *)
(***************************************************************************)
StartsAllocating(w, t) ==
    w.tor[t].prealloc /\ options.diskPrealloc /\ ~w.tor[t].completed

\* Missing files that the user does not want back are an error, but the slot
\* sets a variable that hides the flag it should clear: the start goes on.  Without
\* an allocation loadStats reads back that there is still one to do.
start(w, t) ==
    IF w.tor[t].running \/ w.tor[t].moving THEN w
    ELSE IF trouble[t] = "io" THEN [w EXCEPT !.tor[t].error = TRUE]
    ELSE [w EXCEPT !.tor[t] =
            [@ EXCEPT !.running = TRUE,
                      !.error = (trouble[t] = "missing"),
                      !.allocating = StartsAllocating(w, t),
                      !.autostart = @ \/ ~StartsAllocating(w, t)]]

\* A preallocation that is stopped half way is done again by the next start
Stopped(w, t, user) ==
    [w EXCEPT !.tor[t] =
        [@ EXCEPT !.running = FALSE,
                  !.allocating = FALSE,
                  !.autostart = @ /\ ~(user /\ w.tor[t].running),
                  !.priority = IF user /\ w.tor[t].running THEN 0 ELSE @]]

---------------------------------------------------------------------------
(***************************************************************************)
(* QueueManager::start, stop within the manager, and orderQueue            *)
(***************************************************************************)
HasFreeSlot(w, t) ==
    LET kind == Kind(w, t)
    IN  Limit(w, kind) = 0 \/ getNumRunning(w, kind) < Limit(w, kind)

\* Whether a download short of disk space starts is a setting; a seed over its
\* share ratio starts if the user says so, which also takes it off the queue.
QMStart(w, t, user) ==
    LET v == IF user THEN setPriority(w, t, 0) ELSE w
    IN  IF w.tor[t].check = "running" \/ ~(user \/ HasFreeSlot(w, t))
        THEN w
        ELSE IF ~v.tor[t].completed /\ trouble[t] = "space"
        THEN setPriority(v, t, 0)
        ELSE IF v.tor[t].completed /\ v.tor[t].over
        THEN IF options.ignore_ratio
             THEN start([setPriority(v, t, 0) EXCEPT !.tor[t].over = FALSE], t)
             ELSE v
        ELSE start(v, t)

\* The torrents the manager may start or stop, in the order of the list
Queue(w, kind) ==
    SelectSeq(w.downloads, LAMBDA t : /\ ~UserControlled(w, t)
                                      /\ ~w.tor[t].moving
                                      /\ ~w.tor[t].error
                                      /\ Kind(w, t) = kind)

\* The slots left by the torrents of the user.  The difference may be negative;
\* as the unsigned index at which stopping begins it is then beyond the queue.
SlotsLeft(w, kind) == Limit(w, kind) - Cardinality(UserRunning(w, kind))
StopFromNext(w, kind) == SlotsLeft(w, kind) + 1
StopFrom(w, kind) ==
    IF SlotsLeft(w, kind) < 0 THEN Len(w.downloads) ELSE SlotsLeft(w, kind)

StopSurplus(w, kind) ==
    LET queue == Queue(w, kind)
        surplus == {queue[i] : i \in {j \in DOMAIN queue : j > StopFrom(w, kind)}}
        stops == {t \in surplus : w.tor[t].running /\ w.tor[t].check # "running"}
    IN  IF Limit(w, kind) = 0 THEN w
        ELSE [w EXCEPT !.tor = [t \in Torrents |->
                 IF t \in stops THEN Stopped(w, t, FALSE).tor[t] ELSE @[t]]]

\* A torrent that fails leaves the queue and its slot; one that is refused for
\* another reason uses up the slot until the queue is ordered again.
StartOne(a, t) ==
    LET v == QMStart(a.w, t, FALSE)
    IN  IF a.counter >= a.slots THEN a
        ELSE IF a.w.tor[t].running THEN [a EXCEPT !.counter = @ + 1]
        ELSE IF v.tor[t].error THEN [a EXCEPT !.w = setPriority(v, t, 0)]
        ELSE [a EXCEPT !.w = v, !.counter = @ + 1]

StartQueue(w, queue, slots) ==
    FoldLeft(StartOne, [w |-> w, counter |-> 0, slots |-> slots], queue).w

Ordered(w) ==
    LET s == Sorted(w)
        down == Queue(s, "download")
        seed == Queue(s, "seed")
        Slots(kind, queue) == IF Limit(s, kind) = 0 THEN Len(queue) ELSE SlotsLeft(s, kind)
        kept == StopSurplus(StopSurplus(s, "download"), "seed")
        all == SelectSeq(s.downloads, LAMBDA t : t \in Range(down) \cup Range(seed))
    IN  IF w.max_downloads = 0 /\ w.max_seeds = 0
        THEN StartQueue(s, all, Len(all))
        ELSE StartQueue(StartQueue(kept, down, Slots("download", down)),
                        seed, Slots("seed", seed))

OrderWhilePaused(w) == Ordered(w)
orderQueue(w) == IF w.paused THEN w ELSE Ordered(w)

\* TorrentControl::stop called from outside orderQueue: the slot of its signal
\* orders the queue
stop(w, t, user) == orderQueue(Stopped(w, t, user))

QMStop(w, t, user) ==
    LET v == IF w.tor[t].running THEN stop(w, t, user) ELSE w
    IN  IF w.tor[t].check = "running" THEN w
        ELSE IF user THEN setPriority(v, t, 0) ELSE v

---------------------------------------------------------------------------
(***************************************************************************)
(* The other calls of the manager                                          *)
(***************************************************************************)
\* A torrent that joins the queue has the lowest place: those in front move up,
\* as far as the first torrent of the user in the list
torrentAdded(w, t) ==
    LET users == {i \in DOMAIN w.downloads : UserControlled(w, w.downloads[i])}
        front == {w.downloads[i] : i \in {j \in DOMAIN w.downloads : \A u \in users : j < u}}
        raised == [s \in Torrents |-> IF s \in front
                     THEN [w.tor[s] EXCEPT !.priority = @ + 1] ELSE w.tor[s]]
    IN  orderQueue(setPriority([w EXCEPT !.tor = raised], t, 1))

enqueue(w, t) ==
    IF w.tor[t].completed /\ w.tor[t].over THEN w ELSE torrentAdded(w, t)

\* Those of the same kind in front of t move down, as far as the first behind it
dequeue(w, t) ==
    LET Same(s) == s # t /\ Kind(w, s) = Kind(w, t)
        behind == {i \in DOMAIN w.downloads : /\ Same(w.downloads[i])
                     /\ w.tor[w.downloads[i]].priority < w.tor[t].priority}
        front == {w.downloads[i] : i \in {j \in DOMAIN w.downloads :
                     Same(w.downloads[j]) /\ \A b \in behind : j < b}}
        lowered == [s \in Torrents |-> IF s \in front
                     THEN [w.tor[s] EXCEPT !.priority = @ - 1] ELSE w.tor[s]]
    IN  orderQueue(setPriority([w EXCEPT !.tor = lowered], t, 0))

queue(w, t) == IF UserControlled(w, t) THEN enqueue(w, t) ELSE dequeue(w, t)

torrentFinished(w, t) ==
    LET v == setPriority(w, t, 0)
    IN  orderQueue(IF options.keep_seeding THEN torrentAdded(v, t)
                                           ELSE QMStop(v, t, TRUE))

Chosen(w, t, kinds) == Kind(w, t) \in kinds

startall(w, kinds) ==
    FoldLeft(LAMBDA v, i : LET t == v.downloads[i]
                           IN  IF Chosen(v, t, kinds) THEN QMStart(v, t, TRUE) ELSE v,
             w, [i \in DOMAIN w.downloads |-> i])

\* The iterator is a place in the list, and stopping a torrent sorts the list:
\* the torrent that takes its place is not visited.
stopall(w, kinds) ==
    FoldLeft(LAMBDA v, i : LET t == v.downloads[i]
                           IN  IF ~Chosen(v, t, kinds) THEN v
                               ELSE IF v.tor[t].running THEN stop(v, t, TRUE)
                               ELSE setPriority(v, t, 0),
             w, [i \in DOMAIN w.downloads |-> i])

\* setPausedState: the manager is paused before it stops anything, so that
\* nothing is ordered meanwhile
Pause(w) ==
    LET run == {t \in Loaded(w) : w.tor[t].running}
    IN  [w EXCEPT !.paused = TRUE,
                  !.paused_torrents = @ \cup run,
                  !.tor = [t \in Torrents |-> IF t \in run
                              THEN Stopped(w, t, FALSE).tor[t] ELSE @[t]]]

Unpause(w) ==
    LET v == [w EXCEPT !.paused = FALSE, !.paused_torrents = {},
                       !.tor = [t \in Torrents |-> IF t \in w.paused_torrents
                                   THEN start(w, t).tor[t] ELSE @[t]]]
    IN  orderQueue(v)

---------------------------------------------------------------------------
(***************************************************************************)
(* Moving and checking the data of a torrent                               *)
(***************************************************************************)
\* changeOutputDir stops the torrent, which orders the queue, before it notes
\* that the files move.  Either a job moves them, or the move is over at once, or it
\* throws, and then the torrent is not started again.
changeOutputDir(w, t, outcome) ==
    LET v == IF w.tor[t].running THEN stop(w, t, FALSE) ELSE w
        m == [v EXCEPT !.tor[t].restart = w.tor[t].running]
    IN  IF w.tor[t].moving THEN w
        ELSE CASE outcome = "job" -> [m EXCEPT !.tor[t].moving = TRUE]
               [] outcome = "done" -> IF w.tor[t].running THEN start(m, t) ELSE m
               [] outcome = "throws" -> m

moveDataFilesJobDone(w, t) ==
    LET v == [w EXCEPT !.tor[t].moving = FALSE]
    IN  IF v.tor[t].restart THEN start(v, t) ELSE v

\* ScanDialog::execute
Scan(w, t, auto_import) ==
    LET v == IF w.tor[t].running
             THEN IF UserControlled(w, t) THEN stop(w, t, TRUE) ELSE QMStop(w, t, TRUE)
             ELSE w
    IN  [v EXCEPT !.tor[t].check = "running",
                  !.tor[t].scan = [restart |-> auto_import \/ w.tor[t].running,
                                   priority |-> w.tor[t].priority]]

\* afterDataCheck, and the dialog's finished() that it calls
afterDataCheck(w, t, haveAllChunks) ==
    LET v == [w EXCEPT !.tor[t].completed = @ \/ haveAllChunks,
                       !.tor[t].check = "done"]
        scan == w.tor[t].scan
        u == IF ~scan.restart THEN v
             ELSE IF scan.priority = 0 THEN start(v, t)
             ELSE orderQueue(setPriority(v, t, scan.priority))
    IN  [u EXCEPT !.tor[t].check = "no", !.tor[t].scan = NoScan]

---------------------------------------------------------------------------
(***************************************************************************)
(* The actions.  An event is something the user or the disk does.          *)
(***************************************************************************)
\* A session loads the torrents it finds: it starts those of the user that may
\* start by themselves, and orders the queue.
loadExistingTorrent(w, t) ==
    LET v == Sorted([w EXCEPT !.downloads = Append(@, t)])
    IN  IF v.tor[t].autostart /\ UserControlled(v, t) THEN QMStart(v, t, TRUE) ELSE v

Session(list, saved, downloads, seeds) ==
    LET Loads(t) == [Fresh EXCEPT !.priority = saved[t].priority,
                                  !.completed = saved[t].completed,
                                  !.over = saved[t].over,
                                  !.autostart = saved[t].autostart,
                                  !.prealloc = saved[t].prealloc]
        new == [downloads |-> <<>>, tor |-> [t \in Torrents |-> Loads(t)],
                paused |-> FALSE, paused_torrents |-> {},
                max_downloads |-> downloads, max_seeds |-> seeds]
    IN  orderQueue(FoldLeft(loadExistingTorrent, new, list))

\* Some torrents are there from an earlier session, finished or not and in the
\* queue or not
Init ==
    /\ trouble = [t \in Torrents |-> "none"]
    /\ options \in Settings
    /\ \E s \in Sessions :
          LET saved == [t \in Torrents |->
                  [Fresh EXCEPT !.completed = t \in s.completed,
                                !.priority = IF t \in Range(s.queue)
                                             THEN CHOOSE i \in DOMAIN s.queue : s.queue[i] = t
                                             ELSE 0]]
          IN  /\ q = Session(s.list, saved, s.max_downloads, s.max_seeds)
              /\ events = s.events

Event ==
    /\ events > 0
    /\ events' = events - 1
    /\ UNCHANGED options

Quietly == UNCHANGED <<trouble, options, events>>

HasRoom == \A t \in Torrents : q.tor[t].priority < MaxPriority
Idle(t) == t \in Loaded(q) /\ q.tor[t].check = "no"

\* KTorrentCore::init: files that exist are scanned before the torrent is queued
Add(t, user, start_torrent, existing) ==
    /\ Event /\ HasRoom
    /\ t \notin Loaded(q)
    /\ LET a == Sorted([q EXCEPT !.downloads = Append(@, t), !.tor[t] = Fresh])
           s == IF existing THEN Scan(a, t, TRUE) ELSE a
       IN  q' = IF ~user THEN torrentAdded(s, t)
                ELSE orderQueue(IF start_torrent THEN QMStart(s, t, TRUE) ELSE s)
    /\ UNCHANGED trouble

\* KTorrentCore::remove
RemoveTorrent(t) ==
    /\ Event
    /\ Idle(t)
    /\ LET v == QMStop(q, t, FALSE)
       IN  q' = orderQueue([v EXCEPT
                   !.downloads = SelectSeq(@, LAMBDA s : s # t),
                   !.paused_torrents = @ \ {t},
                   !.tor[t] = Fresh])
    /\ UNCHANGED trouble

UserStarts(t) == Event /\ t \in Loaded(q) /\ q' = QMStart(q, t, TRUE) /\ UNCHANGED trouble
UserStops(t) == Event /\ t \in Loaded(q) /\ q' = QMStop(q, t, TRUE) /\ UNCHANGED trouble
UserQueues(t) == Event /\ Idle(t) /\ HasRoom /\ q' = queue(q, t) /\ UNCHANGED trouble
StartAll(kinds) == Event /\ q' = startall(q, kinds) /\ UNCHANGED trouble
StopAll(kinds) == Event /\ q' = stopall(q, kinds) /\ UNCHANGED trouble

\* New limits from the preferences, which then order the queue
SetLimits(downloads, seeds) ==
    /\ Event
    /\ q' = orderQueue([q EXCEPT !.max_downloads = downloads, !.max_seeds = seeds])
    /\ UNCHANGED trouble

\* QueueDialog::writeQueue: the torrents of each kind that the user leaves in
\* the queue are numbered anew
Numberings ==
    {pri \in [Loaded(q) -> 0..Cardinality(Loaded(q))] :
        \A kind \in Kinds :
            LET queued == {t \in Loaded(q) : pri[t] # 0 /\ Kind(q, t) = kind}
            IN  {pri[t] : t \in queued} = 1..Cardinality(queued)}

WriteQueue ==
    /\ Event
    /\ \E pri \in Numberings :
          q' = orderQueue([q EXCEPT !.tor = [t \in Torrents |->
                  IF t \in Loaded(q) THEN [@[t] EXCEPT !.priority = pri[t]] ELSE @[t]]])
    /\ UNCHANGED trouble

\* KTorrentCore::setPausedState, from a plugin
SetPaused ==
    /\ Event
    /\ q' = IF q.paused THEN Unpause(q) ELSE Pause(q)
    /\ UNCHANGED trouble

\* KTorrentCore::changeDataDir pauses everything while the data directories of
\* the torrents move; an exception leaves the manager paused.
ChangeDataDir(throws) ==
    /\ Event
    /\ q' = IF throws THEN Pause(q) ELSE Unpause(Pause(q))
    /\ UNCHANGED trouble

Outcomes == {"job", "done", "throws"}
Move(t, outcome) ==
    Event /\ t \in Loaded(q) /\ q' = changeOutputDir(q, t, outcome) /\ UNCHANGED trouble
MoveDone(t) == q.tor[t].moving /\ q' = moveDataFilesJobDone(q, t) /\ Quietly

StartScan(t) == Event /\ Idle(t) /\ q' = Scan(q, t, FALSE) /\ UNCHANGED trouble
CheckerDone(t) ==
    q.tor[t].check = "running" /\ q' = [q EXCEPT !.tor[t].check = "done"] /\ Quietly
AfterCheck(t, haveAllChunks) ==
    q.tor[t].check = "done" /\ q' = afterDataCheck(q, t, haveAllChunks) /\ Quietly

\* Faults of the disk come and go
Fault(t, f) ==
    /\ Event
    /\ trouble[t] # f
    /\ trouble' = [trouble EXCEPT ![t] = f]
    /\ UNCHANGED q

\* onExit stops everything, with the queue out of order from then on; the next
\* session loads what was saved
Restart ==
    /\ Event
    /\ LET saved == [t \in Torrents |-> IF q.tor[t].running
                        THEN Stopped(q, t, FALSE).tor[t] ELSE q.tor[t]]
       IN  q' = Session(q.downloads, saved, q.max_downloads, q.max_seeds)
    /\ UNCHANGED trouble

---------------------------------------------------------------------------
(***************************************************************************)
(* TorrentControl::update, which the core's timer calls for a torrent that *)
(* runs and is not being checked                                           *)
(***************************************************************************)
Updated(t) ==
    /\ t \in Loaded(q)
    /\ q.tor[t].check = "no"
    /\ q.tor[t].running
    /\ ~q.tor[t].moving

StopAfterError(t) ==
    Updated(t) /\ q.tor[t].error /\ q' = stop(q, t, FALSE) /\ Quietly

PreallocationDone(t) ==
    /\ Updated(t) /\ ~q.tor[t].error /\ q.tor[t].allocating
    /\ q' = IF trouble[t] \in {"io", "space"}
            THEN [q EXCEPT !.tor[t].error = TRUE, !.tor[t].allocating = FALSE]
            ELSE [q EXCEPT !.tor[t].allocating = FALSE, !.tor[t].prealloc = FALSE,
                           !.tor[t].autostart = TRUE]
    /\ Quietly

\* The rest of update, for a torrent that is really up
Works(t) == Updated(t) /\ ~q.tor[t].error /\ ~q.tor[t].allocating

ErrorInUpdate(t) ==
    /\ Works(t) /\ trouble[t] = "io"
    /\ q' = [q EXCEPT !.tor[t].error = TRUE]
    /\ Quietly

\* KTorrentCore::torrentFinished, then the move to the directory of finished files
Finish(t) ==
    /\ Event
    /\ Works(t) /\ ~q.tor[t].completed /\ HasRoom
    /\ LET c == [q EXCEPT !.tor[t].completed = TRUE]
           s == IF options.keep_seeding THEN c ELSE stop(c, t, FALSE)
           f == torrentFinished(s, t)
       IN  IF options.useCompletedDir
           THEN \E outcome \in Outcomes : q' = changeOutputDir(f, t, outcome)
           ELSE q' = f
    /\ UNCHANGED trouble

\* Corrupted data, or files selected again: a seed has something to download
Incomplete(t) ==
    /\ Event
    /\ Works(t) /\ q.tor[t].completed
    /\ q' = [q EXCEPT !.tor[t].completed = FALSE]
    /\ UNCHANGED trouble

\* overMaxRatio and overMaxSeedTime, then the slot of seedingAutoStopped
SeedingLimitReached(t) ==
    /\ Event
    /\ Works(t) /\ q.tor[t].completed
    /\ LET v == setPriority([q EXCEPT !.tor[t].over = TRUE], t, 0)
       IN  q' = orderQueue(stop(v, t, TRUE))
    /\ UNCHANGED trouble

LowDiskSpace(t) ==
    /\ Works(t) /\ ~q.tor[t].completed /\ trouble[t] = "space"
    /\ q' = QMStop(q, t, FALSE)
    /\ Quietly

---------------------------------------------------------------------------
Update(t) ==
    \/ StopAfterError(t)
    \/ PreallocationDone(t)
    \/ ErrorInUpdate(t)
    \/ Finish(t)
    \/ LowDiskSpace(t)

Next ==
    \/ StartAll(Kinds) \/ \E k \in Kinds : StartAll({k})
    \/ StopAll(Kinds) \/ \E k \in Kinds : StopAll({k})
    \/ SetPaused \/ Restart \/ WriteQueue
    \/ \E throws \in BOOLEAN : ChangeDataDir(throws)
    \/ \E downloads, seeds \in Limits : SetLimits(downloads, seeds)
    \/ \E t \in Torrents :
          \/ \E user, start_torrent, existing \in BOOLEAN :
                Add(t, user, start_torrent, existing)
          \/ RemoveTorrent(t) \/ UserStarts(t) \/ UserStops(t) \/ UserQueues(t)
          \/ \E outcome \in Outcomes : Move(t, outcome)
          \/ MoveDone(t) \/ StartScan(t) \/ CheckerDone(t)
          \/ \E all \in BOOLEAN : AfterCheck(t, all)
          \/ \E f \in Troubles \cup {"none"} : Fault(t, f)
          \/ Incomplete(t) \/ SeedingLimitReached(t)
          \/ Update(t)

Spec == Init /\ [][Next]_vars

---------------------------------------------------------------------------
\* What runs in the queue and could be stopped by the manager
Steered(w, kind) ==
    {t \in Running(w, kind) : /\ ~UserControlled(w, t) /\ ~w.tor[t].moving
                              /\ ~w.tor[t].error /\ w.tor[t].check # "running"}

\* What waits in the queue for a slot
Waiting(w, t) ==
    /\ ~UserControlled(w, t) /\ ~w.tor[t].running /\ ~w.tor[t].moving
    /\ ~w.tor[t].error /\ w.tor[t].check # "running"
    /\ ~(w.tor[t].completed /\ w.tor[t].over)

\* What orderQueue lets use up a slot although it does not start
Refused(w, t) ==
    \/ w.tor[t].check = "running"
    \/ w.tor[t].completed /\ w.tor[t].over
    \/ trouble[t] = "space"

\* Whenever the queue is ordered, whatever happened before: the torrents of the
\* queue that run fit in the slots the user's torrents leave (unless those are
\* more than the limit: then orderQueue stops nothing), and a torrent waits only
\* if there is no slot or if orderQueue gave it to one that was refused.
QueueSettles ==
    LET w == orderQueue(q)
    IN  /\ TypeOK
        /\ ~q.paused => \A kind \in Kinds :
            /\ \/ Limit(w, kind) = 0
               \/ SlotsLeft(w, kind) < 0
               \/ Cardinality(Steered(w, kind)) <= SlotsLeft(w, kind)
            /\ \A t \in Loaded(w) :
                  Waiting(w, t) /\ Kind(w, t) = kind /\ HasFreeSlot(w, t) =>
                      \E r \in Loaded(w) : Refused(q, r)

\* The torrents of the queue behind its slots, as orderQueue counts them
BehindSlots(w) ==
    UNION {LET all == Queue(w, kind)
           IN  {all[i] : i \in {j \in DOMAIN all : Limit(w, kind) # 0 /\ j > SlotsLeft(w, kind)}}
               : kind \in Kinds}

\* While the manager is paused no torrent of the queue comes up, except one whose files were
\* moved or scanned: those ends start it again by themselves.  The pause ends with every
\* torrent that it stopped up again, those of the user and those of the queue, unless its
\* files are moving, the disk refuses it, or it is in the queue with others in front of it
\* in all the slots there are by then.  What the user had running when the program ends
\* runs in the next session, unless it was still allocating or the disk refuses it.
PausedTorrentsResume ==
    [][/\ q.paused /\ q'.paused =>
             \A t \in Loaded(q) :
                 q'.tor[t].running /\ ~q.tor[t].running /\ ~UserControlled(q', t)
                     => \/ q.tor[t].moving /\ q.tor[t].restart
                        \/ q.tor[t].check = "done" /\ q.tor[t].scan.priority = 0
       /\ q.paused /\ ~q'.paused /\ Loaded(q') = Loaded(q) =>
             \/ /\ q.paused_torrents \subseteq Loaded(q)
                /\ \A t \in q.paused_torrents :
                      ~q.tor[t].moving /\ trouble[t] # "io" =>
                          q'.tor[t].running \/ t \in BehindSlots(q')
             \/ Restart
       /\ (\E t \in Loaded(q) :
             /\ UserControlled(q, t) /\ q.tor[t].running /\ ~q.tor[t].allocating
             /\ trouble[t] = "none" /\ ~q'.tor[t].running) => ~Restart]_vars
=============================================================================
