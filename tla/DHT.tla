--------------------------------- MODULE DHT ---------------------------------
(***************************************************************************)
(* The distributed hash table of libktorrent: the RPC server with its      *)
(* table of calls and its queue (rpcserver.cpp, rpccall.cpp), one bucket   *)
(* of the routing table (kbucket.cpp, node.cpp), the tasks that look up    *)
(* nodes and announce a torrent (task.cpp, nodelookup.cpp,                 *)
(* announcetask.cpp, taskmanager.cpp, dht.cpp), and the announcer of one   *)
(* torrent (dhttrackerbackend.cpp).                                        *)
(*                                                                         *)
(* Everything runs on the main thread, one datagram, timer or command per  *)
(* step.  The network is any datagram at any time: the server recognises   *)
(* an answer by its transaction id alone, so late, repeated and misplaced  *)
(* answers are answers.  The members of the objects that handlers call     *)
(* into are one record, d, that the operators named after the functions    *)
(* map to its next value.                                                  *)
(***************************************************************************)
EXTENDS Naturals, FiniteSets, Sequences, SequencesExt

CONSTANTS
    Nodes,          \* the other nodes of the network
    Neighbours,     \* the sets of nodes another node may name
    Tables,         \* routing tables of earlier sessions
    TaskIds,        \* names of task objects that live at the same time
    None,           \* no call, task or node
    K,              \* dht::K, entries of a bucket and announces of a task
    NumMtids,       \* transaction ids, 256 in the code
    MaxReqs,        \* MAX_CONCURRENT_REQS of a task, 16 in the code
    MaxTasks,       \* running tasks, 7 in the code
    Spare,          \* calls kept free of new tasks, 16 in the code
    MaxBusy,        \* pings of a bucket at a time, 2 in the code
    BadAfter,       \* failures of an entry that is not bad yet, 2 in the code
    MaxRsp,         \* responses a lookup takes at most, 50 in the code
    FirstLookup,    \* messages received before the first lookup, 3 in the code
    MaxPending,     \* bound: nodes that wait for a place in the bucket
    MaxQueue,       \* bound: calls that wait for a transaction id
    MaxEvents       \* bound: requests, PORT messages, misplaced answers and
                    \* resolved names of others, entries and buckets that get
                    \* old, stops of the torrent and of the DHT,
                    \* and announces the user asks for

ASSUME DHTAssumption ==
    /\ {K, NumMtids, MaxReqs, MaxTasks, MaxBusy} \subseteq Nat \ {0}
    /\ {Spare, BadAfter, MaxRsp, FirstLookup} \subseteq Nat
    /\ None \notin Nodes \cup TaskIds

VARIABLES
    d,              \* calls, bucket, tasks and task manager of a running DHT
    running,        \* DHT::running
    backend,        \* DHTTrackerBackend: started, curr_task, timer, and
                    \* announced: it has announced since it was started
    table,          \* the saved routing table
    events          \* how many of the bounded events have happened

vars == <<d, running, backend, table, events>>

Mtids == 0 .. NumMtids - 1
NoTask == [kind |-> "none", status |-> "free", todo |-> <<>>, visited |-> {},
           answered |-> <<>>, announced |-> {}, out |-> 0, rsp |-> 0]

Fresh(n) == [node |-> n, good |-> TRUE, failed |-> 0, pings |-> 0]

\* What is written of the entries, and what is made of it: they are as good as
\* new.
SavedTable(s) == [i \in DOMAIN s.entries |-> s.entries[i].node]
LoadedTable(saved) == [i \in DOMAIN saved |-> Fresh(saved[i])]

\* The objects DHT::start creates, with the entries loadTable reads.
NewDHT(loaded) ==
    [calls |-> [m \in Mtids |-> None], queue |-> <<>>, next_mtid |-> 0,
     entries |-> LoadedTable(loaded), pending |-> <<>>,
     refresh |-> None, tasks |-> [t \in TaskIds |-> NoTask],
     tman |-> {}, queued |-> <<>>, num_receives |-> 0, done |-> {}]

----------------------------------------------------------------------------
\* RPCServer

Active(s) == {m \in Mtids : s.calls[m] # None}

NextFree(s) ==
    LET after(i) == (s.next_mtid + i) % NumMtids IN
    after(CHOOSE i \in Mtids : /\ s.calls[after(i)] = None
                               /\ \A j \in 0 .. i - 1 : s.calls[after(j)] # None)

\* A call takes the next free transaction id.
SendCall(s, c) ==
    LET m == NextFree(s) IN
    [s EXCEPT !.calls[m] = c, !.next_mtid = (m + 1) % NumMtids]

doCall(s, c) ==
    IF Active(s) = Mtids THEN [s EXCEPT !.queue = Append(@, c)]
                         ELSE SendCall(s, c)

doQueuedCalls(s) ==
    LET Due(r, c) == IF Active(r) = Mtids
                     THEN [r EXCEPT !.queue = Append(@, c)] ELSE SendCall(r, c)
    IN FoldLeft(Due, [s EXCEPT !.queue = <<>>], s.queue)

ErasedOnly(s, m) == [s EXCEPT !.calls[m] = None]
Erased(s, m) == doQueuedCalls([s EXCEPT !.calls[m] = None])

Call(to, method, by, repl) ==
    [to |-> to, method |-> method, by |-> by, repl |-> repl]

\* Calls that someone waits for, sent or still queued.
CallsBy(s, by) ==
    Cardinality({m \in Active(s) : s.calls[m].by = by})
        + Len(SelectSeq(s.queue, LAMBDA c : c.by = by))

----------------------------------------------------------------------------
\* KBucket

isBad(e) == ~e.good /\ (e.failed > BadAfter \/ e.pings > BadAfter)

FirstEntry(s, Test(_)) ==
    LET is == {i \in DOMAIN s.entries : Test(s.entries[i])} IN
    IF is = {} THEN 0 ELSE CHOOSE i \in is : \A j \in is : i <= j

Replace(s, i, n) ==
    [s EXCEPT !.entries = Append(RemoveAt(@, i), Fresh(n))]

pingQuestionable(s, n) ==
    LET i == FirstEntry(s, LAMBDA e : ~e.good) IN
    IF CallsBy(s, "bucket") >= MaxBusy
    THEN [s EXCEPT !.pending = Append(@, n)]
    ELSE IF i = 0 THEN s
    ELSE doCall([s EXCEPT !.entries[i].pings = @ + 1],
                Call(s.entries[i].node, "ping", "bucket", n))

\* replaceBadEntry, and a ping when there is no bad one.
ReplaceOrPing(s, n) ==
    LET i == FirstEntry(s, isBad) IN
    IF i # 0 THEN Replace(s, i, n) ELSE pingQuestionable(s, n)

insert(s, n) ==
    LET i == FirstEntry(s, LAMBDA e : e.node = n) IN
    IF i # 0 THEN Replace(s, i, n)
    ELSE IF Len(s.entries) < K THEN [s EXCEPT !.entries = Append(@, Fresh(n))]
    ELSE ReplaceOrPing(s, n)

\* The call that is over no longer counts as a ping of the bucket.
PingOver(s, m) == [s EXCEPT !.calls[m].by = None]

BucketResponse(s, m) == ReplaceOrPing(PingOver(s, m), s.calls[m].repl)

NextPending(s) ==
    IF CallsBy(s, "bucket") < MaxBusy /\ s.pending # <<>>
    THEN ReplaceOrPing([s EXCEPT !.pending = Tail(@)], Head(s.pending))
    ELSE s

BucketTimeout(s, m) ==
    LET c == s.calls[m]
        i == FirstEntry(s, LAMBDA e : e.node = c.to)
    IN NextPending(PingOver(IF i = 0 THEN s ELSE Replace(s, i, c.repl), m))

\* Node::onTimeout: the entry has failed to answer a query.
RequestTimeout(s, n) ==
    LET i == FirstEntry(s, LAMBDA e : e.node = n) IN
    IF i = 0 THEN s
    ELSE [s EXCEPT !.entries[i].failed = IF @ > BadAfter THEN @ ELSE @ + 1]

----------------------------------------------------------------------------
\* Tasks

isFinished(s, t) == s.tasks[t].status = "finished"
canDoRequest(s, t) == s.tasks[t].out < MaxReqs

\* done and kill: s.done collects the tasks whose finished signal this step
\* emits; the announcer takes them up at the end of the step.  The lists of a
\* finished task matter only if it is still to be started.
Done(s, t) ==
    [s EXCEPT !.tasks[t] = [(IF @.status = "queued" THEN @ ELSE NoTask) EXCEPT
                               !.kind = s.tasks[t].kind, !.status = "finished"],
              !.done = @ \cup {t},
              !.refresh = IF @ = t THEN None ELSE @]

rpcCall(s, t, n, method) ==
    doCall([s EXCEPT !.tasks[t].out = @ + 1], Call(n, method, t, None))

\* One entry of answered: announce to the node unless that is done.
AnnounceTo(s, t, n) ==
    IF ~canDoRequest(s, t) THEN [s EXCEPT !.tasks[t].answered = Append(@, n)]
    ELSE IF n \in s.tasks[t].announced THEN s
    ELSE [rpcCall(s, t, n, "announce_peer") EXCEPT !.tasks[t].announced = @ \cup {n}]

\* One entry of todo: ask the node unless it has been asked.
Ask(s, t, n) ==
    IF ~canDoRequest(s, t) THEN [s EXCEPT !.tasks[t].todo = Append(@, n)]
    ELSE IF n \in s.tasks[t].visited THEN s
    ELSE [rpcCall(s, t, n, IF s.tasks[t].kind = "lookup" THEN "find_node"
                                                         ELSE "get_peers")
            EXCEPT !.tasks[t].visited = @ \cup {n}]

Announced(s, t) ==
    FoldLeft(LAMBDA r, n : AnnounceTo(r, t, n),
             [s EXCEPT !.tasks[t].answered = <<>>], s.tasks[t].answered)

Asked(s, t) ==
    FoldLeft(LAMBDA r, n : Ask(r, t, n),
             [s EXCEPT !.tasks[t].todo = <<>>], s.tasks[t].todo)

Exhausted(k) == k.todo = <<>> /\ k.answered = <<>> /\ k.out = 0 /\ k.status # "finished"
Enough(k) == IF k.kind = "lookup" THEN k.rsp > MaxRsp
                                  ELSE Cardinality(k.announced) >= K

\* NodeLookup::update and AnnounceTask::update.
UpdateTask(s, t) ==
    LET r == Asked(Announced(s, t), t) IN
    IF Exhausted(r.tasks[t]) \/ Enough(r.tasks[t]) THEN Done(r, t) ELSE r

\* callFinished: what an answer adds to the task.  A response has the type
\* "nodes", "values" or "empty".
CallFinished(k, n, rsp) ==
    LET new == rsp.nodes \ (Range(k.todo) \cup k.visited) IN
    CASE rsp.type = "nodes" ->
            [k EXCEPT !.todo = @ \o SetToSeq(new),
                      !.rsp = IF k.kind = "lookup" THEN @ + 1 ELSE @]
      [] rsp.type = "values" /\ n \notin Range(k.answered) \cup k.announced ->
            [k EXCEPT !.answered = Append(@, n)]
      [] OTHER -> k

\* Task::onResponse and Task::onTimeout.
CallOver(s, t, k) ==
    LET r == [s EXCEPT !.tasks[t] = k] IN
    IF isFinished(s, t) \/ s.tasks[t].status = "free" THEN s
    ELSE UpdateTask(r, t)

OneLess(s, t) == [s EXCEPT !.tasks[t].out = IF @ > 0 THEN @ - 1 ELSE 0]

TaskResponse(s, m, n, rsp) ==
    LET c == s.calls[m]
        r == OneLess(s, c.by)
    IN CallOver(r, c.by, CallFinished(r.tasks[c.by], n, rsp))

TimeoutOnlyCounted(s, m) == OneLess(s, s.calls[m].by)
TaskTimeout(s, m) ==
    LET r == OneLess(s, s.calls[m].by) IN CallOver(r, s.calls[m].by, r.tasks[s.calls[m].by])

----------------------------------------------------------------------------
\* DHT and TaskManager

canStartTask(s) ==
    /\ Cardinality(s.tman) < MaxTasks
    /\ NumMtids - Cardinality(Active(s)) > Spare

FreeIds(s) == {t \in TaskIds : s.tasks[t].status = "free"}
CanCreate(s) == FreeIds(s) # {}
NewId(s) == CHOOSE t \in FreeIds(s) : TRUE

KnownNodes(s) == {s.entries[i].node : i \in DOMAIN s.entries}

\* announce, findNode and refreshBucket, if the table is not empty: the new
\* task starts from the nodes of the table, at once or when there is room.
AddTask(s, kind) ==
    LET t == NewId(s)
        new(status) == [s EXCEPT !.tasks[t] =
            [NoTask EXCEPT !.kind = kind, !.status = status,
                           !.todo = SetToSeq(KnownNodes(s))]]
    IN IF canStartTask(s)
       THEN UpdateTask([new("running") EXCEPT !.tman = @ \cup {t}], t)
       ELSE [new("queued") EXCEPT !.queued = Append(@, t)]

\* Node::recieved, with the lookup of our own id after the first messages.
recieved(s, n) ==
    LET r == insert([s EXCEPT !.num_receives = IF @ > FirstLookup THEN @ ELSE @ + 1], n) IN
    IF s.num_receives + 1 = FirstLookup THEN AddTask(r, "lookup") ELSE r

\* removeFinishedTasks: forget the finished ones, start queued ones.  The
\* calls of a task that is deleted have no listener any more, so that their
\* method does not matter.
Forgotten(s, gone) ==
    LET Orphan(c) == IF c # None /\ c.by \in gone THEN Call(c.to, "ping", None, None) ELSE c IN
    [s EXCEPT !.tman = @ \ gone,
              !.tasks = [t \in TaskIds |-> IF t \in gone THEN NoTask ELSE s.tasks[t]],
              !.calls = [m \in Mtids |-> Orphan(s.calls[m])],
              !.queue = [i \in DOMAIN s.queue |-> Orphan(s.queue[i])]]

\* Task::start of a queued task, a killed one included.
Started(s, t) ==
    UpdateTask([s EXCEPT !.tasks[t].status = IF @ = "queued" THEN "running" ELSE @,
                         !.tman = @ \cup {t}], t)

StartQueued(s) ==
    LET Due(r, t) == IF canStartTask(r) /\ r.queued = <<>> THEN Started(r, t)
                     ELSE [r EXCEPT !.queued = Append(@, t)]
    IN FoldLeft(Due, [s EXCEPT !.queued = <<>>], s.queued)

removeFinishedTasks(s) ==
    StartQueued(Forgotten(s, {t \in s.tman : isFinished(s, t)}))

----------------------------------------------------------------------------
\* DHTTrackerBackend

\* doRequest on the DHT s: a task is made unless there is one or the table is
\* empty.
WillAnnounce(b, s) == b.task = None /\ s.entries # <<>>

\* The finished signals of the step reach the announcer.
OnFinishedNoTimer(b, s) == IF b.task \in s.done THEN [b EXCEPT !.task = None] ELSE b
onFinished(b, s) ==
    IF b.task \in s.done THEN [b EXCEPT !.task = None, !.timer = TRUE] ELSE b

\* End of a handler: its signals are delivered.
Commit(s, b) ==
    /\ Len(s.pending) <= MaxPending /\ Len(s.queue) <= MaxQueue
    /\ d' = [s EXCEPT !.done = {}] /\ backend' = onFinished(b, s)

doRequest(s, b) ==
    IF WillAnnounce(b, s)
    THEN /\ CanCreate(s)
         /\ Commit(AddTask(s, "announce"),
                   [b EXCEPT !.task = NewId(s), !.announced = TRUE])
    ELSE Commit(s, b)

----------------------------------------------------------------------------
Init ==
    /\ d = NewDHT(<<>>)
    /\ running = FALSE
    /\ backend = [started |-> FALSE, task |-> None, timer |-> FALSE, announced |-> FALSE]
    /\ table \in Tables
    /\ events = 0

Event == events < MaxEvents /\ events' = events + 1

\* A message from a node may start the first lookup.
CanReceive == d.num_receives + 1 = FirstLookup => CanCreate(d)

\* Another node pings us: it is answered and enters the table.  findNode,
\* getPeers and announce enter it in the same way, and otherwise only answer or
\* store in the database of peers.
ping(n) ==
    /\ running /\ Event /\ CanReceive
    /\ Commit(recieved(d, n), backend)
    /\ UNCHANGED <<running, table>>

\* A peer or a torrent names a node, and we ping it.
portRecieved(n) ==
    /\ running /\ Event
    /\ Commit(doCall(d, Call(n, "ping", None, None)), backend)
    /\ UNCHANGED <<running, table>>

\* ParseRsp: what a datagram can be, by the method of the call it answers.
ResponseTypes(method) ==
    CASE method = "find_node" -> {"nodes"}
      [] method = "get_peers" -> {"nodes", "values", "empty"}
      [] OTHER -> {"empty"}

Responses(method) ==
    {[type |-> ty, nodes |-> ns] :
        ty \in ResponseTypes(method) \ {"nodes"}, ns \in {{}}}
    \cup {[type |-> ty, nodes |-> ns] :
        ty \in ResponseTypes(method) \cap {"nodes"}, ns \in Neighbours}

Notified(s, m, n, rsp) ==
    IF s.calls[m].by = None THEN s
    ELSE IF s.calls[m].by = "bucket" THEN BucketResponse(s, m)
    ELSE TaskResponse(s, m, n, rsp)

\* readPacket: a response with a known transaction id.  It need not come from
\* the node that was asked: a late answer may meet a later call.
Response(m, n) ==
    /\ running /\ d.calls[m] # None /\ CanReceive
    /\ \/ n = d.calls[m].to /\ UNCHANGED events
       \/ n # d.calls[m].to /\ Event
    /\ \E rsp \in Responses(d.calls[m].method) :
        Commit(Erased(Notified(recieved(d, n), m, n, rsp), m), backend)
    /\ UNCHANGED <<running, table>>

TimeoutNotified(s, m) ==
    IF s.calls[m].by = None THEN s
    ELSE IF s.calls[m].by = "bucket" THEN BucketTimeout(s, m) ELSE TaskTimeout(s, m)

\* RPCCall::onTimeout: the listeners, then the table, then the next calls.
Timeout(m) ==
    /\ running /\ d.calls[m] # None
    /\ Commit(Erased(RequestTimeout(TimeoutNotified(d, m), d.calls[m].to), m), backend)
    /\ UNCHANGED <<running, table, events>>

\* Fifteen minutes pass without a word from an entry.
Silent(i) ==
    /\ running /\ i \in DOMAIN d.entries /\ d.entries[i].good
    /\ Event
    /\ d' = [d EXCEPT !.entries[i].good = FALSE]
    /\ UNCHANGED <<running, backend, table>>

\* The resolver has found a node the torrent names.
onResolverResults(t) ==
    /\ running /\ d.tasks[t].kind = "announce"
    /\ Event
    /\ \E n \in Nodes :
        d' = [d EXCEPT !.tasks[t].todo = Append(@, n)]
    /\ UNCHANGED <<running, backend, table>>

NeedsRefresh(s) == s.refresh = None /\ s.entries # <<>>
refreshBucket(s) == [AddTask(s, "lookup") EXCEPT !.refresh = NewId(s)]

\* DHT::update, every second; a bucket is refreshed when its time has come.
Update ==
    /\ running
    /\ \/ Commit(removeFinishedTasks(d), backend) /\ UNCHANGED events
       \/ /\ NeedsRefresh(d) /\ CanCreate(d)
          /\ Event
          /\ Commit(removeFinishedTasks(refreshBucket(d)), backend)
    /\ UNCHANGED <<running, table>>

\* The torrent is started.
BackendStart ==
    /\ ~backend.started
    /\ LET b == [backend EXCEPT !.started = TRUE, !.announced = FALSE] IN
       IF running THEN doRequest(d, b) ELSE backend' = b /\ UNCHANGED d
    /\ UNCHANGED <<running, table, events>>

\* stop: the kill comes back as a finished task before the timer is stopped.
Killed(s, b) == IF b.task = None THEN s ELSE [Done(s, b.task) EXCEPT !.done = {}]
Stopped(b) == [b EXCEPT !.started = FALSE, !.task = None,
                        !.timer = @ /\ b.task = None]

BackendStop ==
    /\ backend.started /\ Event
    /\ d' = Killed(d, backend) /\ backend' = Stopped(backend)
    /\ UNCHANGED <<running, table>>

\* manualUpdate, by the user.
ManualUpdate ==
    /\ running /\ backend.started /\ Event
    /\ doRequest(d, backend)
    /\ UNCHANGED <<running, table>>

\* The five minutes after an announce are over.
OnTimeout ==
    /\ backend.timer
    /\ LET b == [backend EXCEPT !.timer = FALSE] IN
       IF running /\ b.started THEN doRequest(d, b) ELSE backend' = b /\ UNCHANGED d
    /\ UNCHANGED <<running, table, events>>

\* DHT::stop: the table is saved and every announcer stopped.
Stop ==
    /\ running /\ Event
    /\ running' = FALSE
    /\ table' = SavedTable(d)
    /\ d' = NewDHT(<<>>) /\ backend' = Stopped(backend)

\* DHT::start: without its key file the node gets a new id and no table.
Start ==
    /\ ~running
    /\ running' = TRUE
    /\ \E loaded \in {table, <<>>} :
        LET s == NewDHT(loaded) IN
        IF backend.started THEN doRequest(s, backend)
                           ELSE d' = s /\ UNCHANGED backend
    /\ UNCHANGED <<table, events>>

Next ==
    \/ \E n \in Nodes : ping(n) \/ portRecieved(n)
    \/ \E m \in Mtids, n \in Nodes : Response(m, n)
    \/ \E m \in Mtids : Timeout(m)
    \/ \E i \in 1 .. K : Silent(i)
    \/ \E t \in TaskIds : onResolverResults(t)
    \/ Update \/ BackendStart \/ BackendStop \/ ManualUpdate \/ OnTimeout
    \/ Stop \/ Start

\* When the timer of a call, the timer of the announcer and the one that
\* drives update() have something to do.
CallTimer(m) == running /\ d.calls[m] # None
AnnounceTimer ==
    backend.timer /\ (running /\ backend.started /\ WillAnnounce(backend, d) => CanCreate(d))
TaskToRemove == running /\ \E t \in d.tman : isFinished(d, t)
TaskToStart == running /\ d.queued # <<>> /\ canStartTask(d)

\* Every timer fires in the end: weak fairness, with the predicates above for
\* ENABLED, which TLC cannot evaluate for actions built from so many calls.
\* Room for a queued task is found sooner or later (strong fairness): update()
\* looks every second, while five minutes pass between two announces.
Spec ==
    /\ Init /\ [][Next]_vars
    /\ []<>~TaskToRemove \/ []<><<Update>>_vars
    /\ <>[]~TaskToStart \/ []<><<Update /\ TaskToStart>>_vars
    /\ []<>~AnnounceTimer \/ []<><<OnTimeout>>_vars
    /\ \A m \in Mtids : []<>~CallTimer(m) \/ []<><<Timeout(m)>>_vars

----------------------------------------------------------------------------
Waiting(t) == d.tasks[t].status = "running"

\* The calls agree with those who wait for them: a call is queued only while
\* every transaction id is taken; a running task has as many calls on the way
\* as it counts, at least one and no more than it may; and a bucket keeps its
\* size and the number of its pings, whatever datagram answers whatever call.
CallsAreAccounted ==
    /\ d.queue # <<>> => Active(d) = Mtids
    /\ \A t \in TaskIds : Waiting(t) =>
        d.tasks[t].out = CallsBy(d, t) /\ d.tasks[t].out \in 1 .. MaxReqs
    /\ Len(d.entries) <= K
    /\ CallsBy(d, "bucket") <= MaxBusy

\* Every task comes to its end and is deleted: its calls are answered or time
\* out, a queued one is started, and none waits for an answer that was given
\* to somebody else.
TasksEnd == \A t \in TaskIds : d.tasks[t].status # "free" ~> d.tasks[t].status = "free"

\* A torrent that has announced itself once goes on doing so, as long as
\* neither it nor the DHT is stopped.
AnnouncesGoOn ==
    (backend.started /\ backend.announced)
        ~> (~backend.started \/ (backend.task # None /\ d.tasks[backend.task].status = "running"))
=============================================================================
