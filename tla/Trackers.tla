----------------------------- MODULE Trackers -----------------------------
(***************************************************************************)
(* The peer source manager of a torrent (peersourcemanager.cpp), its HTTP  *)
(* and UDP trackers (httptracker.cpp, udptracker.cpp) and the datagram     *)
(* socket the UDP trackers share (udptrackersocket.cpp).                   *)
(*                                                                         *)
(* One tracker is current.  The manager's slots are connected to its       *)
(* signals, and are called from inside its operations: a failed request    *)
(* stops the tracker, selects one, and starts it or sets the timer, before *)
(* the tracker's own handler goes on.  A call is an operator from the      *)
(* state to the next one, so that calls compose in the order of the code.  *)
(*                                                                         *)
(* Datagrams may be lost, late and repeated: an answer to any request that *)
(* was sent may come at any time.  HTTP jobs always end, with an answer or *)
(* an error.                                                               *)
(***************************************************************************)
EXTENDS Naturals, FiniteSets, Sequences, SequencesExt

CONSTANTS
    UDP, HTTP,     \* the trackers of the torrent
    Order,         \* all of them in the order of their URLs
    Tier,          \* Tier[t]: the tier of t in the torrent
    Custom,        \* those that the user has added
    FirstN,        \* what the retry counter of a UDP tracker may hold before it is set
    MaxRequests,   \* bound: datagrams sent
    MaxJobs,       \* bound: HTTP jobs made
    MaxCalls       \* bound: calls of the torrent and of the user

Known == UDP \cup HTTP
None == "none"

ASSUME TrackerConstants ==
    /\ Order \in Seq(Known) /\ Range(Order) = Known /\ UDP \cap HTTP = {} /\ None \notin Known
    /\ Tier \in [Known -> Nat]
    /\ Custom \subseteq Known
    /\ FirstN \subseteq Nat
    /\ {MaxRequests, MaxJobs, MaxCalls} \subseteq Nat

VARIABLES
    w,        \* the manager and its trackers
    calls     \* the calls so far

vars == <<w, calls>>

Events == {"none", "completed", "started", "stopped"}

TypeOK ==
    /\ {w.started, w.timer, w.pending} \subseteq BOOLEAN
    /\ w.trackers \subseteq Known
    /\ w.curr \in Known \cup {None}
    /\ w.udp \in [UDP -> [event: Events, started: BOOLEAN, connected: BOOLEAN,
                          transaction_id: Nat, n: Nat, conn_timer: BOOLEAN, taken: Nat]]
    /\ w.http \in [HTTP -> [event: Events, started: BOOLEAN, active: BOOLEAN,
                            jobs: Seq(Events), queue: Seq(Events), failures: Nat]]
    /\ w.transactions \subseteq [id: 1..w.requests, action: {"connect", "announce"}]
    /\ calls \in 0..MaxCalls

---------------------------------------------------------------------------
(***************************************************************************)
(* The UDP tracker.  connected stands for a connection id that is not 0;   *)
(* transaction ids are numbered in the order in which they are made.       *)
(***************************************************************************)
requestPending(v, t) == IF v.curr = t THEN [v EXCEPT !.pending = TRUE] ELSE v

Send(v, t, action) ==
    LET id == v.requests + 1
    IN  [v EXCEPT !.requests = id,
                  !.transactions = @ \cup {[id |-> id, action |-> action]},
                  !.udp[t].transaction_id = id]

sendConnect(v, t) == [Send(v, t, "connect") EXCEPT !.udp[t].conn_timer = TRUE]
sendAnnounce(v, t) == Send(v, t, "announce")

\* An announce with a known connection id starts no timer
UDPRequest(v, t) ==
    requestPending(IF v.udp[t].connected THEN sendAnnounce(v, t)
                   ELSE sendConnect([v EXCEPT !.udp[t].n = 0], t), t)

UDPRequestFor(v, t, event) ==
    UDPRequest([v EXCEPT !.udp[t].event = event, !.udp[t].conn_timer = FALSE], t)

UDPStop(v, t) ==
    IF ~v.udp[t].started THEN v
    ELSE [UDPRequestFor(v, t, "stopped") EXCEPT !.udp[t].started = FALSE]

UDPManualUpdate(v, t) ==
    UDPRequestFor(v, t, IF v.udp[t].started THEN v.udp[t].event ELSE "started")

onConnTimeout(v, t) ==
    LET u == [v EXCEPT !.udp[t].conn_timer = FALSE]
    IN  IF ~v.udp[t].connected THEN UDPRequest(u, t)
        ELSE IF v.udp[t].event = "stopped"
        THEN [u EXCEPT !.udp[t].connected = FALSE, !.udp[t].n = @ + 1]
        ELSE sendConnect([u EXCEPT !.udp[t].connected = FALSE, !.udp[t].n = @ + 1], t)

---------------------------------------------------------------------------
(***************************************************************************)
(* The HTTP tracker.  active is its note of a job, which another job may   *)
(* take over; jobs are those that run.                                     *)
(***************************************************************************)
doAnnounce(v, t, event) ==
    requestPending([v EXCEPT !.http[t].jobs = Append(@, event),
                             !.http[t].active = TRUE,
                             !.jobs = @ + 1], t)

HTTPRequest(v, t) ==
    IF v.http[t].active
    THEN [v EXCEPT !.http[t].queue = Append(@, v.http[t].event)]
    ELSE doAnnounce(v, t, v.http[t].event)

HTTPRequestFor(v, t, event) == HTTPRequest([v EXCEPT !.http[t].event = event], t)

HTTPStop(v, t) ==
    IF ~v.http[t].started THEN v
    ELSE [HTTPRequestFor(v, t, "stopped") EXCEPT !.http[t].started = FALSE]

HTTPManualUpdate(v, t) ==
    HTTPRequestFor(v, t, IF v.http[t].started THEN v.http[t].event ELSE "started")

doAnnounceQueue(v, t) ==
    IF v.http[t].queue = <<>> THEN v
    ELSE doAnnounce([v EXCEPT !.http[t].queue = Tail(@)], t, Head(v.http[t].queue))

---------------------------------------------------------------------------
(***************************************************************************)
(* What the manager asks of a tracker                                      *)
(***************************************************************************)
failureCount(v, t) == IF t \in UDP THEN v.udp[t].n ELSE v.http[t].failures
Started(v, t) == IF t \in UDP THEN v.udp[t].started ELSE v.http[t].started

start(v, t) ==
    IF t \in UDP THEN UDPRequestFor(v, t, "started") ELSE HTTPRequestFor(v, t, "started")
stop(v, t) == IF t \in UDP THEN UDPStop(v, t) ELSE HTTPStop(v, t)
completed(v, t) ==
    IF t \in UDP THEN UDPRequestFor(v, t, "completed")
    ELSE [HTTPRequestFor(v, t, "completed") EXCEPT !.http[t].event = "none"]
manualUpdate(v, t) ==
    IF t \in UDP THEN UDPManualUpdate(v, t) ELSE HTTPManualUpdate(v, t)

---------------------------------------------------------------------------
(***************************************************************************)
(* The manager                                                             *)
(***************************************************************************)
\* The one of ts that comes first in the map of the trackers
FirstOf(ts) ==
    Order[CHOOSE i \in DOMAIN Order : Order[i] \in ts /\ \A j \in 1..(i - 1) : Order[j] \notin ts]

\* The fewest failures, then the lowest tier, then the first URL
selectTracker(v) ==
    LET fewest == {t \in v.trackers :
                      \A s \in v.trackers : failureCount(v, t) <= failureCount(v, s)}
        lowest == {t \in fewest : \A s \in fewest : Tier[t] <= Tier[s]}
    IN  IF v.trackers = {} THEN None ELSE FirstOf(lowest)

switchTracker(v, t) == [v EXCEPT !.curr = t]

onTrackerOK(v) == [v EXCEPT !.timer = @ \/ v.started, !.pending = FALSE]

OnTrackerErrorNoRetry(v) ==
    LET t == selectTracker(v)
    IN  IF ~v.started \/ t = None THEN [v EXCEPT !.pending = FALSE]
        ELSE switchTracker(stop([v EXCEPT !.pending = FALSE], v.curr), t)

\* Without another tracker the current one is tried again after a while; the
\* selected tracker is started at once if nothing failed with it.
onTrackerError(v) ==
    LET t == selectTracker(v)
        u == switchTracker(stop([v EXCEPT !.pending = FALSE], v.curr), t)
    IN  IF ~v.started THEN [v EXCEPT !.pending = FALSE]
        ELSE IF t = None THEN [v EXCEPT !.pending = FALSE, !.timer = TRUE]
        ELSE IF failureCount(u, t) = 0 THEN start(u, t)
        ELSE [u EXCEPT !.timer = TRUE]

\* The signals of a tracker reach the manager only while it is current
requestOK(v, t) == IF v.curr = t THEN onTrackerOK(v) ELSE v
requestFailed(v, t) == IF v.curr = t THEN onTrackerError(v) ELSE v

SelectAndStart(v) ==
    IF selectTracker(v) = None THEN v
    ELSE start(switchTracker(v, selectTracker(v)), selectTracker(v))

---------------------------------------------------------------------------
(***************************************************************************)
(* Calls of the torrent and of the user                                    *)
(***************************************************************************)
HasRoom == w.requests + 4 <= MaxRequests /\ w.jobs + 4 <= MaxJobs
Call == calls < MaxCalls /\ calls' = calls + 1 /\ HasRoom

Start ==
    /\ Call
    /\ ~w.started
    /\ LET v == [w EXCEPT !.started = TRUE]
       IN  w' = IF w.curr = None THEN SelectAndStart(v) ELSE start(v, w.curr)

Stop ==
    /\ Call
    /\ w.started
    /\ LET v == [w EXCEPT !.started = FALSE]
       IN  w' = [(IF w.curr = None THEN v ELSE stop(v, w.curr)) EXCEPT !.timer = FALSE]

Completed ==
    /\ Call
    /\ w.started /\ w.curr # None
    /\ w' = completed(w, w.curr)

ManualUpdate ==
    /\ Call
    /\ w.curr # None
    /\ w' = manualUpdate([w EXCEPT !.timer = FALSE], w.curr)

\* The user chooses a tracker; it is started even if the torrent is not
SetTracker(t) ==
    /\ Call
    /\ t \in w.trackers /\ w.curr # t
    /\ w' = start(switchTracker(IF w.curr = None THEN w ELSE stop(w, w.curr), t), t)

AddTracker(t) ==
    /\ Call
    /\ t \in Custom \ w.trackers /\ w.curr # t
    /\ w' = [w EXCEPT !.trackers = @ \cup {t}]

\* A current tracker that is removed is told to stop and lives on for a while
RemoveTracker(t) ==
    /\ Call
    /\ t \in Custom \cap w.trackers
    /\ w' = IF w.curr # t THEN [w EXCEPT !.trackers = @ \ {t}]
            ELSE SelectAndStart([stop(w, t) EXCEPT !.trackers = @ \ {t}])

RestoreDefault ==
    /\ Call
    /\ Custom \cap w.trackers # {}
    /\ LET left == w.trackers \ Custom
           v == IF w.curr \in Custom THEN stop(w, w.curr) ELSE w
           u == [v EXCEPT !.trackers = left,
                          !.curr = IF @ \notin Custom THEN @
                                   ELSE IF left = {} THEN None ELSE FirstOf(left)]
       IN  w' = IF u.curr # w.curr /\ u.curr # None /\ w.started THEN start(u, u.curr) ELSE u

---------------------------------------------------------------------------
(***************************************************************************)
(* Timers, datagrams and jobs                                              *)
(***************************************************************************)
Quietly == UNCHANGED calls

\* The manager's timer: updateCurrentManually
TimerFires ==
    /\ w.timer /\ HasRoom
    /\ w' = LET v == [w EXCEPT !.timer = FALSE]
            IN  IF w.curr = None THEN v ELSE manualUpdate(v, w.curr)
    /\ Quietly

ConnTimeout(t) ==
    /\ w.udp[t].conn_timer /\ HasRoom
    /\ w' = onConnTimeout(w, t)
    /\ Quietly

\* dataReceived: the socket forgets the transaction and tells the tracker
Taken(t, r) == [w EXCEPT !.transactions = @ \ {r}, !.udp[t].taken = @ + 1]
IsForAny(t, r) == r.id <= w.udp[t].transaction_id
IsFor(t, r) == w.udp[t].transaction_id = r.id

ReceiveConnect(t, r) ==
    /\ r \in w.transactions /\ r.action = "connect" /\ IsFor(t, r) /\ HasRoom
    /\ w' = sendAnnounce([Taken(t, r) EXCEPT !.udp[t].connected = TRUE, !.udp[t].n = 0], t)
    /\ Quietly

ReceiveAnnounce(t, r) ==
    /\ r \in w.transactions /\ r.action = "announce" /\ IsFor(t, r) /\ HasRoom
    /\ LET e == w.udp[t].event
           v == [Taken(t, r) EXCEPT
                    !.udp[t].connected = FALSE,
                    !.udp[t].conn_timer = FALSE,
                    !.udp[t].started = @ \/ e = "started",
                    !.udp[t].event = IF e = "stopped" THEN e ELSE "none"]
       IN  w' = requestOK(v, t)
    /\ Quietly

\* An error, or an answer of the wrong kind
ReceiveError(t, r) ==
    /\ r \in w.transactions /\ IsFor(t, r) /\ HasRoom
    /\ w' = requestFailed(Taken(t, r), t)
    /\ Quietly

\* An answer to a request that has been replaced
ReceiveLate(r) ==
    /\ r \in w.transactions
    /\ \A t \in UDP : ~IsFor(t, r)
    /\ w' = [w EXCEPT !.transactions = @ \ {r}]
    /\ Quietly

\* onAnnounceResult for the i-th job; the queue goes on even if the slots of the
\* manager have already begun a job
Ended(t, i) == [w EXCEPT !.http[t].jobs = RemoveAt(@, i), !.http[t].active = FALSE]
Failed(v, t) == requestFailed([v EXCEPT !.http[t].failures = @ + 1], t)

JobFails(t, i) ==
    /\ i \in DOMAIN w.http[t].jobs /\ HasRoom
    /\ LET v == Ended(t, i)
       IN  w' = doAnnounceQueue(IF w.http[t].jobs[i] = "stopped" THEN v ELSE Failed(v, t), t)
    /\ Quietly

JobIsAnswered(t, i, valid) ==
    /\ i \in DOMAIN w.http[t].jobs /\ HasRoom
    /\ LET e == w.http[t].jobs[i]
           v == Ended(t, i)
           ok == [requestOK([v EXCEPT !.http[t].failures = 0], t)
                    EXCEPT !.http[t].started = @ \/ e = "started"]
           u == IF valid THEN ok ELSE Failed(v, t)
       IN  w' = doAnnounceQueue(IF e = "stopped" THEN [v EXCEPT !.http[t].failures = 0]
                                ELSE [u EXCEPT !.http[t].event = "none"], t)
    /\ Quietly

---------------------------------------------------------------------------
Init ==
    /\ \E n \in FirstN :
         w = [started |-> FALSE, timer |-> FALSE, pending |-> FALSE, curr |-> None,
              trackers |-> Known, transactions |-> {}, requests |-> 0, jobs |-> 0,
              udp |-> [t \in UDP |-> [event |-> "none", started |-> FALSE,
                          connected |-> FALSE, transaction_id |-> 0, n |-> n,
                          conn_timer |-> FALSE, taken |-> 0]],
              http |-> [t \in HTTP |-> [event |-> "none", started |-> FALSE,
                          active |-> FALSE, jobs |-> <<>>, queue |-> <<>>, failures |-> 0]]]
    /\ calls = 0

Next ==
    \/ Start \/ Stop \/ Completed \/ ManualUpdate \/ RestoreDefault \/ TimerFires
    \/ \E t \in Known : SetTracker(t) \/ AddTracker(t) \/ RemoveTracker(t)
    \/ \E t \in UDP :
          \/ ConnTimeout(t)
          \/ \E r \in w.transactions :
                ReceiveConnect(t, r) \/ ReceiveAnnounce(t, r) \/ ReceiveError(t, r)
    \/ \E r \in w.transactions : ReceiveLate(r)
    \/ \E t \in HTTP : \E i \in DOMAIN w.http[t].jobs :
          JobFails(t, i) \/ \E valid \in BOOLEAN : JobIsAnswered(t, i, valid)

Spec == Init /\ [][Next]_vars

---------------------------------------------------------------------------
\* Something is still to come that will make the current tracker ask again or
\* take an answer: the manager's timer, the tracker's own, or an HTTP job.
Awaits(v) ==
    \/ v.timer
    \/ v.curr \in UDP /\ v.udp[v.curr].conn_timer
    \/ v.curr \in HTTP /\ v.http[v.curr].jobs # <<>>

\* The one way to wait for nothing but a datagram: an announce on a connection
\* that is already there, for which no timer was started
Unguarded(v) == v.curr \in UDP /\ v.udp[v.curr].connected /\ ~v.udp[v.curr].conn_timer

\* A torrent that is started never waits for nothing: whatever requests were made,
\* lost or failed, a timer or a job will go on, apart from an announce that is
\* sent on a connection already there.  A manager that
\* is stopped has no timer left.
NeverForgotten ==
    /\ TypeOK
    /\ w.started /\ w.curr # None => Awaits(w) \/ Unguarded(w)
    /\ ~w.started => ~w.timer

\* The UDP trackers keep the promise of AnnounceRequests
Requests == INSTANCE AnnounceRequests WITH
    Asker <- UDP,
    asked <- [t \in UDP |-> w.udp[t].transaction_id],
    open <- [t \in UDP |-> \E r \in w.transactions : r.id = w.udp[t].transaction_id],
    taken <- [t \in UDP |-> w.udp[t].taken]
OneAnswerEach == Requests!Spec
=============================================================================
