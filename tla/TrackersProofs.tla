--------------------------- MODULE TrackersProofs ---------------------------
(***************************************************************************)
(* For any trackers, tiers and bounds, and whatever calls the manager and  *)
(* its trackers make of each other:                                        *)
(*   - Trackers implements AnnounceRequests: an answer closes the request  *)
(*     it belongs to and no other;                                         *)
(*   - a torrent that is started always has something to wait for.         *)
(***************************************************************************)
EXTENDS Trackers, SequenceTheorems, WellFoundedInduction, TLAPS

-----------------------------------------------------------------------------
(* The inductive invariant *)

Fields == {"started", "timer", "pending", "curr", "trackers", "transactions", "requests",
           "jobs", "udp", "http"}

UDPRecord == [event: Events, started: BOOLEAN, connected: BOOLEAN, transaction_id: Nat,
              n: Nat, conn_timer: BOOLEAN, taken: Nat]

Transaction == [id: Nat \ {0}, action: {"connect", "announce"}]

\* The part of the type that the UDP trackers need
Shape(v) ==
    /\ DOMAIN v = Fields
    /\ v.requests \in Nat
    /\ v.transactions \in SUBSET Transaction
    /\ v.udp \in [UDP -> UDPRecord]

\* Ids are handed out once: none is above the counter, and no two trackers wait for
\* the same one
Numbered(v) ==
    /\ \A r \in v.transactions : r.id <= v.requests
    /\ \A p, q \in v.transactions : p.id = q.id => p = q
    /\ \A t \in UDP : v.udp[t].transaction_id <= v.requests
    /\ \A s, t \in UDP :
          v.udp[s].transaction_id = v.udp[t].transaction_id =>
              s = t \/ v.udp[s].transaction_id = 0

IInv == Shape(w) /\ Numbered(w)

-----------------------------------------------------------------------------
(* Calls: what a call may do to the requests of the trackers, however many *)
(* calls it makes itself                                                   *)

IsOpen(v, t) == \E r \in v.transactions : r.id = v.udp[t].transaction_id

\* Nothing is taken or forgotten; a tracker has its old request or a new, open one
Later(v, u) ==
    /\ Shape(u) /\ Numbered(u)
    /\ v.requests <= u.requests
    /\ v.transactions \subseteq u.transactions
    /\ \A r \in u.transactions : r \in v.transactions \/ r.id > v.requests
    /\ \A t \in UDP :
          /\ u.udp[t].taken = v.udp[t].taken
          /\ \/ u.udp[t].transaction_id = v.udp[t].transaction_id
             \/ u.udp[t].transaction_id > v.requests /\ IsOpen(u, t)

\* No request is made
Kept(v, u) ==
    /\ Shape(u)
    /\ u.requests = v.requests /\ u.transactions = v.transactions
    /\ \A t \in UDP : /\ u.udp[t].taken = v.udp[t].taken
                      /\ u.udp[t].transaction_id = v.udp[t].transaction_id

Good(v) == Shape(v) /\ Numbered(v)

LEMMA KeptIsLater ==
    ASSUME NEW v, NEW u, Good(v), Kept(v, u)
    PROVE  Later(v, u)
BY DEF Good, Kept, Later, Numbered, Shape, UDPRecord

LEMMA LaterIsTransitive ==
    ASSUME NEW v, NEW u, NEW x, Good(v), Later(v, u), Later(u, x)
    PROVE  Later(v, x)
<1>1. Shape(x) /\ Numbered(x) /\ v.requests <= x.requests
  BY DEF Good, Later, Shape
<1>2. /\ v.transactions \subseteq x.transactions
      /\ \A r \in x.transactions : r \in v.transactions \/ r.id > v.requests
  BY DEF Good, Later, Shape, Transaction
<1>3. ASSUME NEW t \in UDP
      PROVE  /\ x.udp[t].taken = v.udp[t].taken
             /\ \/ x.udp[t].transaction_id = v.udp[t].transaction_id
                \/ x.udp[t].transaction_id > v.requests /\ IsOpen(x, t)
  BY DEF Good, Later, Shape, UDPRecord, IsOpen
<1> QED
  BY <1>1, <1>2, <1>3 DEF Later

LEMMA SendIsLater ==
    ASSUME NEW v, NEW t \in UDP, NEW action \in {"connect", "announce"}, Good(v)
    PROVE  Later(v, Send(v, t, action))
<1> DEFINE u == Send(v, t, action)
<1> DEFINE id == v.requests + 1
<1> DEFINE r == [id |-> id, action |-> action]
<1>1. /\ DOMAIN u = Fields
      /\ u.requests = id
      /\ u.transactions = v.transactions \cup {r}
      /\ u.udp = [v.udp EXCEPT ![t].transaction_id = id]
  BY DEF Good, Shape, Fields, Send
<1>2. id \in Nat \ {0} /\ r \in Transaction
  BY DEF Good, Shape, Transaction
<1>3. u.udp \in [UDP -> UDPRecord]
  BY <1>1, <1>2 DEF Good, Shape, UDPRecord
<1>4. Shape(u)
  BY <1>1, <1>2, <1>3 DEF Good, Shape
<1>5. \A s \in UDP : /\ u.udp[s].taken = v.udp[s].taken
                     /\ u.udp[s].transaction_id = IF s = t THEN id ELSE v.udp[s].transaction_id
  BY <1>1 DEF Good, Shape, UDPRecord
<1>6. Numbered(u)
  <2>1. \A q \in u.transactions : q.id <= u.requests
    BY <1>1, <1>2 DEF Good, Shape, Numbered, Transaction
  <2>4. \A p, q \in u.transactions : p.id = q.id => p = q
    BY <1>1, <1>2 DEF Good, Shape, Numbered, Transaction
  <2>2. \A s \in UDP : u.udp[s].transaction_id <= u.requests
    BY <1>1, <1>5 DEF Good, Shape, Numbered, UDPRecord
  <2>3. \A p, q \in UDP :
           u.udp[p].transaction_id = u.udp[q].transaction_id =>
               p = q \/ u.udp[p].transaction_id = 0
    <3>1. \A s \in UDP : v.udp[s].transaction_id < id
      BY DEF Good, Shape, Numbered, UDPRecord
    <3> QED
      BY <1>5, <3>1 DEF Good, Shape, Numbered, UDPRecord
  <2> QED
    BY <2>1, <2>2, <2>3, <2>4 DEF Numbered
<1>7. IsOpen(u, t)
  BY <1>1, <1>5, r.id = id DEF IsOpen
<1> QED
  BY <1>1, <1>4, <1>5, <1>6, <1>7 DEF Good, Shape, Later
-----------------------------------------------------------------------------
(* The calls of a UDP tracker *)

\* Fields that are not about requests
LEMMA OtherUDPFields ==
    ASSUME NEW v, NEW t \in UDP, Good(v)
    PROVE  /\ \A e \in Events : Later(v, [v EXCEPT !.udp[t].event = e])
           /\ \A b \in BOOLEAN : Later(v, [v EXCEPT !.udp[t].started = b])
           /\ \A b \in BOOLEAN : Later(v, [v EXCEPT !.udp[t].connected = b])
           /\ \A b \in BOOLEAN : Later(v, [v EXCEPT !.udp[t].conn_timer = b])
           /\ \A k \in Nat : Later(v, [v EXCEPT !.udp[t].n = k])
<1> DEFINE P(u) == /\ DOMAIN u = Fields
                   /\ u.requests = v.requests /\ u.transactions = v.transactions
                   /\ u.udp \in [UDP -> UDPRecord]
                   /\ \A s \in UDP : /\ u.udp[s].taken = v.udp[s].taken
                                     /\ u.udp[s].transaction_id = v.udp[s].transaction_id
<1>1. ASSUME NEW u, P(u) PROVE Later(v, u)
  BY <1>1, KeptIsLater DEF Kept, Good, Shape
<1>2. \A e \in Events : P([v EXCEPT !.udp[t].event = e])
  BY DEF Good, Shape, Fields, UDPRecord
<1>3. \A b \in BOOLEAN : P([v EXCEPT !.udp[t].started = b])
  BY DEF Good, Shape, Fields, UDPRecord
<1>4. \A b \in BOOLEAN : P([v EXCEPT !.udp[t].connected = b])
  BY DEF Good, Shape, Fields, UDPRecord
<1>5. \A b \in BOOLEAN : P([v EXCEPT !.udp[t].conn_timer = b])
  BY DEF Good, Shape, Fields, UDPRecord
<1>6. \A k \in Nat : P([v EXCEPT !.udp[t].n = k])
  BY DEF Good, Shape, Fields, UDPRecord
<1> HIDE DEF P
<1> QED
  BY <1>1, <1>2, <1>3, <1>4, <1>5, <1>6

LEMMA LaterIsGood ==
    ASSUME NEW v, NEW u, Later(v, u)
    PROVE  Good(u)
BY DEF Later, Good

\* Fields of the manager and of the HTTP trackers
LEMMA OtherFields ==
    ASSUME NEW v, NEW u, Good(v), DOMAIN u = Fields,
           u.requests = v.requests, u.transactions = v.transactions, u.udp = v.udp
    PROVE  Later(v, u)
BY KeptIsLater DEF Kept, Good, Shape

LEMMA requestPendingIsLater ==
    ASSUME NEW v, NEW t, Good(v)
    PROVE  Later(v, requestPending(v, t))
<1>1. Kept(v, v)
  BY DEF Kept, Good
<1>2. Later(v, [v EXCEPT !.pending = TRUE])
  BY OtherFields DEF Fields, Good, Shape
<1> QED
  BY <1>1, <1>2, KeptIsLater DEF requestPending

LEMMA sendConnectIsLater ==
    ASSUME NEW v, NEW t \in UDP, Good(v)
    PROVE  Later(v, sendConnect(v, t))
<1> DEFINE x == Send(v, t, "connect")
<1>1. Later(v, x) /\ Good(x)
  BY SendIsLater, LaterIsGood
<1>2. Later(x, sendConnect(v, t))
  BY <1>1, OtherUDPFields DEF sendConnect
<1> QED
  BY <1>1, <1>2, LaterIsTransitive

LEMMA UDPRequestIsLater ==
    ASSUME NEW v, NEW t \in UDP, Good(v)
    PROVE  Later(v, UDPRequest(v, t)) 
<1>1. ASSUME NEW u, Later(v, u) PROVE Later(v, requestPending(u, t))
  BY <1>1, requestPendingIsLater, LaterIsGood, LaterIsTransitive
<1>2. Later(v, sendAnnounce(v, t))
  BY SendIsLater DEF sendAnnounce
<1>3. Later(v, sendConnect([v EXCEPT !.udp[t].n = 0], t))
  <2>1. Later(v, [v EXCEPT !.udp[t].n = 0])
    BY OtherUDPFields, 0 \in Nat
  <2> QED
    BY <2>1, sendConnectIsLater, LaterIsGood, LaterIsTransitive
<1> QED
  BY <1>1, <1>2, <1>3 DEF UDPRequest

LEMMA UDPRequestForIsLater ==
    ASSUME NEW v, NEW t \in UDP, NEW event \in Events, Good(v)
    PROVE  Later(v, UDPRequestFor(v, t, event))
<1> DEFINE u == [v EXCEPT !.udp[t].event = event]
           x == [u EXCEPT !.udp[t].conn_timer = FALSE]
<1>1. Later(v, u) /\ Good(u)
  BY OtherUDPFields, LaterIsGood
<1>2. Later(v, x) /\ Good(x)
  <2> HIDE DEF u
  <2>1. Later(u, [u EXCEPT !.udp[t].conn_timer = FALSE])
    BY <1>1, OtherUDPFields
  <2> QED
    BY <1>1, <2>1, LaterIsTransitive, LaterIsGood
<1>3. UDPRequestFor(v, t, event) = UDPRequest(x, t)
  BY DEF UDPRequestFor
<1> QED
  BY <1>2, <1>3, UDPRequestIsLater, LaterIsTransitive

LEMMA UDPCallsAreLater ==
    ASSUME NEW v, NEW t \in UDP, Good(v)
    PROVE  /\ Later(v, UDPStop(v, t))
           /\ Later(v, UDPManualUpdate(v, t))
           /\ Later(v, onConnTimeout(v, t))
<1> DEFINE x == UDPRequestFor(v, t, "stopped")
<1>1. Later(v, v)
  BY OtherFields DEF Good, Shape
<1>2. Later(v, x) /\ Good(x)
  BY UDPRequestForIsLater, LaterIsGood DEF Events
<1>3. Later(x, [x EXCEPT !.udp[t].started = FALSE])
  BY <1>2, OtherUDPFields
<1>4. Later(v, UDPStop(v, t))
  BY <1>1, <1>2, <1>3, LaterIsTransitive DEF UDPStop
<1>5. v.udp[t].event \in Events /\ v.udp[t].n + 1 \in Nat
  BY DEF Good, Shape, UDPRecord
<1>6. Later(v, UDPManualUpdate(v, t))
  BY <1>5, UDPRequestForIsLater DEF UDPManualUpdate, Events
<1>7. Later(v, onConnTimeout(v, t))
  <2> DEFINE u == [v EXCEPT !.udp[t].conn_timer = FALSE]
             y == [u EXCEPT !.udp[t].connected = FALSE]
             z == [y EXCEPT !.udp[t].n = v.udp[t].n + 1]
  <2>1. Later(v, u) /\ Good(u)
    BY OtherUDPFields, LaterIsGood
  <2>2. Later(v, y) /\ Good(y)
    <3> HIDE DEF u
    <3>1. Later(u, [u EXCEPT !.udp[t].connected = FALSE])
      BY <2>1, OtherUDPFields
    <3> QED
      BY <2>1, <3>1, LaterIsTransitive, LaterIsGood
  <2>3. Later(v, z) /\ Good(z)
    <3> HIDE DEF y
    <3>1. Later(y, [y EXCEPT !.udp[t].n = v.udp[t].n + 1])
      BY <1>5, <2>2, OtherUDPFields
    <3> QED
      BY <2>2, <3>1, LaterIsTransitive, LaterIsGood
  <2>4. Later(v, UDPRequest(u, t))
    BY <2>1, UDPRequestIsLater, LaterIsTransitive
  <2>5. Later(v, sendConnect(z, t))
    BY <2>3, sendConnectIsLater, LaterIsTransitive
  <2>6. z = [u EXCEPT !.udp[t].connected = FALSE, !.udp[t].n = @ + 1]
    BY DEF Good, Shape, Fields, UDPRecord
  <2> QED
    BY <2>3, <2>4, <2>5, <2>6 DEF onConnTimeout
<1> QED
  BY <1>4, <1>6, <1>7

-----------------------------------------------------------------------------
(* The calls of an HTTP tracker, and of the manager: no datagram of a UDP  *)
(* tracker but through the calls above                                     *)

LEMMA doAnnounceIsLater ==
    ASSUME NEW v, NEW t, NEW event, Good(v)
    PROVE  Later(v, doAnnounce(v, t, event))
<1> DEFINE u == [v EXCEPT !.http[t].jobs = Append(@, event),
                          !.http[t].active = TRUE,
                          !.jobs = @ + 1]
<1>1. Later(v, u) /\ Good(u)
  <2>1. /\ DOMAIN u = Fields
        /\ u.requests = v.requests /\ u.transactions = v.transactions /\ u.udp = v.udp
    BY DEF Good, Shape, Fields
  <2> QED
    BY <2>1, OtherFields, LaterIsGood
<1> HIDE DEF u
<1>2. Later(u, requestPending(u, t))
  BY <1>1, requestPendingIsLater
<1> QED
  BY <1>1, <1>2, LaterIsTransitive DEF doAnnounce, u

LEMMA HTTPRequestForIsLater ==
    ASSUME NEW v, NEW t, NEW event, Good(v)
    PROVE  Later(v, HTTPRequestFor(v, t, event))
<1> DEFINE u == [v EXCEPT !.http[t].event = event]
<1>1. Later(v, u) /\ Good(u)
  BY OtherFields, LaterIsGood DEF Good, Shape, Fields
<1> HIDE DEF u
<1>2. Later(u, [u EXCEPT !.http[t].queue = Append(@, u.http[t].event)])
  BY <1>1, OtherFields DEF Good, Shape, Fields
<1>3. Later(u, HTTPRequest(u, t))
  BY <1>1, <1>2, doAnnounceIsLater DEF HTTPRequest
<1> QED
  BY <1>1, <1>3, LaterIsTransitive DEF HTTPRequestFor, u

LEMMA HTTPCallsAreLater ==
    ASSUME NEW v, NEW t, Good(v)
    PROVE  /\ Later(v, HTTPStop(v, t))
           /\ Later(v, HTTPManualUpdate(v, t))
           /\ Later(v, doAnnounceQueue(v, t))
<1>1. Later(v, v)
  BY OtherFields DEF Good, Shape
<1>2. Later(v, HTTPStop(v, t))
  <2> DEFINE x == HTTPRequestFor(v, t, "stopped")
  <2>1. Later(v, x) /\ Good(x)
    BY HTTPRequestForIsLater, LaterIsGood
  <2>2. HTTPStop(v, t) = IF ~v.http[t].started THEN v ELSE [x EXCEPT !.http[t].started = FALSE]
    BY DEF HTTPStop
  <2> HIDE DEF x
  <2>3. Later(x, [x EXCEPT !.http[t].started = FALSE])
    BY <2>1, OtherFields DEF Good, Shape, Fields
  <2> QED
    BY <1>1, <2>1, <2>2, <2>3, LaterIsTransitive
<1>3. Later(v, HTTPManualUpdate(v, t))
  BY HTTPRequestForIsLater DEF HTTPManualUpdate
<1>4. Later(v, doAnnounceQueue(v, t))
  <2> DEFINE u == [v EXCEPT !.http[t].queue = Tail(@)]
  <2>1. Later(v, u) /\ Good(u)
    <3>1. /\ DOMAIN u = Fields
          /\ u.requests = v.requests /\ u.transactions = v.transactions /\ u.udp = v.udp
      BY DEF Good, Shape, Fields
    <3> QED
      BY <3>1, OtherFields, LaterIsGood
  <2> HIDE DEF u
  <2>2. Later(u, doAnnounce(u, t, Head(v.http[t].queue)))
    BY <2>1, doAnnounceIsLater
  <2> QED
    BY <1>1, <2>1, <2>2, LaterIsTransitive DEF doAnnounceQueue, u
<1> QED
  BY <1>2, <1>3, <1>4

\* What the manager asks of its tracker, whichever it is
LEMMA TrackerCallsAreLater ==
    ASSUME NEW v, NEW t, Good(v)
    PROVE  /\ Later(v, start(v, t))
           /\ Later(v, stop(v, t))
           /\ Later(v, completed(v, t))
           /\ Later(v, manualUpdate(v, t))
<1>1. Later(v, start(v, t))
  BY UDPRequestForIsLater, HTTPRequestForIsLater DEF start, Events
<1>2. Later(v, stop(v, t))
  BY UDPCallsAreLater, HTTPCallsAreLater DEF stop
<1>3. Later(v, completed(v, t))
  <2> DEFINE x == HTTPRequestFor(v, t, "completed")
  <2>1. Later(v, x) /\ Good(x)
    BY HTTPRequestForIsLater, LaterIsGood
  <2>2. completed(v, t) = IF t \in UDP THEN UDPRequestFor(v, t, "completed")
                          ELSE [x EXCEPT !.http[t].event = "none"]
    BY DEF completed
  <2>3. t \in UDP => Later(v, UDPRequestFor(v, t, "completed"))
    BY UDPRequestForIsLater DEF Events
  <2> HIDE DEF x
  <2>4. Later(x, [x EXCEPT !.http[t].event = "none"])
    BY <2>1, OtherFields DEF Good, Shape, Fields
  <2> QED
    BY <2>1, <2>2, <2>3, <2>4, LaterIsTransitive
<1>4. Later(v, manualUpdate(v, t))
  BY UDPCallsAreLater, HTTPCallsAreLater DEF manualUpdate
<1> QED
  BY <1>1, <1>2, <1>3, <1>4

\* Fields of the manager alone
LEMMA ManagerFields ==
    ASSUME NEW v, Good(v)
    PROVE  /\ Later(v, v)
           /\ \A x : Later(v, [v EXCEPT !.started = x])
           /\ \A x : Later(v, [v EXCEPT !.timer = x])
           /\ \A x : Later(v, [v EXCEPT !.pending = x])
           /\ \A x : Later(v, [v EXCEPT !.curr = x])
           /\ \A x : Later(v, [v EXCEPT !.trackers = x])
<1> DEFINE P(u) == /\ DOMAIN u = Fields /\ u.requests = v.requests
                   /\ u.transactions = v.transactions /\ u.udp = v.udp
<1>1. ASSUME NEW u, P(u) PROVE Later(v, u)
  BY <1>1, OtherFields
<1>2. P(v) /\ \A x : P([v EXCEPT !.started = x])
  BY DEF Good, Shape, Fields
<1>3. \A x : P([v EXCEPT !.timer = x]) /\ P([v EXCEPT !.pending = x])
  BY DEF Good, Shape, Fields
<1>4. \A x : P([v EXCEPT !.curr = x]) /\ P([v EXCEPT !.trackers = x])
  BY DEF Good, Shape, Fields
<1> HIDE DEF P
<1> QED
  BY <1>1, <1>2, <1>3, <1>4

\* A call that follows another
LEMMA ThenCall ==
    ASSUME NEW v, NEW u, NEW t, Good(v), Later(v, u)
    PROVE  /\ Good(u)
           /\ Later(v, start(u, t))
           /\ Later(v, stop(u, t))
           /\ Later(v, completed(u, t))
           /\ Later(v, manualUpdate(u, t))
           /\ Later(v, doAnnounceQueue(u, t))
BY LaterIsGood, TrackerCallsAreLater, HTTPCallsAreLater, LaterIsTransitive

LEMMA ThenField ==
    ASSUME NEW v, NEW u, Good(v), Later(v, u)
    PROVE  /\ Later(v, v)
           /\ \A x : Later(v, [u EXCEPT !.started = x])
           /\ \A x : Later(v, [u EXCEPT !.timer = x])
           /\ \A x : Later(v, [u EXCEPT !.pending = x])
           /\ \A x : Later(v, [u EXCEPT !.curr = x])
           /\ \A x : Later(v, [u EXCEPT !.trackers = x])
BY LaterIsGood, ManagerFields, LaterIsTransitive

LEMMA SelectAndStartIsLater ==
    ASSUME NEW v, Good(v)
    PROVE  Later(v, SelectAndStart(v))
<1> DEFINE s == selectTracker(v)
           u == [v EXCEPT !.curr = s]
<1>1. Later(v, v) /\ Later(v, u)
  BY ManagerFields
<1>2. SelectAndStart(v) = IF s = None THEN v ELSE start(u, s)
  BY DEF SelectAndStart, switchTracker
<1> HIDE DEF s, u
<1> QED
  BY <1>1, <1>2, ThenCall

\* The slots of the manager, called while a tracker handles an answer
LEMMA SlotsAreLater ==
    ASSUME NEW v, NEW t, Good(v)
    PROVE  /\ Later(v, requestOK(v, t))
           /\ Later(v, requestFailed(v, t))
<1>1. Later(v, v)
  BY ManagerFields
<1>2. Later(v, onTrackerOK(v))
  <2> DEFINE u == [v EXCEPT !.timer = v.timer \/ v.started]
  <2>1. Later(v, u)
    BY ManagerFields
  <2>2. onTrackerOK(v) = [u EXCEPT !.pending = FALSE]
    BY DEF onTrackerOK
  <2> HIDE DEF u
  <2> QED
    BY <2>1, <2>2, ThenField
<1>3. Later(v, onTrackerError(v))
  <2> DEFINE q == [v EXCEPT !.pending = FALSE]
             s == selectTracker(v)
             x == stop(q, v.curr)
             u == [x EXCEPT !.curr = s]
  <2>1. Later(v, q)
    BY ManagerFields
  <2>2. onTrackerError(v) = IF ~v.started THEN q
                            ELSE IF s = None THEN [q EXCEPT !.timer = TRUE]
                            ELSE IF failureCount(u, s) = 0 THEN start(u, s)
                            ELSE [u EXCEPT !.timer = TRUE]
    BY DEF onTrackerError, switchTracker
  <2> HIDE DEF q, s
  <2>3. Later(v, x)
    BY <2>1, ThenCall
  <2> HIDE DEF x
  <2>4. Later(v, u)
    BY <2>3, ThenField
  <2> HIDE DEF u
  <2>5. /\ Later(v, [q EXCEPT !.timer = TRUE]) /\ Later(v, [u EXCEPT !.timer = TRUE])
        /\ Later(v, start(u, s))
    BY <2>1, <2>4, ThenField, ThenCall
  <2> QED
    BY <2>1, <2>2, <2>5
<1> QED
  BY <1>1, <1>2, <1>3 DEF requestOK, requestFailed

-----------------------------------------------------------------------------
(* Steps: each keeps the invariant and is a step of AnnounceRequests *)

LEMMA OpenIsKept ==
    ASSUME NEW v, NEW u, NEW t \in UDP, Good(v), Later(v, u),
           u.udp[t].transaction_id = v.udp[t].transaction_id
    PROVE  IsOpen(u, t) <=> IsOpen(v, t)
BY DEF Good, Shape, Numbered, Later, IsOpen, UDPRecord, Transaction

\* A step that takes no answer
LEMMA CallStep ==
    ASSUME IInv, Later(w, w')
    PROVE  IInv' /\ Requests!Next
<1>1. IInv'
  BY DEF Later, IInv, Shape, Numbered
<1>2. ASSUME NEW t \in UDP
      PROVE  Requests!Keep(t) \/ Requests!Ask(t)
  <2>1. w'.udp[t].taken = w.udp[t].taken
    BY DEF Later
  <2>2. CASE w'.udp[t].transaction_id = w.udp[t].transaction_id
    <3>1. IsOpen(w', t) <=> IsOpen(w, t)
      BY <2>2, OpenIsKept DEF IInv, Good
    <3> QED
      BY <2>1, <2>2, <3>1 DEF Requests!Keep, Requests!Rests, IsOpen
  <2>3. CASE w'.udp[t].transaction_id > w.requests /\ IsOpen(w', t)
    <3>1. w'.udp[t].transaction_id > w.udp[t].transaction_id
      BY <2>3 DEF Later, IInv, Shape, Numbered, UDPRecord
    <3> QED
      BY <2>1, <2>3, <3>1 DEF Requests!Ask, Requests!Asks, IsOpen
  <2> QED
    BY <2>2, <2>3 DEF Later
<1> QED
  BY <1>1, <1>2 DEF Requests!Next

\* A step that takes the answer r to the request of t, and then calls whatever it calls
LEMMA AnswerStep ==
    ASSUME IInv, NEW t \in UDP, NEW r \in w.transactions, IsFor(t, r), Later(Taken(t, r), w')
    PROVE  IInv' /\ Requests!Next
<1> DEFINE v == Taken(t, r)
<1>1. IInv'
  BY DEF Later, IInv, Shape, Numbered
<1>2. /\ v.requests = w.requests
      /\ v.transactions = w.transactions \ {r}
      /\ v.udp \in [UDP -> UDPRecord]
      /\ \A s \in UDP : /\ v.udp[s].transaction_id = w.udp[s].transaction_id
                        /\ v.udp[s].taken = IF s = t THEN w.udp[s].taken + 1 ELSE w.udp[s].taken
  BY DEF Taken, IInv, Shape, Fields, UDPRecord
<1>3. Good(v)
  BY <1>2 DEF Taken, IInv, Good, Shape, Numbered, Fields
<1>4. IsOpen(w, t) /\ ~IsOpen(v, t)
  BY <1>2 DEF IInv, Shape, Numbered, IsOpen, IsFor
<1>5. \A s \in UDP \ {t} : IsOpen(v, s) <=> IsOpen(w, s)
  BY <1>2 DEF IInv, Shape, Numbered, IsOpen, IsFor, Transaction
<1> HIDE DEF v
<1>6. ASSUME NEW s \in UDP, s # t
      PROVE  Requests!Keep(s) \/ Requests!Ask(s)
  <2>1. w'.udp[s].taken = w.udp[s].taken
    BY <1>2, <1>6 DEF Later, v
  <2>2. CASE w'.udp[s].transaction_id = w.udp[s].transaction_id
    <3>1. w'.udp[s].transaction_id = v.udp[s].transaction_id
      BY <1>2, <2>2
    <3>2. IsOpen(w', s) <=> IsOpen(w, s)
      BY <1>3, <1>5, <1>6, <3>1, OpenIsKept DEF v
    <3> QED
      BY <2>1, <2>2, <3>2 DEF Requests!Keep, Requests!Rests, IsOpen
  <2>3. CASE w'.udp[s].transaction_id > w.requests /\ IsOpen(w', s)
    <3>1. w'.udp[s].transaction_id > w.udp[s].transaction_id
      BY <2>3 DEF Later, IInv, Shape, Numbered, UDPRecord
    <3> QED
      BY <2>1, <2>3, <3>1 DEF Requests!Ask, Requests!Asks, IsOpen
  <2> QED
    BY <1>2, <2>2, <2>3 DEF Later, v
<1>7. Requests!Answer(t) \/ Requests!AnswerAndAsk(t)
  <2>1. w'.udp[t].taken = w.udp[t].taken + 1
    BY <1>2 DEF Later, v
  <2>2. CASE w'.udp[t].transaction_id = w.udp[t].transaction_id
    <3>1. w'.udp[t].transaction_id = v.udp[t].transaction_id
      BY <1>2, <2>2
    <3>2. ~IsOpen(w', t)
      BY <1>3, <1>4, <3>1, OpenIsKept DEF v
    <3> QED
      BY <1>4, <2>1, <2>2, <3>2 DEF Requests!Answer, Requests!Rests, IsOpen
  <2>3. CASE w'.udp[t].transaction_id > w.requests /\ IsOpen(w', t)
    <3>1. w'.udp[t].transaction_id > w.udp[t].transaction_id
      BY <2>3 DEF Later, IInv, Shape, Numbered, UDPRecord
    <3> QED
      BY <1>4, <2>1, <2>3, <3>1 DEF Requests!AnswerAndAsk, Requests!Asks, IsOpen
  <2> QED
    BY <1>2, <2>2, <2>3 DEF Later, v
<1> QED
  BY <1>1, <1>6, <1>7 DEF Requests!Next

\* An answer nobody waits for is forgotten
LEMMA LateStep ==
    ASSUME IInv, NEW r \in w.transactions, ReceiveLate(r)
    PROVE  IInv' /\ Requests!Next
<1>1. /\ DOMAIN w' = Fields /\ w'.requests = w.requests
      /\ w'.transactions = w.transactions \ {r} /\ w'.udp = w.udp
  BY DEF ReceiveLate, IInv, Shape, Fields
<1>2. IInv'
  BY <1>1 DEF IInv, Shape, Numbered
<1>3. ASSUME NEW t \in UDP PROVE Requests!Keep(t)
  <2>1. IsOpen(w', t) <=> IsOpen(w, t)
    BY <1>1 DEF ReceiveLate, IsFor, IsOpen
  <2> QED
    BY <1>1, <2>1 DEF Requests!Keep, Requests!Rests, IsOpen
<1> QED
  BY <1>2, <1>3 DEF Requests!Next

\* The calls of the torrent and of the user
LEMMA TorrentSteps ==
    ASSUME IInv, Start \/ Stop \/ Completed \/ ManualUpdate \/ TimerFires
    PROVE  Later(w, w')
<1> Good(w)
  BY DEF IInv, Good
<1>1. CASE Start
  <2> DEFINE v == [w EXCEPT !.started = TRUE]
  <2>1. Later(w, v) /\ Good(v)
    BY ManagerFields, LaterIsGood
  <2>2. w' = IF w.curr = None THEN SelectAndStart(v) ELSE start(v, w.curr)
    BY <1>1 DEF Start
  <2> HIDE DEF v
  <2>3. Later(w, SelectAndStart(v)) /\ Later(w, start(v, w.curr))
    BY <2>1, SelectAndStartIsLater, ThenCall, LaterIsTransitive
  <2> QED
    BY <2>2, <2>3
<1>2. CASE Stop
  <2> DEFINE v == [w EXCEPT !.started = FALSE]
             u == IF w.curr = None THEN v ELSE stop(v, w.curr)
  <2>1. Later(w, v)
    BY ManagerFields
  <2>2. w' = [u EXCEPT !.timer = FALSE]
    BY <1>2 DEF Stop
  <2> HIDE DEF v
  <2>3. Later(w, u)
    BY <2>1, ThenCall
  <2> HIDE DEF u
  <2> QED
    BY <2>2, <2>3, ThenField
<1>3. CASE Completed
  BY <1>3, TrackerCallsAreLater DEF Completed
<1>4. CASE ManualUpdate \/ TimerFires
  <2> DEFINE v == [w EXCEPT !.timer = FALSE]
  <2>1. Later(w, v)
    BY ManagerFields
  <2>2. w' = v \/ w' = manualUpdate(v, w.curr)
    BY <1>4 DEF ManualUpdate, TimerFires
  <2> HIDE DEF v
  <2> QED
    BY <2>1, <2>2, ThenCall
<1> QED
  BY <1>1, <1>2, <1>3, <1>4

LEMMA ListSteps ==
    ASSUME IInv, NEW t \in Known,
           SetTracker(t) \/ AddTracker(t) \/ RemoveTracker(t)
    PROVE  Later(w, w')
<1> Good(w)
  BY DEF IInv, Good
<1>1. CASE SetTracker(t)
  <2> DEFINE v == IF w.curr = None THEN w ELSE stop(w, w.curr)
             u == [v EXCEPT !.curr = t]
  <2>1. w' = start(u, t)
    BY <1>1 DEF SetTracker, switchTracker
  <2>2. Later(w, v)
    BY TrackerCallsAreLater, ManagerFields
  <2> HIDE DEF v
  <2>3. Later(w, u)
    BY <2>2, ThenField
  <2> HIDE DEF u
  <2> QED
    BY <2>1, <2>3, ThenCall
<1>2. CASE AddTracker(t)
  BY <1>2, ManagerFields DEF AddTracker
<1>3. CASE RemoveTracker(t)
  <2> DEFINE x == stop(w, t)
             left == w.trackers \ {t}
             u == [x EXCEPT !.trackers = x.trackers \ {t}]
  <2>1. w' = [w EXCEPT !.trackers = left] \/ w' = SelectAndStart(u)
    BY <1>3 DEF RemoveTracker
  <2>2. Later(w, [w EXCEPT !.trackers = left]) /\ Later(w, x)
    BY ManagerFields, TrackerCallsAreLater
  <2> HIDE DEF x
  <2>3. Later(w, u)
    BY <2>2, ThenField
  <2> HIDE DEF u
  <2>4. Later(w, SelectAndStart(u))
    BY <2>3, LaterIsGood, SelectAndStartIsLater, LaterIsTransitive
  <2> QED
    BY <2>1, <2>2, <2>4
<1> QED
  BY <1>1, <1>2, <1>3

LEMMA RestoreStep ==
    ASSUME IInv, RestoreDefault
    PROVE  Later(w, w')
<1> Good(w)
  BY DEF IInv, Good
<1> DEFINE left == w.trackers \ Custom
           v == IF w.curr \in Custom THEN stop(w, w.curr) ELSE w
           first == FirstOf(left)
           x == [v EXCEPT !.trackers = left]
           u == [x EXCEPT !.curr = IF x.curr \notin Custom THEN x.curr
                                   ELSE IF left = {} THEN None ELSE first]
<1>1. Later(w, v)
  BY TrackerCallsAreLater, ManagerFields
<1>2. w' = u \/ w' = start(u, u.curr)
  BY DEF RestoreDefault
<1> HIDE DEF v
<1>3. Later(w, x)
  BY <1>1, ThenField
<1> HIDE DEF x, first, left
<1>4. Later(w, u)
  BY <1>3, ThenField
<1> HIDE DEF u
<1> QED
  BY <1>2, <1>4, ThenCall

\* Timeouts of the UDP trackers and ends of the jobs of the HTTP trackers
LEMMA ConnTimeoutStep ==
    ASSUME IInv, NEW t \in UDP, ConnTimeout(t)
    PROVE  Later(w, w')
BY UDPCallsAreLater DEF ConnTimeout, IInv, Good

LEMMA JobSteps ==
    ASSUME IInv, NEW t \in HTTP, NEW i \in DOMAIN w.http[t].jobs,
           JobFails(t, i) \/ \E valid \in BOOLEAN : JobIsAnswered(t, i, valid)
    PROVE  Later(w, w')
<1> Good(w)
  BY DEF IInv, Good
<1> DEFINE v == Ended(t, i)
<1>1. Later(w, v) /\ Good(v)
  <2>1. /\ DOMAIN v = Fields /\ v.requests = w.requests
        /\ v.transactions = w.transactions /\ v.udp = w.udp
    BY DEF Ended, Good, Shape, Fields
  <2> QED
    BY <2>1, OtherFields, LaterIsGood
<1> HIDE DEF v
<1>2. Later(v, Failed(v, t))
  <2> DEFINE u == [v EXCEPT !.http[t].failures = @ + 1]
  <2>1. Later(v, u) /\ Good(u)
    BY <1>1, OtherFields, LaterIsGood, SMTT(30) DEF Good, Shape, Fields
  <2> HIDE DEF u
  <2> QED
    BY <1>1, <2>1, SlotsAreLater, LaterIsTransitive DEF Failed, u
<1>3. CASE JobFails(t, i)
  <2>1. w' = doAnnounceQueue(v, t) \/ w' = doAnnounceQueue(Failed(v, t), t)
    BY <1>3 DEF JobFails, v
  <2>2. Later(w, Failed(v, t))
    BY <1>1, <1>2, LaterIsTransitive
  <2> QED
    BY <1>1, <2>1, <2>2, ThenCall
<1>4. ASSUME NEW valid \in BOOLEAN, JobIsAnswered(t, i, valid) PROVE Later(w, w')
  <2> DEFINE e == w.http[t].jobs[i]
             z == [v EXCEPT !.http[t].failures = 0]
             k == requestOK(z, t)
             ok == [k EXCEPT !.http[t].started = @ \/ e = "started"]
             u == IF valid THEN ok ELSE Failed(v, t)
             n == [u EXCEPT !.http[t].event = "none"]
  <2>1. w' = doAnnounceQueue(z, t) \/ w' = doAnnounceQueue(n, t)
    BY <1>4, Zenon DEF JobIsAnswered, v
  <2>2. Later(w, z) /\ Good(z)
    <3>1. Later(v, z)
      BY <1>1, OtherFields DEF Good, Shape, Fields
    <3> QED
      BY <1>1, <3>1, LaterIsTransitive, LaterIsGood
  <2> HIDE DEF z
  <2>3. Later(w, k) /\ Good(k)
    BY <2>2, SlotsAreLater, LaterIsTransitive, LaterIsGood
  <2> HIDE DEF k, e
  <2>4. Later(w, ok)
    <3>1. /\ DOMAIN ok = Fields /\ ok.requests = k.requests
          /\ ok.transactions = k.transactions /\ ok.udp = k.udp
      BY <2>3 DEF Good, Shape, Fields
    <3>2. Later(k, ok)
      BY <2>3, <3>1, OtherFields
    <3> QED
      BY <2>3, <3>2, LaterIsTransitive
  <2> HIDE DEF ok
  <2>5. Later(w, u) /\ Good(u)
    BY <1>1, <1>2, <2>4, LaterIsTransitive, LaterIsGood
  <2> HIDE DEF u
  <2>6. Later(u, n)
    BY <2>5, OtherFields DEF Good, Shape, Fields
  <2>7. Later(w, n)
    BY <2>5, <2>6, LaterIsTransitive
  <2> HIDE DEF n
  <2> QED
    BY <2>1, <2>2, <2>7, ThenCall, SMTT(30)
<1> QED
  BY <1>3, <1>4

\* The answers: the transaction is forgotten first, then the tracker handles the answer
LEMMA TakenIsGood ==
    ASSUME IInv, NEW t \in UDP, NEW r \in w.transactions
    PROVE  Good(Taken(t, r))
<1> DEFINE v == Taken(t, r)
<1>1. /\ DOMAIN v = Fields
      /\ v.requests = w.requests /\ v.transactions = w.transactions \ {r}
      /\ v.udp \in [UDP -> UDPRecord]
      /\ \A s \in UDP : v.udp[s].transaction_id = w.udp[s].transaction_id
  BY DEF Taken, IInv, Shape, Fields, UDPRecord
<1> QED
  BY <1>1 DEF IInv, Good, Shape, Numbered

LEMMA ReceiveSteps ==
    ASSUME IInv, NEW t \in UDP, NEW r \in w.transactions,
           ReceiveConnect(t, r) \/ ReceiveAnnounce(t, r) \/ ReceiveError(t, r)
    PROVE  IsFor(t, r) /\ Later(Taken(t, r), w')
<1> DEFINE v == Taken(t, r)
<1>1. Good(v)
  BY TakenIsGood
<1>2. IsFor(t, r)
  BY DEF ReceiveConnect, ReceiveAnnounce, ReceiveError
<1>3. CASE ReceiveConnect(t, r)
  <2> DEFINE u == [v EXCEPT !.udp[t].connected = TRUE]
             x == [u EXCEPT !.udp[t].n = 0]
  <2>1. w' = sendAnnounce(x, t)
    BY <1>3 DEF ReceiveConnect
  <2> HIDE DEF v
  <2>2. Later(v, u) /\ Good(u)
    BY <1>1, OtherUDPFields, LaterIsGood
  <2> HIDE DEF u
  <2>3. Later(u, x) /\ Good(x)
    BY <2>2, OtherUDPFields, LaterIsGood, 0 \in Nat
  <2> HIDE DEF x
  <2>4. Later(x, sendAnnounce(x, t))
    BY <2>3, SendIsLater DEF sendAnnounce
  <2>5. Later(v, x)
    BY <1>1, <2>2, <2>3, LaterIsTransitive
  <2>6. Later(v, sendAnnounce(x, t))
    BY <1>1, <2>4, <2>5, LaterIsTransitive
  <2> QED
    BY <1>2, <2>1, <2>6 DEF v
<1>4. CASE ReceiveAnnounce(t, r)
  <2> DEFINE e == w.udp[t].event
             u == [v EXCEPT !.udp[t].connected = FALSE,
                            !.udp[t].conn_timer = FALSE,
                            !.udp[t].started = @ \/ e = "started",
                            !.udp[t].event = IF e = "stopped" THEN e ELSE "none"]
  <2>1. w' = requestOK(u, t)
    BY <1>4, SMTT(30) DEF ReceiveAnnounce
  <2> HIDE DEF v, e
  <2>2. /\ DOMAIN u = Fields
        /\ u.requests = v.requests /\ u.transactions = v.transactions
        /\ u.udp \in [UDP -> UDPRecord]
        /\ \A s \in UDP : /\ u.udp[s].taken = v.udp[s].taken
                          /\ u.udp[s].transaction_id = v.udp[s].transaction_id
    <3>1. /\ DOMAIN u = Fields
          /\ u.requests = v.requests /\ u.transactions = v.transactions
          /\ DOMAIN u.udp = UDP
          /\ \A s \in UDP \ {t} : u.udp[s] = v.udp[s]
      BY <1>1 DEF Good, Shape, Fields
    <3> DEFINE event == IF e = "stopped" THEN e ELSE "none"
               q == [v.udp[t] EXCEPT !.connected = FALSE, !.conn_timer = FALSE,
                                     !.started = @ \/ e = "started", !.event = event]
    <3>2. u.udp[t] = q
      BY <1>1 DEF Good, Shape, Fields, UDPRecord
    <3>3. v.udp[t] \in UDPRecord /\ event \in Events
      BY <1>1 DEF Good, Shape, Events
    <3>4. q \in UDPRecord /\ q.transaction_id = v.udp[t].transaction_id
          /\ q.taken = v.udp[t].taken
      <4> HIDE DEF event
      <4> QED
        BY <3>3 DEF UDPRecord
    <3>5. /\ u.udp[t] \in UDPRecord /\ u.udp[t].taken = v.udp[t].taken
          /\ u.udp[t].transaction_id = v.udp[t].transaction_id
      BY <3>2, <3>4
    <3>6. u.udp \in [UDP -> UDPRecord]
      BY <1>1, <3>1, <3>5 DEF Good, Shape
    <3> QED
      BY <3>1, <3>5, <3>6, Zenon
  <2>3. Later(v, u) /\ Good(u)
    <3>1. Kept(v, u)
      BY <1>1, <2>2, Zenon DEF Kept, Good, Shape
    <3> QED
      BY <1>1, <3>1, KeptIsLater, LaterIsGood, SMTT(30)
  <2> HIDE DEF u
  <2>4. Later(v, requestOK(u, t))
    BY <1>1, <2>3, SlotsAreLater, LaterIsTransitive
  <2> QED
    BY <1>2, <2>1, <2>4 DEF v
<1>5. CASE ReceiveError(t, r)
  BY <1>1, <1>5, SlotsAreLater DEF ReceiveError
<1> QED
  BY <1>2, <1>3, <1>4, <1>5

-----------------------------------------------------------------------------
(* Theorems *)

\* Every step of the trackers, whatever it calls, is a step of AnnounceRequests: no
\* timeout, late answer, failed job, restart or change of the tracker makes a tracker
\* take an answer to another request, or one answer twice.
THEOREM Implements == Spec => OneAnswerEach
<1> DEFINE asked == [t \in UDP |-> w.udp[t].transaction_id]
           opened == [t \in UDP |-> \E r \in w.transactions : r.id = w.udp[t].transaction_id]
           took == [t \in UDP |-> w.udp[t].taken]
<1>1. Init => IInv /\ Requests!Init
  <2> SUFFICES ASSUME Init PROVE IInv /\ Requests!Init
    OBVIOUS
  <2>1. /\ DOMAIN w = Fields /\ w.requests = 0 /\ w.transactions = {}
        /\ w.udp \in [UDP -> UDPRecord]
        /\ \A t \in UDP : w.udp[t].transaction_id = 0 /\ w.udp[t].taken = 0
    BY TrackerConstants DEF Init, Fields, UDPRecord, Events
  <2> QED
    BY <2>1 DEF IInv, Shape, Numbered, Requests!Init
<1>2. IInv /\ [Next]_vars => IInv' /\ [Requests!Next]_<<asked, opened, took>>
  <2> SUFFICES ASSUME IInv, [Next]_vars PROVE IInv' /\ [Requests!Next]_<<asked, opened, took>>
    OBVIOUS
  <2>1. CASE Start \/ Stop \/ Completed \/ ManualUpdate \/ TimerFires
    BY <2>1, TorrentSteps, CallStep
  <2>2. CASE \E t \in Known : SetTracker(t) \/ AddTracker(t) \/ RemoveTracker(t)
    BY <2>2, ListSteps, CallStep
  <2>3. CASE \E t \in UDP : ConnTimeout(t)
    BY <2>3, ConnTimeoutStep, CallStep
  <2>4. CASE \E t \in UDP : \E r \in w.transactions :
                ReceiveConnect(t, r) \/ ReceiveAnnounce(t, r) \/ ReceiveError(t, r)
    BY <2>4, ReceiveSteps, AnswerStep
  <2>5. CASE \E r \in w.transactions : ReceiveLate(r)
    BY <2>5, LateStep
  <2>6. CASE \E t \in HTTP : \E i \in DOMAIN w.http[t].jobs :
                JobFails(t, i) \/ \E valid \in BOOLEAN : JobIsAnswered(t, i, valid)
    BY <2>6, JobSteps, CallStep
  <2>7. CASE UNCHANGED vars
    BY <2>7 DEF vars, IInv, Shape, Numbered
  <2>8. CASE RestoreDefault
    BY <2>8, RestoreStep, CallStep
  <2> QED
    BY <2>1, <2>2, <2>3, <2>4, <2>5, <2>6, <2>7, <2>8 DEF Next
<1> QED
  BY <1>1, <1>2, PTL DEF Spec, OneAnswerEach, Requests!Spec

-----------------------------------------------------------------------------
(* What keeps a started torrent going: the manager's timer, or something   *)
(* that its current tracker has in hand                                    *)

\* The torrent has a tracker of its own, one that the user cannot remove.
OwnTracker == Known \ Custom # {}

HTTPRecord == [event: Events, started: BOOLEAN, active: BOOLEAN,
               jobs: Seq(Events), queue: Seq(Events), failures: Nat]

\* The type of the manager and of all its trackers
Whole(v) ==
    /\ Good(v)
    /\ v.http \in [HTTP -> HTTPRecord]
    /\ v.started \in BOOLEAN /\ v.timer \in BOOLEAN /\ v.pending \in BOOLEAN
    /\ v.trackers \in SUBSET Known /\ v.trackers # {}
    /\ v.curr \in Known \cup {None}

\* A tracker that counts itself as started is not about to say that it stops, and
\* what an HTTP tracker has put aside waits for a job that runs.
Told(v, t) ==
    /\ t \in UDP => (v.udp[t].started => v.udp[t].event # "stopped")
    /\ t \in HTTP => (v.http[t].started => v.http[t].event # "stopped")
JobRuns(v, t) == t \in HTTP => (v.http[t].active => v.http[t].jobs # <<>>)
QueueWaits(v, t) == t \in HTTP => (v.http[t].queue # <<>> => v.http[t].jobs # <<>>)
Settled(v, t) == Told(v, t) /\ JobRuns(v, t) /\ QueueWaits(v, t)

\* A tracker that asks for anything but to be forgotten
InHand(v, t) ==
    /\ t \in UDP => /\ v.udp[t].event # "stopped"
                    /\ v.udp[t].conn_timer \/ v.udp[t].connected
    /\ t \in HTTP => \E e \in Range(v.http[t].jobs) \cup Range(v.http[t].queue) : e # "stopped"

Watched(v) ==
    /\ v.started /\ v.curr # None => v.timer \/ InHand(v, v.curr)
    /\ ~v.started => ~v.timer

WatchInv ==
    /\ IInv /\ Whole(w) /\ Known \ Custom \subseteq w.trackers
    /\ \A t \in Known : Settled(w, t)
    /\ Watched(w)
    /\ calls \in 0..MaxCalls

\* u is v but for the notes of t, the requests made and what is pending.
Only(v, u, t) ==
    /\ Whole(u)
    /\ u.started = v.started /\ u.timer = v.timer
    /\ u.curr = v.curr /\ u.trackers = v.trackers
    /\ \A s \in UDP \ {t} : u.udp[s] = v.udp[s]
    /\ \A s \in HTTP \ {t} : u.http[s] = v.http[s]

LEMMA OnlyIsTransitive ==
    ASSUME NEW v, NEW u, NEW x, NEW t, Only(v, u, t), Only(u, x, t)
    PROVE  Only(v, x, t)
BY DEF Only

LEMMA OnlyItself ==
    ASSUME NEW v, NEW t, Whole(v)
    PROVE  Only(v, v, t)
BY DEF Only

LEMMA SettledElsewhere ==
    ASSUME NEW v, NEW u, NEW t, NEW s, s # t, Only(v, u, t)
    PROVE  /\ Settled(v, s) <=> Settled(u, s)
           /\ InHand(v, s) <=> InHand(u, s)
BY DEF Only, Settled, Told, JobRuns, QueueWaits, InHand

\* The fields of the manager that a call of a tracker does not touch
SameManager(v, u) ==
    /\ u.started = v.started /\ u.timer = v.timer
    /\ u.curr = v.curr /\ u.trackers = v.trackers /\ u.pending \in BOOLEAN

\* A UDP tracker has new notes.
UDPNote(v, u, t) ==
    /\ SameManager(v, u) /\ u.http = v.http
    /\ \A s \in UDP \ {t} : u.udp[s] = v.udp[s]

LEMMA UDPNoteIsOnly ==
    ASSUME NEW v, NEW u, NEW t, Whole(v), Good(u), UDPNote(v, u, t)
    PROVE  Only(v, u, t)
BY DEF Only, UDPNote, SameManager, Whole

LEMMA UDPRequestEffect ==
    ASSUME NEW v, NEW t \in UDP, Whole(v)
    PROVE  LET u == UDPRequest(v, t)
           IN  /\ Only(v, u, t)
               /\ u.udp[t].event = v.udp[t].event
               /\ u.udp[t].started = v.udp[t].started
               /\ u.udp[t].connected = v.udp[t].connected
               /\ u.udp[t].conn_timer \/ u.udp[t].connected
<1> DEFINE Same(x, y) == /\ UDPNote(x, y, t)
                         /\ y.udp[t].event = x.udp[t].event
                         /\ y.udp[t].started = x.udp[t].started
                         /\ y.udp[t].connected = x.udp[t].connected
           Typed(x) == Good(x) /\ x.pending \in BOOLEAN
<1>1. ASSUME NEW x, Typed(x), NEW action \in {"connect", "announce"}
      PROVE  LET y == Send(x, t, action)
             IN  Same(x, y) /\ Typed(y) /\ y.udp[t].conn_timer = x.udp[t].conn_timer
  <2>1. Good(Send(x, t, action))
    BY <1>1, SendIsLater, LaterIsGood
  <2> QED
    BY <1>1, <2>1 DEF Send, UDPNote, SameManager, Fields, UDPRecord, Good, Shape
<1>2. ASSUME NEW x, Typed(x)
      PROVE  LET y == requestPending(x, t)
             IN  Same(x, y) /\ y.udp = x.udp
  BY <1>2 DEF requestPending, UDPNote, SameManager, Good, Shape, Fields
<1>3. ASSUME NEW x, Typed(x)
      PROVE  LET y == [x EXCEPT !.udp[t].conn_timer = TRUE]
             IN  Same(x, y) /\ Typed(y) /\ y.udp[t].conn_timer
  <2>1. Good([x EXCEPT !.udp[t].conn_timer = TRUE])
    BY <1>3, OtherUDPFields, LaterIsGood
  <2> QED
    BY <1>3, <2>1 DEF UDPNote, SameManager, Fields, UDPRecord, Good, Shape
<1>4. LET y == [v EXCEPT !.udp[t].n = 0]
      IN  Same(v, y) /\ Typed(y)
  <2>1. Good([v EXCEPT !.udp[t].n = 0])
    BY OtherUDPFields, LaterIsGood, 0 \in Nat DEF Whole
  <2> QED
    BY <2>1 DEF UDPNote, SameManager, Fields, UDPRecord, Good, Shape, Whole
<1>5. ASSUME NEW x, NEW y, NEW z, Same(x, y), Same(y, z)
      PROVE  Same(x, z)
  BY <1>5 DEF UDPNote, SameManager
<1> DEFINE a == sendAnnounce(v, t)
           n == [v EXCEPT !.udp[t].n = 0]
           s == Send(n, t, "connect")
           c == sendConnect(n, t)
           x == IF v.udp[t].connected THEN a ELSE c
<1>6. Typed(v)
  BY DEF Whole
<1>7. v.udp[t].connected => Same(v, a) /\ Typed(a) /\ a.udp[t].connected
  BY <1>1, <1>6 DEF sendAnnounce
<1>8. Same(v, c) /\ Typed(c) /\ c.udp[t].conn_timer
  <2>1. Same(n, s) /\ Typed(s)
    BY <1>1, <1>4
  <2> HIDE DEF Same, Typed
  <2>2. c = [s EXCEPT !.udp[t].conn_timer = TRUE]
    BY DEF sendConnect
  <2> HIDE DEF n, s, c
  <2>3. Same(s, c) /\ Typed(c) /\ c.udp[t].conn_timer
    BY <1>3, <2>1, <2>2
  <2> QED
    BY <1>4, <1>5, <2>1, <2>3 DEF n
<1>9. Same(v, x) /\ Typed(x) /\ (x.udp[t].conn_timer \/ x.udp[t].connected)
  BY <1>7, <1>8
<1>10. UDPRequest(v, t) = requestPending(x, t)
  BY DEF UDPRequest
<1>11. Good(UDPRequest(v, t))
  BY UDPRequestIsLater, LaterIsGood DEF Whole
<1> DEFINE u == requestPending(x, t)
<1> HIDE DEF x
<1>12. Same(x, u) /\ u.udp = x.udp
  BY <1>2, <1>9
<1> HIDE DEF u
<1>13. Same(v, u) /\ (u.udp[t].conn_timer \/ u.udp[t].connected)
  BY <1>5, <1>9, <1>12
<1>14. Only(v, u, t)
  BY <1>10, <1>11, <1>13, UDPNoteIsOnly DEF u
<1> QED
  BY <1>10, <1>13, <1>14 DEF u

\* The notes of a UDP tracker become r, and nothing else changes.
Noted(v, u, t, r) == Only(v, u, t) /\ u.udp[t] = r

LEMMA OnlyIsWhole ==
    ASSUME NEW v, NEW u, NEW t, Only(v, u, t)
    PROVE  Whole(u)
BY DEF Only

LEMMA NoteEvent ==
    ASSUME NEW v, NEW t \in UDP, NEW k \in Events, Whole(v)
    PROVE  Noted(v, [v EXCEPT !.udp[t].event = k], t, [v.udp[t] EXCEPT !.event = k])
<1> DEFINE u == [v EXCEPT !.udp[t].event = k]
<1>1. Good(u)
  BY OtherUDPFields, LaterIsGood DEF Whole
<1>2. UDPNote(v, u, t) /\ u.udp[t] = [v.udp[t] EXCEPT !.event = k]
  BY DEF UDPNote, SameManager, Whole, Good, Shape, Fields
<1> QED
  BY <1>1, <1>2, UDPNoteIsOnly DEF Noted

LEMMA NoteTimer ==
    ASSUME NEW v, NEW t \in UDP, NEW k \in BOOLEAN, Whole(v)
    PROVE  Noted(v, [v EXCEPT !.udp[t].conn_timer = k], t, [v.udp[t] EXCEPT !.conn_timer = k])
<1> DEFINE u == [v EXCEPT !.udp[t].conn_timer = k]
<1>1. Good(u)
  BY OtherUDPFields, LaterIsGood DEF Whole
<1>2. UDPNote(v, u, t) /\ u.udp[t] = [v.udp[t] EXCEPT !.conn_timer = k]
  BY DEF UDPNote, SameManager, Whole, Good, Shape, Fields
<1> QED
  BY <1>1, <1>2, UDPNoteIsOnly DEF Noted

LEMMA NoteStarted ==
    ASSUME NEW v, NEW t \in UDP, NEW k \in BOOLEAN, Whole(v)
    PROVE  Noted(v, [v EXCEPT !.udp[t].started = k], t, [v.udp[t] EXCEPT !.started = k])
<1> DEFINE u == [v EXCEPT !.udp[t].started = k]
<1>1. Good(u)
  BY OtherUDPFields, LaterIsGood DEF Whole
<1>2. UDPNote(v, u, t) /\ u.udp[t] = [v.udp[t] EXCEPT !.started = k]
  BY DEF UDPNote, SameManager, Whole, Good, Shape, Fields
<1> QED
  BY <1>1, <1>2, UDPNoteIsOnly DEF Noted

LEMMA NoteConnected ==
    ASSUME NEW v, NEW t \in UDP, NEW k \in BOOLEAN, Whole(v)
    PROVE  Noted(v, [v EXCEPT !.udp[t].connected = k], t, [v.udp[t] EXCEPT !.connected = k])
<1> DEFINE u == [v EXCEPT !.udp[t].connected = k]
<1>1. Good(u)
  BY OtherUDPFields, LaterIsGood DEF Whole
<1>2. UDPNote(v, u, t) /\ u.udp[t] = [v.udp[t] EXCEPT !.connected = k]
  BY DEF UDPNote, SameManager, Whole, Good, Shape, Fields
<1> QED
  BY <1>1, <1>2, UDPNoteIsOnly DEF Noted

LEMMA NoteTries ==
    ASSUME NEW v, NEW t \in UDP, NEW k \in Nat, Whole(v)
    PROVE  Noted(v, [v EXCEPT !.udp[t].n = k], t, [v.udp[t] EXCEPT !.n = k])
<1> DEFINE u == [v EXCEPT !.udp[t].n = k]
<1>1. Good(u)
  BY OtherUDPFields, LaterIsGood DEF Whole
<1>2. UDPNote(v, u, t) /\ u.udp[t] = [v.udp[t] EXCEPT !.n = k]
  BY DEF UDPNote, SameManager, Whole, Good, Shape, Fields
<1> QED
  BY <1>1, <1>2, UDPNoteIsOnly DEF Noted

LEMMA UDPRequestForEffect ==
    ASSUME NEW v, NEW t \in UDP, NEW event \in Events, Whole(v)
    PROVE  LET u == UDPRequestFor(v, t, event)
           IN  /\ Only(v, u, t)
               /\ u.udp[t].event = event
               /\ u.udp[t].started = v.udp[t].started
               /\ u.udp[t].conn_timer \/ u.udp[t].connected
<1> DEFINE x == [v EXCEPT !.udp[t].event = event]
           y == [x EXCEPT !.udp[t].conn_timer = FALSE]
           u == UDPRequest(y, t)
<1>1. v.udp[t] \in UDPRecord
  BY DEF Whole, Good, Shape
<1>2. Only(v, x, t) /\ x.udp[t] = [v.udp[t] EXCEPT !.event = event]
  <2>1. Noted(v, x, t, [v.udp[t] EXCEPT !.event = event])
    BY NoteEvent
  <2> HIDE DEF x
  <2> QED
    BY <2>1 DEF Noted
<1>3. UDPRequestFor(v, t, event) = u
  BY DEF UDPRequestFor
<1> HIDE DEF x
<1>4. Only(x, y, t) /\ y.udp[t] = [x.udp[t] EXCEPT !.conn_timer = FALSE]
  BY <1>2, OnlyIsWhole, NoteTimer, FALSE \in BOOLEAN, Zenon DEF Noted
<1>5. y.udp[t].event = event /\ y.udp[t].started = v.udp[t].started
  BY <1>1, <1>2, <1>4 DEF UDPRecord
<1> HIDE DEF y
<1>6. /\ Only(y, u, t)
      /\ u.udp[t].event = y.udp[t].event /\ u.udp[t].started = y.udp[t].started
      /\ u.udp[t].conn_timer \/ u.udp[t].connected
  BY <1>4, OnlyIsWhole, UDPRequestEffect, Zenon
<1> HIDE DEF u
<1> QED
  BY <1>2, <1>3, <1>4, <1>5, <1>6, OnlyIsTransitive

\* The calls of a UDP tracker
LEMMA UDPCallsAreKept ==
    ASSUME NEW v, NEW t \in UDP, Whole(v), Told(v, t)
    PROVE  /\ \A e \in Events \ {"stopped"} :
                 LET u == UDPRequestFor(v, t, e)
                 IN  Only(v, u, t) /\ Told(u, t) /\ InHand(u, t)
           /\ LET u == UDPStop(v, t)
              IN  Only(v, u, t) /\ Told(u, t)
           /\ LET u == UDPManualUpdate(v, t)
              IN  Only(v, u, t) /\ Told(u, t) /\ InHand(u, t)
           /\ LET u == onConnTimeout(v, t)
              IN  Only(v, u, t) /\ Told(u, t) /\ (InHand(v, t) => InHand(u, t))
<1>1. t \notin HTTP
  BY TrackerConstants
<1>2. v.udp[t] \in UDPRecord
  BY DEF Whole, Good, Shape
<1>3. \A e \in Events \ {"stopped"} :
         LET u == UDPRequestFor(v, t, e)
         IN  Only(v, u, t) /\ Told(u, t) /\ InHand(u, t)
  BY <1>1, UDPRequestForEffect DEF Told, InHand
<1>4. LET u == UDPStop(v, t)
      IN  Only(v, u, t) /\ Told(u, t)
  <2> DEFINE x == UDPRequestFor(v, t, "stopped")
             u == [x EXCEPT !.udp[t].started = FALSE]
  <2>1. Only(v, x, t)
    BY UDPRequestForEffect DEF Events
  <2>2. UDPStop(v, t) = IF ~v.udp[t].started THEN v ELSE u
    BY DEF UDPStop
  <2> HIDE DEF x
  <2>3. Only(x, u, t) /\ u.udp[t] = [x.udp[t] EXCEPT !.started = FALSE]
    BY <2>1, OnlyIsWhole, NoteStarted, FALSE \in BOOLEAN, Zenon DEF Noted
  <2>4. x.udp[t] \in UDPRecord
    BY <2>1 DEF Only, Whole, Good, Shape
  <2>5. ~u.udp[t].started
    BY <2>3, <2>4 DEF UDPRecord
  <2> HIDE DEF u
  <2> QED
    BY <1>1, <2>1, <2>2, <2>3, <2>5, OnlyIsTransitive, OnlyItself DEF Told
<1>5. LET u == UDPManualUpdate(v, t)
      IN  Only(v, u, t) /\ Told(u, t) /\ InHand(u, t)
  <2> DEFINE e == IF v.udp[t].started THEN v.udp[t].event ELSE "started"
  <2>1. e \in Events \ {"stopped"}
    BY <1>2 DEF UDPRecord, Events, Told
  <2>2. UDPManualUpdate(v, t) = UDPRequestFor(v, t, e)
    BY DEF UDPManualUpdate
  <2> HIDE DEF e
  <2> QED
    BY <1>3, <2>1, <2>2
<1>6. LET u == onConnTimeout(v, t)
      IN  Only(v, u, t) /\ Told(u, t) /\ (InHand(v, t) => InHand(u, t))
  <2> DEFINE x == [v EXCEPT !.udp[t].conn_timer = FALSE]
             q == UDPRequest(x, t)
             y == [x EXCEPT !.udp[t].connected = FALSE]
             z == [y EXCEPT !.udp[t].n = v.udp[t].n + 1]
             c == sendConnect(z, t)
  <2>1. Only(v, x, t) /\ x.udp[t] = [v.udp[t] EXCEPT !.conn_timer = FALSE]
    BY NoteTimer, FALSE \in BOOLEAN, Zenon DEF Noted
  <2>2. z = [x EXCEPT !.udp[t].connected = FALSE, !.udp[t].n = @ + 1]
    BY DEF Good, Shape, Fields, UDPRecord, Whole
  <2>3. onConnTimeout(v, t) = IF ~v.udp[t].connected THEN q
                              ELSE IF v.udp[t].event = "stopped" THEN z ELSE c
    BY <2>2 DEF onConnTimeout
  <2> HIDE DEF x
  <2>4. /\ Only(x, q, t) /\ q.udp[t].event = x.udp[t].event
        /\ q.udp[t].started = x.udp[t].started
        /\ q.udp[t].conn_timer \/ q.udp[t].connected
    BY <2>1, OnlyIsWhole, UDPRequestEffect, Zenon
  <2> HIDE DEF q
  <2>5. Only(x, y, t) /\ y.udp[t] = [x.udp[t] EXCEPT !.connected = FALSE]
    BY <2>1, OnlyIsWhole, NoteConnected, FALSE \in BOOLEAN, Zenon DEF Noted
  <2> HIDE DEF y
  <2>6. Only(y, z, t) /\ z.udp[t] = [y.udp[t] EXCEPT !.n = v.udp[t].n + 1]
    <3> DEFINE m == v.udp[t].n + 1
    <3>1. m \in Nat
      BY <1>2 DEF UDPRecord
    <3> HIDE DEF m
    <3>2. Noted(y, [y EXCEPT !.udp[t].n = m], t, [y.udp[t] EXCEPT !.n = m])
      BY <2>5, <3>1, OnlyIsWhole, NoteTries, Zenon
    <3> QED
      BY <3>2 DEF Noted, m
  <2>7. Only(v, z, t) /\ z.udp[t].event = v.udp[t].event
        /\ z.udp[t].started = v.udp[t].started
    <3>1. Only(v, z, t)
      BY <2>1, <2>5, <2>6, OnlyIsTransitive, Zenon
    <3> HIDE DEF z
    <3>2. v.udp[t].n + 1 \in Nat
      BY <1>2 DEF UDPRecord
    <3> QED
      BY <1>2, <2>1, <2>5, <2>6, <3>1, <3>2 DEF UDPRecord
  <2> HIDE DEF z
  <2>8. /\ Only(z, c, t) /\ c.udp[t].event = z.udp[t].event
        /\ c.udp[t].started = z.udp[t].started /\ c.udp[t].conn_timer
    <3>1. Good(c)
      BY <2>7, sendConnectIsLater, LaterIsGood DEF Only, Whole
    <3>2. /\ UDPNote(z, c, t) /\ c.udp[t].event = z.udp[t].event
          /\ c.udp[t].started = z.udp[t].started /\ c.udp[t].conn_timer
      BY <2>7 DEF sendConnect, Send, UDPNote, SameManager, Fields, UDPRecord, Good, Shape,
                  Whole, Only
    <3> HIDE DEF c
    <3> QED
      BY <2>7, <3>1, <3>2, UDPNoteIsOnly DEF Only
  <2> HIDE DEF c
  <2>9. Only(v, q, t) /\ q.udp[t].event = v.udp[t].event
        /\ q.udp[t].started = v.udp[t].started
    BY <1>2, <2>1, <2>4, OnlyIsTransitive DEF UDPRecord
  <2>10. CASE ~v.udp[t].connected
    BY <1>1, <2>3, <2>4, <2>9, <2>10 DEF Told, InHand
  <2>11. CASE v.udp[t].connected
    BY <1>1, <2>3, <2>7, <2>8, <2>11, OnlyIsTransitive DEF Told, InHand
  <2> QED
    BY <2>10, <2>11
<1> QED
  BY <1>3, <1>4, <1>5, <1>6

-----------------------------------------------------------------------------
(* The calls of an HTTP tracker *)

\* The notes of an HTTP tracker become r, and nothing else changes.
HTTPNoted(v, u, t, r) == Only(v, u, t) /\ u.http[t] = r

LEMMA HTTPNoteIsOnly ==
    ASSUME NEW v, NEW u, NEW t \in HTTP, NEW r \in HTTPRecord, Whole(v), Good(u),
           SameManager(v, u), u.udp = v.udp, u.http = [v.http EXCEPT ![t] = r]
    PROVE  HTTPNoted(v, u, t, r)
<1>1. u.http \in [HTTP -> HTTPRecord] /\ u.http[t] = r
      /\ \A s \in HTTP \ {t} : u.http[s] = v.http[s]
  BY DEF Whole
<1>2. Whole(u)
  BY <1>1 DEF Whole, SameManager
<1> QED
  BY <1>1, <1>2 DEF HTTPNoted, Only, SameManager

LEMMA NotesAreRecords ==
    ASSUME NEW v, Whole(v), NEW t \in HTTP
    PROVE  /\ v.http[t] \in HTTPRecord
           /\ v.http[t].event \in Events /\ v.http[t].started \in BOOLEAN
           /\ v.http[t].active \in BOOLEAN /\ v.http[t].failures \in Nat
           /\ v.http[t].jobs \in Seq(Events) /\ v.http[t].queue \in Seq(Events)
BY DEF Whole, HTTPRecord

LEMMA NoteHTTPEvent ==
    ASSUME NEW v, NEW t \in HTTP, NEW k \in Events, Whole(v)
    PROVE  HTTPNoted(v, [v EXCEPT !.http[t].event = k], t, [v.http[t] EXCEPT !.event = k])
<1> DEFINE u == [v EXCEPT !.http[t].event = k]
           r == [v.http[t] EXCEPT !.event = k]
<1>1. Good(u)
  <2>1. /\ DOMAIN u = Fields
        /\ u.requests = v.requests /\ u.transactions = v.transactions /\ u.udp = v.udp
    BY DEF Whole, Good, Shape, Fields
  <2> QED
    BY <2>1, OtherFields, LaterIsGood DEF Whole
<1>2. SameManager(v, u) /\ u.udp = v.udp /\ u.http = [v.http EXCEPT ![t] = r]
  BY DEF SameManager, Whole, Good, Shape, Fields
<1>3. r \in HTTPRecord
  BY NotesAreRecords DEF HTTPRecord
<1> HIDE DEF u, r
<1>4. HTTPNoted(v, u, t, r)
  BY <1>1, <1>2, <1>3, HTTPNoteIsOnly
<1> QED
  BY <1>4 DEF u, r

LEMMA NoteHTTPStarted ==
    ASSUME NEW v, NEW t \in HTTP, NEW k \in BOOLEAN, Whole(v)
    PROVE  HTTPNoted(v, [v EXCEPT !.http[t].started = k], t, [v.http[t] EXCEPT !.started = k])
<1> DEFINE u == [v EXCEPT !.http[t].started = k]
           r == [v.http[t] EXCEPT !.started = k]
<1>1. Good(u)
  <2>1. /\ DOMAIN u = Fields
        /\ u.requests = v.requests /\ u.transactions = v.transactions /\ u.udp = v.udp
    BY DEF Whole, Good, Shape, Fields
  <2> QED
    BY <2>1, OtherFields, LaterIsGood DEF Whole
<1>2. SameManager(v, u) /\ u.udp = v.udp /\ u.http = [v.http EXCEPT ![t] = r]
  BY DEF SameManager, Whole, Good, Shape, Fields
<1>3. r \in HTTPRecord
  BY NotesAreRecords DEF HTTPRecord
<1> HIDE DEF u, r
<1>4. HTTPNoted(v, u, t, r)
  BY <1>1, <1>2, <1>3, HTTPNoteIsOnly
<1> QED
  BY <1>4 DEF u, r

LEMMA NoteHTTPFailures ==
    ASSUME NEW v, NEW t \in HTTP, NEW k \in Nat, Whole(v)
    PROVE  HTTPNoted(v, [v EXCEPT !.http[t].failures = k], t, [v.http[t] EXCEPT !.failures = k])
<1> DEFINE u == [v EXCEPT !.http[t].failures = k]
           r == [v.http[t] EXCEPT !.failures = k]
<1>1. Good(u)
  <2>1. /\ DOMAIN u = Fields
        /\ u.requests = v.requests /\ u.transactions = v.transactions /\ u.udp = v.udp
    BY DEF Whole, Good, Shape, Fields
  <2> QED
    BY <2>1, OtherFields, LaterIsGood DEF Whole
<1>2. SameManager(v, u) /\ u.udp = v.udp /\ u.http = [v.http EXCEPT ![t] = r]
  BY DEF SameManager, Whole, Good, Shape, Fields
<1>3. r \in HTTPRecord
  BY NotesAreRecords DEF HTTPRecord
<1> HIDE DEF u, r
<1>4. HTTPNoted(v, u, t, r)
  BY <1>1, <1>2, <1>3, HTTPNoteIsOnly
<1> QED
  BY <1>4 DEF u, r

LEMMA NoteHTTPQueue ==
    ASSUME NEW v, NEW t \in HTTP, NEW k \in Seq(Events), Whole(v)
    PROVE  HTTPNoted(v, [v EXCEPT !.http[t].queue = k], t, [v.http[t] EXCEPT !.queue = k])
<1> DEFINE u == [v EXCEPT !.http[t].queue = k]
           r == [v.http[t] EXCEPT !.queue = k]
<1>1. Good(u)
  <2>1. /\ DOMAIN u = Fields
        /\ u.requests = v.requests /\ u.transactions = v.transactions /\ u.udp = v.udp
    BY DEF Whole, Good, Shape, Fields
  <2> QED
    BY <2>1, OtherFields, LaterIsGood DEF Whole
<1>2. SameManager(v, u) /\ u.udp = v.udp /\ u.http = [v.http EXCEPT ![t] = r]
  BY DEF SameManager, Whole, Good, Shape, Fields
<1>3. r \in HTTPRecord
  BY NotesAreRecords DEF HTTPRecord
<1> HIDE DEF u, r
<1>4. HTTPNoted(v, u, t, r)
  BY <1>1, <1>2, <1>3, HTTPNoteIsOnly
<1> QED
  BY <1>4 DEF u, r

\* A job is begun.
LEMMA doAnnounceEffect ==
    ASSUME NEW v, NEW t \in HTTP, NEW event \in Events, Whole(v)
    PROVE  HTTPNoted(v, doAnnounce(v, t, event), t,
                     [v.http[t] EXCEPT !.jobs = Append(v.http[t].jobs, event), !.active = TRUE])
<1> DEFINE x == [v EXCEPT !.http[t].jobs = Append(@, event),
                          !.http[t].active = TRUE,
                          !.jobs = @ + 1]
           u == requestPending(x, t)
           r == [v.http[t] EXCEPT !.jobs = Append(v.http[t].jobs, event), !.active = TRUE]
<1>1. doAnnounce(v, t, event) = u
  BY DEF doAnnounce
<1>2. Good(u)
  BY <1>1, doAnnounceIsLater, LaterIsGood DEF Whole
<1>3. /\ DOMAIN x = Fields
      /\ SameManager(v, x) /\ x.udp = v.udp /\ x.http = [v.http EXCEPT ![t] = r]
  BY DEF SameManager, Whole, Good, Shape, Fields
<1>4. r \in HTTPRecord
  <2>1. Append(v.http[t].jobs, event) \in Seq(Events)
    BY NotesAreRecords
  <2> DEFINE j == Append(v.http[t].jobs, event)
  <2> HIDE DEF j
  <2>2. j \in Seq(Events)
    BY <2>1 DEF j
  <2>3. [v.http[t] EXCEPT !.jobs = j, !.active = TRUE] \in HTTPRecord
    BY <2>2, NotesAreRecords DEF HTTPRecord
  <2> QED
    BY <2>3 DEF j
<1> HIDE DEF x, r
<1>5. SameManager(v, u) /\ u.udp = x.udp /\ u.http = x.http
  BY <1>3 DEF requestPending, SameManager, Fields
<1> HIDE DEF u
<1>6. HTTPNoted(v, u, t, r)
  BY <1>2, <1>3, <1>4, <1>5, HTTPNoteIsOnly
<1> QED
  BY <1>1, <1>6 DEF r

LEMMA AppendHolds ==
    ASSUME NEW S, NEW s \in Seq(S), NEW e \in S
    PROVE  /\ Append(s, e) \in Seq(S) /\ Append(s, e) # <<>>
           /\ Range(Append(s, e)) = Range(s) \cup {e}
<1>1. Append(s, e) \in Seq(S) /\ Len(Append(s, e)) = Len(s) + 1
      /\ DOMAIN Append(s, e) = 1..(Len(s) + 1)
  OBVIOUS
<1>2. \A i \in 1..(Len(s) + 1) : Append(s, e)[i] = IF i <= Len(s) THEN s[i] ELSE e
  OBVIOUS
<1>3. DOMAIN s = 1..Len(s) /\ Len(s) \in Nat
  OBVIOUS
<1>4. Append(s, e) # <<>>
  BY AppendProperties
<1> DEFINE a == Append(s, e)
<1> HIDE DEF a
<1>5. Range(a) = Range(s) \cup {e}
  BY <1>1, <1>2, <1>3 DEF Range, a
<1> QED
  BY <1>1, <1>4, <1>5 DEF a

\* A queue is its head and its tail.
LEMMA HeadAndTail ==
    ASSUME NEW S, NEW q \in Seq(S), q # <<>>
    PROVE  /\ Head(q) \in S /\ Tail(q) \in Seq(S)
           /\ Range(q) = {Head(q)} \cup Range(Tail(q))
<1> DEFINE h == Head(q)
           r == Tail(q)
           l == Len(q)
<1>1. /\ h \in S /\ r \in Seq(S) /\ h = q[1] /\ l \in Nat \ {0}
      /\ DOMAIN q = 1..l /\ DOMAIN r = 1..(l - 1)
  OBVIOUS
<1>2. \A i \in 1..(l - 1) : r[i] = q[i + 1]
  OBVIOUS
<1> HIDE DEF h, r, l
<1>3. Range(q) \subseteq {h} \cup Range(r)
  <2> SUFFICES ASSUME NEW i \in 1..l PROVE q[i] = h \/ \E k \in 1..(l - 1) : q[i] = r[k]
    BY <1>1 DEF Range
  <2>1. i # 1 => i - 1 \in 1..(l - 1) /\ q[i] = r[i - 1]
    BY <1>1, <1>2
  <2> QED
    BY <1>1, <2>1
<1>4. {h} \cup Range(r) \subseteq Range(q)
  <2>1. 1 \in 1..l /\ \A k \in 1..(l - 1) : k + 1 \in 1..l
    BY <1>1
  <2> QED
    BY <1>1, <1>2, <2>1 DEF Range
<1> QED
  BY <1>1, <1>3, <1>4 DEF h, r

LEMMA HTTPRequestEffect ==
    ASSUME NEW v, NEW t \in HTTP, Whole(v), JobRuns(v, t)
    PROVE  LET u == HTTPRequest(v, t)
           IN  /\ Only(v, u, t)
               /\ u.http[t].event = v.http[t].event
               /\ u.http[t].started = v.http[t].started
               /\ u.http[t].jobs # <<>>
               /\ v.http[t].event \in Range(u.http[t].jobs) \cup Range(u.http[t].queue)
<1> DEFINE e == v.http[t].event
           q == Append(v.http[t].queue, e)
           j == Append(v.http[t].jobs, e)
           x == [v EXCEPT !.http[t].queue = q]
           y == doAnnounce(v, t, e)
<1>1. HTTPRequest(v, t) = IF v.http[t].active THEN x ELSE y
  BY DEF HTTPRequest
<1>2. v.http[t] \in HTTPRecord /\ e \in Events
  BY NotesAreRecords
<1>3. q \in Seq(Events) /\ e \in Range(q)
  BY NotesAreRecords, AppendHolds
<1>4. j \in Seq(Events) /\ e \in Range(j) /\ j # <<>>
  BY NotesAreRecords, AppendHolds
<1> HIDE DEF q
<1>5. HTTPNoted(v, x, t, [v.http[t] EXCEPT !.queue = q])
  BY <1>3, NoteHTTPQueue
<1> HIDE DEF x
<1>6. CASE v.http[t].active
  <2>1. /\ x.http[t].event = v.http[t].event /\ x.http[t].started = v.http[t].started
        /\ x.http[t].jobs = v.http[t].jobs /\ x.http[t].queue = q
    BY <1>2, <1>5 DEF HTTPNoted, HTTPRecord
  <2> QED
    BY <1>1, <1>3, <1>5, <1>6, <2>1 DEF HTTPNoted, JobRuns
<1>7. HTTPNoted(v, y, t, [v.http[t] EXCEPT !.jobs = j, !.active = TRUE])
  BY <1>2, doAnnounceEffect, Zenon
<1> HIDE DEF y, j
<1>8. CASE ~v.http[t].active
  <2>1. /\ y.http[t].event = v.http[t].event /\ y.http[t].started = v.http[t].started
        /\ y.http[t].jobs = j
    BY <1>2, <1>7 DEF HTTPNoted, HTTPRecord
  <2> QED
    BY <1>1, <1>4, <1>7, <1>8, <2>1 DEF HTTPNoted
<1> QED
  BY <1>6, <1>8

LEMMA HTTPRequestForEffect ==
    ASSUME NEW v, NEW t \in HTTP, NEW event \in Events, Whole(v), JobRuns(v, t)
    PROVE  LET u == HTTPRequestFor(v, t, event)
           IN  /\ Only(v, u, t)
               /\ u.http[t].event = event
               /\ u.http[t].started = v.http[t].started
               /\ u.http[t].jobs # <<>>
               /\ event \in Range(u.http[t].jobs) \cup Range(u.http[t].queue)
<1> DEFINE x == [v EXCEPT !.http[t].event = event]
           u == HTTPRequest(x, t)
<1>1. HTTPRequestFor(v, t, event) = u
  BY DEF HTTPRequestFor
<1>2. HTTPNoted(v, x, t, [v.http[t] EXCEPT !.event = event])
  BY NoteHTTPEvent
<1> HIDE DEF x
<1>3. /\ x.http[t].event = event /\ x.http[t].started = v.http[t].started
      /\ x.http[t].active = v.http[t].active /\ x.http[t].jobs = v.http[t].jobs
  BY <1>2, NotesAreRecords DEF HTTPNoted, HTTPRecord
<1>4. Only(v, x, t) /\ Whole(x) /\ JobRuns(x, t)
  BY <1>2, <1>3, OnlyIsWhole DEF HTTPNoted, JobRuns
<1>5. /\ Only(x, u, t)
      /\ u.http[t].event = x.http[t].event /\ u.http[t].started = x.http[t].started
      /\ u.http[t].jobs # <<>>
      /\ x.http[t].event \in Range(u.http[t].jobs) \cup Range(u.http[t].queue)
  BY <1>4, HTTPRequestEffect
<1> HIDE DEF u
<1> QED
  BY <1>1, <1>3, <1>4, <1>5, OnlyIsTransitive

\* A call leaves t settled, and asking for something.
Asks(v, u, t) == Only(v, u, t) /\ Settled(u, t) /\ InHand(u, t)

\* A call leaves t settled, whatever it was about.
Ends(v, u, t) == Only(v, u, t) /\ Told(u, t) /\ JobRuns(u, t)
                 /\ (QueueWaits(v, t) => QueueWaits(u, t))

LEMMA HTTPCallsAreKept ==
    ASSUME NEW v, NEW t \in HTTP, Whole(v), Told(v, t), JobRuns(v, t)
    PROVE  /\ \A e \in Events \ {"stopped"} : Asks(v, HTTPRequestFor(v, t, e), t)
           /\ Ends(v, HTTPStop(v, t), t)
           /\ Asks(v, HTTPManualUpdate(v, t), t)
<1>1. t \notin UDP
  BY TrackerConstants
<1>2. \A e \in Events \ {"stopped"} : Asks(v, HTTPRequestFor(v, t, e), t)
  <2> SUFFICES ASSUME NEW e \in Events \ {"stopped"}
               PROVE  Asks(v, HTTPRequestFor(v, t, e), t)
    OBVIOUS
  <2> DEFINE u == HTTPRequestFor(v, t, e)
  <2>1. /\ Only(v, u, t)
        /\ u.http[t].event = e
        /\ u.http[t].jobs # <<>>
        /\ e \in Range(u.http[t].jobs) \cup Range(u.http[t].queue)
    BY HTTPRequestForEffect
  <2> HIDE DEF u
  <2>2. Settled(u, t) /\ InHand(u, t)
    BY <1>1, <2>1 DEF Settled, Told, JobRuns, QueueWaits, InHand
  <2> QED
    BY <2>1, <2>2 DEF Asks, u
<1>3. Ends(v, HTTPStop(v, t), t)
  <2> DEFINE x == HTTPRequestFor(v, t, "stopped")
             u == [x EXCEPT !.http[t].started = FALSE]
  <2>1. HTTPStop(v, t) = IF ~v.http[t].started THEN v ELSE u
    BY DEF HTTPStop
  <2>2. Only(v, x, t) /\ x.http[t].jobs # <<>>
    BY HTTPRequestForEffect DEF Events
  <2> HIDE DEF x
  <2>3. HTTPNoted(x, u, t, [x.http[t] EXCEPT !.started = FALSE])
    BY <2>2, OnlyIsWhole, NoteHTTPStarted, FALSE \in BOOLEAN, Zenon
  <2> HIDE DEF u
  <2>4. x.http[t] \in HTTPRecord
    BY <2>2, OnlyIsWhole, NotesAreRecords
  <2>5. u.http[t].started = FALSE /\ u.http[t].jobs = x.http[t].jobs
    BY <2>3, <2>4 DEF HTTPNoted, HTTPRecord
  <2>6. Only(v, u, t)
    BY <2>2, <2>3, OnlyIsTransitive DEF HTTPNoted
  <2>7. Told(u, t) /\ JobRuns(u, t) /\ QueueWaits(u, t)
    BY <1>1, <2>2, <2>5 DEF Told, JobRuns, QueueWaits
  <2> QED
    BY <2>1, <2>6, <2>7, OnlyItself DEF Ends
<1>4. Asks(v, HTTPManualUpdate(v, t), t)
  <2> DEFINE e == IF v.http[t].started THEN v.http[t].event ELSE "started"
  <2>1. e \in Events \ {"stopped"}
    BY NotesAreRecords DEF Events, Told
  <2>2. HTTPManualUpdate(v, t) = HTTPRequestFor(v, t, e)
    BY DEF HTTPManualUpdate
  <2> HIDE DEF e
  <2> QED
    BY <1>2, <2>1, <2>2
<1> QED
  BY <1>2, <1>3, <1>4

\* The queue goes on: the jobs and the queue hold what they held.
LEMMA QueueGoesOn ==
    ASSUME NEW v, NEW t \in HTTP, Whole(v), Told(v, t), JobRuns(v, t)
    PROVE  LET u == doAnnounceQueue(v, t)
           IN  Only(v, u, t) /\ Settled(u, t) /\ (InHand(v, t) => InHand(u, t))
<1>1. t \notin UDP
  BY TrackerConstants
<1> DEFINE q == v.http[t].queue
           x == [v EXCEPT !.http[t].queue = Tail(q)]
           u == doAnnounce(x, t, Head(q))
<1>2. doAnnounceQueue(v, t) = IF q = <<>> THEN v ELSE u
  BY DEF doAnnounceQueue
<1>3. v.http[t] \in HTTPRecord /\ q \in Seq(Events) /\ v.http[t].jobs \in Seq(Events)
  BY NotesAreRecords
<1>4. CASE q = <<>>
  BY <1>1, <1>2, <1>4, OnlyItself DEF Settled, QueueWaits
<1>5. CASE q # <<>>
  <2>1. Head(q) \in Events /\ Tail(q) \in Seq(Events) /\ Range(q) = {Head(q)} \cup Range(Tail(q))
    BY <1>3, <1>5, HeadAndTail
  <2> DEFINE r == Tail(q)
             e == Head(q)
  <2> HIDE DEF q, r, e
  <2>2. HTTPNoted(v, x, t, [v.http[t] EXCEPT !.queue = r])
    BY <2>1, NoteHTTPQueue DEF r
  <2> HIDE DEF x
  <2>3. /\ x.http[t].event = v.http[t].event /\ x.http[t].started = v.http[t].started
        /\ x.http[t].jobs = v.http[t].jobs /\ x.http[t].queue = r
    BY <1>3, <2>2 DEF HTTPNoted, HTTPRecord
  <2>4. Only(v, x, t) /\ Whole(x) /\ x.http[t] \in HTTPRecord
    BY <2>2, OnlyIsWhole, NotesAreRecords DEF HTTPNoted
  <2> DEFINE j == Append(v.http[t].jobs, e)
  <2>5. HTTPNoted(x, u, t, [x.http[t] EXCEPT !.jobs = j, !.active = TRUE])
    BY <2>1, <2>3, <2>4, doAnnounceEffect, Zenon DEF e
  <2>6. j \in Seq(Events) /\ j # <<>> /\ Range(j) = Range(v.http[t].jobs) \cup {e}
    BY <1>3, <2>1, AppendHolds DEF e
  <2> HIDE DEF u, j
  <2>7. /\ u.http[t].event = v.http[t].event /\ u.http[t].started = v.http[t].started
        /\ u.http[t].jobs = j /\ u.http[t].queue = r
    BY <2>3, <2>4, <2>5 DEF HTTPNoted, HTTPRecord
  <2>8. Only(v, u, t)
    BY <2>4, <2>5, OnlyIsTransitive DEF HTTPNoted
  <2>9. Settled(u, t)
    BY <1>1, <2>6, <2>7 DEF Settled, Told, JobRuns, QueueWaits
  <2>10. InHand(v, t) => InHand(u, t)
    BY <1>1, <2>1, <2>6, <2>7 DEF InHand, q, r, e
  <2> QED
    BY <1>2, <1>5, <2>8, <2>9, <2>10 DEF u
<1> QED
  BY <1>4, <1>5

-----------------------------------------------------------------------------
(* The calls of the manager *)

\* What every tracker keeps to, in the midst of a handler too.
Fine(v) == Whole(v) /\ \A t \in Known : Told(v, t) /\ JobRuns(v, t)

\* v becomes u, and no tracker is worse off.
Goes(v, u) ==
    /\ Fine(u) /\ u.started = v.started /\ u.trackers = v.trackers
    /\ \A t \in Known : QueueWaits(v, t) => QueueWaits(u, t)

LEMMA TrackerCalls ==
    ASSUME NEW v, NEW t \in Known, Fine(v)
    PROVE  /\ Asks(v, start(v, t), t)
           /\ Asks(v, completed(v, t), t)
           /\ Asks(v, manualUpdate(v, t), t)
           /\ Ends(v, stop(v, t), t)
<1>1. CASE t \in UDP
  <2>1. t \notin HTTP
    BY <1>1, TrackerConstants
  <2>2. \A u : Only(v, u, t) /\ Told(u, t) /\ InHand(u, t) => Asks(v, u, t)
    BY <2>1 DEF Asks, Settled, JobRuns, QueueWaits
  <2>3. \A u : Only(v, u, t) /\ Told(u, t) => Ends(v, u, t)
    BY <2>1 DEF Ends, JobRuns, QueueWaits
  <2>4. Whole(v) /\ Told(v, t)
    BY DEF Fine
  <2>5. {"started", "completed"} \subseteq Events \ {"stopped"}
    BY DEF Events
  <2>6. Asks(v, UDPRequestFor(v, t, "started"), t)
    BY <1>1, <2>2, <2>4, <2>5, UDPCallsAreKept
  <2>7. Asks(v, UDPRequestFor(v, t, "completed"), t)
    BY <1>1, <2>2, <2>4, <2>5, UDPCallsAreKept
  <2>8. Asks(v, UDPManualUpdate(v, t), t)
    BY <1>1, <2>2, <2>4, UDPCallsAreKept
  <2>9. Ends(v, UDPStop(v, t), t)
    BY <1>1, <2>3, <2>4, UDPCallsAreKept
  <2> QED
    BY <1>1, <2>6, <2>7, <2>8, <2>9 DEF start, completed, manualUpdate, stop
<1>2. CASE t \notin UDP
  <2>1. t \in HTTP
    BY <1>2 DEF Known
  <2>2. Whole(v) /\ Told(v, t) /\ JobRuns(v, t)
    BY DEF Fine
  <2>3. {"started", "completed"} \subseteq Events \ {"stopped"}
    BY DEF Events
  <2>4. Asks(v, HTTPRequestFor(v, t, "started"), t)
    BY <2>1, <2>2, <2>3, HTTPCallsAreKept
  <2>5. Asks(v, HTTPManualUpdate(v, t), t) /\ Ends(v, HTTPStop(v, t), t)
    BY <2>1, <2>2, HTTPCallsAreKept
  <2> DEFINE x == HTTPRequestFor(v, t, "completed")
             u == [x EXCEPT !.http[t].event = "none"]
  <2>6. Asks(v, x, t)
    BY <2>1, <2>2, <2>3, HTTPCallsAreKept
  <2>7. completed(v, t) = u
    BY <1>2 DEF completed
  <2> HIDE DEF x
  <2>8. HTTPNoted(x, u, t, [x.http[t] EXCEPT !.event = "none"])
    BY <2>1, <2>6, OnlyIsWhole, NoteHTTPEvent DEF Asks, Events
  <2> HIDE DEF u
  <2>9. x.http[t] \in HTTPRecord
    BY <2>1, <2>6, OnlyIsWhole, NotesAreRecords DEF Asks
  <2>10. /\ u.http[t].event = "none" /\ u.http[t].active = x.http[t].active
         /\ u.http[t].jobs = x.http[t].jobs /\ u.http[t].queue = x.http[t].queue
    BY <2>8, <2>9 DEF HTTPNoted, HTTPRecord
  <2>11. Only(v, u, t)
    BY <2>6, <2>8, OnlyIsTransitive DEF HTTPNoted, Asks
  <2>12. Settled(u, t) /\ InHand(u, t)
    BY <1>2, <2>6, <2>10 DEF Asks, Settled, Told, JobRuns, QueueWaits, InHand
  <2>13. Asks(v, u, t)
    BY <2>11, <2>12 DEF Asks
  <2> QED
    BY <1>2, <2>4, <2>5, <2>7, <2>13 DEF start, manualUpdate, stop
<1> QED
  BY <1>1, <1>2

LEMMA GoesIsTransitive ==
    ASSUME NEW v, NEW u, NEW x, Goes(v, u), Goes(u, x)
    PROVE  Goes(v, x)
BY DEF Goes

LEMMA OnlyGoes ==
    ASSUME NEW v, NEW u, NEW t \in Known, Fine(v), Only(v, u, t), Told(u, t), JobRuns(u, t),
           QueueWaits(v, t) => QueueWaits(u, t)
    PROVE  Goes(v, u)
<1>1. \A s \in Known \ {t} :
         /\ Told(v, s) => Told(u, s)
         /\ JobRuns(v, s) => JobRuns(u, s)
         /\ QueueWaits(v, s) => QueueWaits(u, s)
  BY DEF Only, Told, JobRuns, QueueWaits
<1>2. Whole(u) /\ u.started = v.started /\ u.trackers = v.trackers
  BY DEF Only
<1> QED
  BY <1>1, <1>2 DEF Goes, Fine

LEMMA AsksGoes ==
    ASSUME NEW v, NEW u, NEW t \in Known, Fine(v), Asks(v, u, t) \/ Ends(v, u, t)
    PROVE  Goes(v, u)
BY OnlyGoes DEF Asks, Ends, Settled

\* Only the manager changes.
LEMMA ManagerWhole ==
    ASSUME NEW v, NEW u, Fine(v), DOMAIN u = Fields,
           u.requests = v.requests, u.transactions = v.transactions,
           u.udp = v.udp, u.http = v.http,
           u.started \in BOOLEAN, u.timer \in BOOLEAN, u.pending \in BOOLEAN,
           u.trackers \in SUBSET Known, u.trackers # {}, u.curr \in Known \cup {None}
    PROVE  /\ Fine(u)
           /\ \A t \in Known : /\ QueueWaits(u, t) <=> QueueWaits(v, t)
                               /\ InHand(u, t) <=> InHand(v, t)
<1>1. Good(u)
  BY OtherFields, LaterIsGood DEF Fine, Whole
<1>2. Whole(u)
  BY <1>1 DEF Fine, Whole
<1>3. \A t \in Known : /\ Told(u, t) <=> Told(v, t)
                       /\ JobRuns(u, t) <=> JobRuns(v, t)
                       /\ QueueWaits(u, t) <=> QueueWaits(v, t)
                       /\ InHand(u, t) <=> InHand(v, t)
  BY DEF Told, JobRuns, QueueWaits, InHand
<1>4. \A t \in Known : Told(v, t) /\ JobRuns(v, t)
  BY DEF Fine
<1> QED
  BY <1>2, <1>3, <1>4, Zenon DEF Fine

\* v becomes u, with all that the trackers have in hand.
Same(v, u) == /\ Goes(v, u)
              /\ \A t \in Known : InHand(u, t) <=> InHand(v, t)

LEMMA ManagerNotes ==
    ASSUME NEW v, Fine(v)
    PROVE  /\ \A b \in BOOLEAN : LET u == [v EXCEPT !.timer = b]
                                IN  Same(v, u) /\ u.timer = b /\ u.curr = v.curr
           /\ \A b \in BOOLEAN : LET u == [v EXCEPT !.pending = b]
                                IN  Same(v, u) /\ u.timer = v.timer /\ u.curr = v.curr
           /\ \A t \in Known \cup {None} :
                                LET u == [v EXCEPT !.curr = t]
                                IN  Same(v, u) /\ u.timer = v.timer /\ u.curr = t
<1> DEFINE P(u) == /\ DOMAIN u = Fields /\ u.requests = v.requests
                   /\ u.transactions = v.transactions
                   /\ u.udp = v.udp /\ u.http = v.http
                   /\ u.started = v.started /\ u.trackers = v.trackers
                   /\ u.timer \in BOOLEAN /\ u.pending \in BOOLEAN
                   /\ u.curr \in Known \cup {None}
<1>1. ASSUME NEW u, P(u) PROVE Same(v, u)
  <2>1. u.started \in BOOLEAN /\ u.trackers \in SUBSET Known /\ u.trackers # {}
    BY <1>1 DEF Fine, Whole
  <2>2. /\ Fine(u) /\ u.started = v.started /\ u.trackers = v.trackers
        /\ \A t \in Known : /\ QueueWaits(u, t) <=> QueueWaits(v, t)
                            /\ InHand(u, t) <=> InHand(v, t)
    BY <1>1, <2>1, ManagerWhole
  <2> QED
    BY <2>2, Zenon DEF Same, Goes
<1>2. \A b \in BOOLEAN : LET u == [v EXCEPT !.timer = b]
                        IN  P(u) /\ u.timer = b /\ u.curr = v.curr
  BY DEF Fine, Whole, Good, Shape, Fields
<1>3. \A b \in BOOLEAN : LET u == [v EXCEPT !.pending = b]
                        IN  P(u) /\ u.timer = v.timer /\ u.curr = v.curr
  BY DEF Fine, Whole, Good, Shape, Fields
<1>4. \A t \in Known \cup {None} : LET u == [v EXCEPT !.curr = t]
                                  IN  P(u) /\ u.timer = v.timer /\ u.curr = t
  BY DEF Fine, Whole, Good, Shape, Fields
<1> HIDE DEF P
<1> QED
  BY <1>1, <1>2, <1>3, <1>4

\* A set with a measure has a least element.
LEMMA LeastOne ==
    ASSUME NEW S, S # {}, NEW f, \A x \in S : f[x] \in Nat
    PROVE  \E x \in S : \A y \in S : f[x] <= f[y]
<1> DEFINE V == {f[x] : x \in S}
<1>1. V \subseteq Nat /\ V # {}
  OBVIOUS
<1> HIDE DEF V
<1>2. PICK m \in V : \A k \in V : <<k, m>> \notin OpToRel(<, Nat)
  BY <1>1, NatLessThanWellFounded, WFMin, Zenon
<1>3. \A k \in V : ~(k < m)
  BY <1>1, <1>2, Zenon DEF OpToRel
<1>4. \A k \in V : m <= k
  BY <1>1, <1>3
<1> QED
  BY <1>4 DEF V

LEMMA FirstOfIsOne ==
    ASSUME NEW ts, ts \subseteq Known, ts # {}
    PROVE  FirstOf(ts) \in ts
<1> DEFINE at == {i \in DOMAIN Order : Order[i] \in ts}
           id == [i \in at |-> i]
<1>1. Order \in Seq(Known) /\ Range(Order) = Known
  BY TrackerConstants
<1>2. at # {} /\ at \subseteq Nat
  BY <1>1 DEF Range
<1>3. \E i \in at : \A j \in at : i <= j
  <2> HIDE DEF at
  <2>1. \A i \in at : id[i] = i /\ id[i] \in Nat
    BY <1>2
  <2> HIDE DEF id
  <2>2. \E i \in at : \A j \in at : id[i] <= id[j]
    BY <1>2, <2>1, LeastOne
  <2> QED
    BY <2>1, <2>2
<1>4. \E i \in DOMAIN Order : Order[i] \in ts /\ \A j \in 1..(i - 1) : Order[j] \notin ts
  BY <1>1, <1>3
<1> QED
  BY <1>4 DEF FirstOf

LEMMA CountIsNatural ==
    ASSUME NEW v, Whole(v), NEW t \in Known
    PROVE  failureCount(v, t) \in Nat
<1>1. t \in UDP => v.udp[t].n \in Nat
  BY DEF Whole, Good, Shape, UDPRecord
<1>2. t \notin UDP => v.http[t].failures \in Nat
  BY NotesAreRecords DEF Known
<1> QED
  BY <1>1, <1>2 DEF failureCount

\* As long as there is a tracker, one is selected.
LEMMA SelectsOne ==
    ASSUME NEW v, Whole(v)
    PROVE  /\ selectTracker(v) \in v.trackers
           /\ selectTracker(v) \in Known /\ selectTracker(v) # None
<1> DEFINE count == [t \in Known |-> failureCount(v, t)]
           fewest == {t \in v.trackers :
                         \A s \in v.trackers : failureCount(v, t) <= failureCount(v, s)}
           lowest == {t \in fewest : \A s \in fewest : Tier[t] <= Tier[s]}
<1>1. v.trackers \subseteq Known /\ v.trackers # {}
  BY DEF Whole
<1>2. fewest # {} /\ fewest \subseteq v.trackers
  <2>1. \A t \in v.trackers : count[t] = failureCount(v, t) /\ count[t] \in Nat
    BY <1>1, CountIsNatural
  <2> HIDE DEF count
  <2>2. \E t \in v.trackers : \A s \in v.trackers : count[t] <= count[s]
    BY <1>1, <2>1, LeastOne
  <2> QED
    BY <2>1, <2>2
<1>3. selectTracker(v) = FirstOf(lowest)
  BY <1>1 DEF selectTracker
<1> HIDE DEF fewest
<1>4. lowest # {} /\ lowest \subseteq v.trackers
  <2>1. \A t \in fewest : Tier[t] \in Nat
    BY <1>1, <1>2, TrackerConstants
  <2>2. \E t \in fewest : \A s \in fewest : Tier[t] <= Tier[s]
    BY <1>2, <2>1, LeastOne
  <2> QED
    BY <1>2, <2>2
<1> HIDE DEF lowest
<1>5. FirstOf(lowest) \in v.trackers
  BY <1>1, <1>4, FirstOfIsOne
<1> QED
  BY <1>1, <1>3, <1>5, TrackerConstants

\* The slots of the manager: the tracker t has got an answer, or failed.
LEMMA OKSlot ==
    ASSUME NEW v, NEW t \in Known, Fine(v)
    PROVE  LET u == requestOK(v, t)
           IN  /\ Same(v, u) /\ u.curr = v.curr
               /\ v.curr # t => u = v
               /\ v.curr = t => u.timer = (v.timer \/ v.started)
<1> DEFINE b == v.timer \/ v.started
           x == [v EXCEPT !.timer = b]
           y == [x EXCEPT !.pending = FALSE]
<1>1. b \in BOOLEAN
  BY DEF Fine, Whole
<1>2. requestOK(v, t) = IF v.curr = t THEN y ELSE v
  BY DEF requestOK, onTrackerOK
<1>3. Same(v, v)
  BY DEF Same, Goes
<1> HIDE DEF b
<1>4. Same(v, x) /\ x.timer = b /\ x.curr = v.curr
  BY <1>1, ManagerNotes
<1> HIDE DEF x
<1>5. Same(x, y) /\ y.timer = x.timer /\ y.curr = x.curr
  BY <1>4, ManagerNotes DEF Same, Goes
<1> HIDE DEF y
<1>6. Same(v, y)
  BY <1>4, <1>5, GoesIsTransitive DEF Same
<1> QED
  BY <1>2, <1>3, <1>4, <1>5, <1>6 DEF b

LEMMA FailedSlot ==
    ASSUME NEW v, NEW t \in Known, Fine(v)
    PROVE  LET u == requestFailed(v, t)
           IN  /\ Goes(v, u)
               /\ v.curr # t => u = v
               /\ v.curr = t => /\ v.started => u.timer \/ InHand(u, u.curr)
                                /\ ~v.started => u.timer = v.timer
<1> DEFINE q == [v EXCEPT !.pending = FALSE]
           r == [q EXCEPT !.timer = TRUE]
           s == selectTracker(v)
           x == stop(q, t)
           y == [x EXCEPT !.curr = s]
           z == [y EXCEPT !.timer = TRUE]
           a == start(y, s)
<1>1. requestFailed(v, t) = IF v.curr # t THEN v
                            ELSE IF ~v.started THEN q
                            ELSE IF s = None THEN r
                            ELSE IF failureCount(y, s) = 0 THEN a ELSE z
  BY DEF requestFailed, onTrackerError, switchTracker
<1>2. Goes(v, v)
  BY DEF Goes
<1>3. s \in Known /\ s # None
  BY SelectsOne DEF Fine
<1> HIDE DEF s, r
<1>4. Goes(v, q) /\ q.timer = v.timer /\ q.curr = v.curr
  BY ManagerNotes DEF Same
<1> HIDE DEF q
<1>5. Goes(q, x)
  BY <1>4, TrackerCalls, AsksGoes DEF Goes
<1> HIDE DEF x
<1>6. Goes(x, y) /\ y.curr = s
  BY <1>3, <1>5, ManagerNotes DEF Same, Goes
<1> HIDE DEF y
<1>7. Goes(y, z) /\ z.timer = TRUE
  BY <1>6, ManagerNotes DEF Same, Goes
<1>8. Goes(y, a) /\ InHand(a, s) /\ a.curr = s
  <2>1. Asks(y, a, s)
    BY <1>3, <1>6, TrackerCalls DEF Goes
  <2> QED
    BY <1>3, <1>6, <2>1, AsksGoes DEF Goes, Asks, Only
<1> HIDE DEF z, a
<1>9. Goes(v, z) /\ Goes(v, a)
  BY <1>4, <1>5, <1>6, <1>7, <1>8, GoesIsTransitive
<1> QED
  BY <1>1, <1>2, <1>3, <1>4, <1>7, <1>8, <1>9

LEMMA SelectAndStartGoes ==
    ASSUME NEW v, Fine(v)
    PROVE  LET u == SelectAndStart(v)
           IN  Goes(v, u) /\ u.timer = v.timer /\ InHand(u, u.curr)
<1> DEFINE s == selectTracker(v)
           y == [v EXCEPT !.curr = s]
           a == start(y, s)
<1>1. s \in Known /\ s # None
  BY SelectsOne DEF Fine
<1>2. SelectAndStart(v) = a
  BY <1>1 DEF SelectAndStart, switchTracker
<1> HIDE DEF s
<1>3. Goes(v, y) /\ y.curr = s /\ y.timer = v.timer
  BY <1>1, ManagerNotes DEF Same
<1> HIDE DEF y
<1>4. Asks(y, a, s)
  BY <1>1, <1>3, TrackerCalls DEF Goes
<1>5. Goes(y, a)
  BY <1>1, <1>3, <1>4, AsksGoes DEF Goes
<1>6. a.timer = v.timer /\ InHand(a, a.curr)
  BY <1>3, <1>4 DEF Asks, Only
<1> QED
  BY <1>2, <1>3, <1>5, <1>6, GoesIsTransitive

-----------------------------------------------------------------------------
(* Steps: each keeps the torrent going *)

Waits(v) == \A t \in Known : QueueWaits(v, t)

LEMMA NowFine ==
    ASSUME WatchInv
    PROVE  /\ Fine(w) /\ Waits(w) /\ Watched(w)
           /\ w.curr \in Known \cup {None} /\ w.started \in BOOLEAN /\ w.timer \in BOOLEAN
BY DEF WatchInv, Settled, Fine, Waits, Whole

LEMMA KeepsGoing ==
    ASSUME Fine(w'), Waits(w'), Watched(w'), Known \ Custom \subseteq w'.trackers,
           calls' \in 0..MaxCalls
    PROVE  WatchInv'
BY DEF WatchInv, Fine, Waits, Settled, Whole, Good, IInv

\* A step that ends with calls
LEMMA CallsKeepGoing ==
    ASSUME NEW v, Fine(v), Waits(v), Known \ Custom \subseteq v.trackers, Goes(v, w'),
           Watched(w'), calls' \in 0..MaxCalls
    PROVE  WatchInv'
BY KeepsGoing DEF Goes, Waits

LEMMA CallsAreCounted ==
    ASSUME WatchInv, Call \/ Quietly
    PROVE  calls' \in 0..MaxCalls
BY TrackerConstants DEF WatchInv, Call, Quietly

LEMMA AskingIsWatched ==
    ASSUME NEW v, InHand(v, v.curr), ~v.started => ~v.timer
    PROVE  Watched(v)
BY DEF Watched

LEMMA StartWatched ==
    ASSUME WatchInv, Start
    PROVE  WatchInv'
<1> DEFINE v == [w EXCEPT !.started = TRUE]
<1>1. w' = IF w.curr = None THEN SelectAndStart(v) ELSE start(v, w.curr)
  BY DEF Start
<1>2. calls' \in 0..MaxCalls
  BY CallsAreCounted DEF Start
<1>3. Fine(v) /\ Waits(v) /\ v.started = TRUE /\ v.curr = w.curr /\ v.trackers = w.trackers
  <2>1. /\ DOMAIN v = Fields /\ v.requests = w.requests /\ v.transactions = w.transactions
        /\ v.udp = w.udp /\ v.http = w.http /\ v.started = TRUE /\ v.timer = w.timer
        /\ v.pending = w.pending /\ v.trackers = w.trackers /\ v.curr = w.curr
    BY NowFine DEF Fine, Whole, Good, Shape, Fields
  <2> HIDE DEF v
  <2>2. v.pending \in BOOLEAN /\ v.trackers \in SUBSET Known /\ v.trackers # {}
    BY <2>1, NowFine DEF Fine, Whole
  <2>3. Fine(v) /\ \A t \in Known : QueueWaits(v, t) <=> QueueWaits(w, t)
    BY <2>1, <2>2, NowFine, ManagerWhole
  <2> QED
    BY <2>1, <2>3, NowFine DEF Waits
<1>4. Known \ Custom \subseteq v.trackers /\ w.curr \in Known \cup {None}
  BY <1>3, NowFine DEF WatchInv
<1> HIDE DEF v
<1>5. CASE w.curr = None
  <2>1. Goes(v, w') /\ InHand(w', w'.curr)
    BY <1>1, <1>3, <1>5, SelectAndStartGoes
  <2>2. Watched(w')
    BY <1>3, <2>1, AskingIsWatched DEF Goes
  <2> QED
    BY <1>2, <1>3, <1>4, <2>1, <2>2, CallsKeepGoing
<1>6. CASE w.curr # None
  <2>1. w.curr \in Known
    BY <1>4, <1>6
  <2>2. Asks(v, w', w.curr)
    BY <1>1, <1>3, <1>6, <2>1, TrackerCalls
  <2>3. Goes(v, w')
    BY <1>3, <2>1, <2>2, AsksGoes
  <2>4. Watched(w')
    BY <1>3, <2>2, AskingIsWatched DEF Asks, Only
  <2> QED
    BY <1>2, <1>3, <1>4, <2>3, <2>4, CallsKeepGoing
<1> QED
  BY <1>5, <1>6

LEMMA StopWatched ==
    ASSUME WatchInv, Stop
    PROVE  WatchInv'
<1> DEFINE v == [w EXCEPT !.started = FALSE]
           u == IF w.curr = None THEN v ELSE stop(v, w.curr)
<1>1. w' = [u EXCEPT !.timer = FALSE]
  BY DEF Stop
<1>2. calls' \in 0..MaxCalls
  BY CallsAreCounted DEF Stop
<1>3. Fine(v) /\ Waits(v) /\ v.started = FALSE /\ v.trackers = w.trackers
  <2>1. /\ DOMAIN v = Fields /\ v.requests = w.requests /\ v.transactions = w.transactions
        /\ v.udp = w.udp /\ v.http = w.http /\ v.started = FALSE /\ v.timer = w.timer
        /\ v.pending = w.pending /\ v.trackers = w.trackers /\ v.curr = w.curr
    BY NowFine DEF Fine, Whole, Good, Shape, Fields
  <2> HIDE DEF v
  <2>2. /\ v.pending \in BOOLEAN /\ v.trackers \in SUBSET Known /\ v.trackers # {}
        /\ v.started \in BOOLEAN
    BY <2>1, NowFine DEF Fine, Whole
  <2>3. Fine(v) /\ \A t \in Known : QueueWaits(v, t) <=> QueueWaits(w, t)
    BY <2>1, <2>2, NowFine, ManagerWhole
  <2> QED
    BY <2>1, <2>3, NowFine DEF Waits
<1> HIDE DEF v
<1>4. Goes(v, u)
  <2>1. Goes(v, v)
    BY <1>3 DEF Goes
  <2>2. w.curr \in Known => Goes(v, stop(v, w.curr))
    BY <1>3, TrackerCalls, AsksGoes
  <2> QED
    BY <2>1, <2>2, NowFine
<1> HIDE DEF u
<1>5. Goes(u, w') /\ w'.timer = FALSE
  BY <1>1, <1>4, ManagerNotes DEF Goes, Same
<1>6. Watched(w') /\ Goes(v, w')
  <2>1. Goes(v, w')
    BY <1>4, <1>5, GoesIsTransitive
  <2> QED
    BY <1>3, <1>5, <2>1 DEF Goes, Watched
<1> QED
  BY <1>2, <1>3, <1>6, CallsKeepGoing DEF WatchInv

\* A call that the current tracker answers by asking
LEMMA AskingStep ==
    ASSUME WatchInv, NEW v, Goes(w, v), v.timer \in BOOLEAN, w.started \/ ~v.timer,
           NEW t \in Known, v.curr = t, Asks(v, w', t), calls' \in 0..MaxCalls
    PROVE  WatchInv'
<1>1. Goes(w, w')
  BY AsksGoes, GoesIsTransitive DEF Goes
<1>2. Watched(w')
  BY AskingIsWatched DEF Asks, Only, Goes
<1> QED
  BY <1>1, <1>2, NowFine, CallsKeepGoing DEF WatchInv

LEMMA UpdatesWatched ==
    ASSUME WatchInv, Completed \/ ManualUpdate \/ TimerFires
    PROVE  WatchInv'
<1> DEFINE v == [w EXCEPT !.timer = FALSE]
<1>1. calls' \in 0..MaxCalls
  BY CallsAreCounted DEF Completed, ManualUpdate, TimerFires
<1>2. Goes(w, w) /\ (w.started \/ ~w.timer)
  BY NowFine DEF Goes, Watched
<1>3. CASE Completed
  <2>1. w.curr \in Known /\ Asks(w, w', w.curr)
    BY <1>3, NowFine, TrackerCalls DEF Completed
  <2> QED
    BY <1>1, <1>2, <2>1, NowFine, AskingStep
<1>4. Goes(w, v) /\ v.timer = FALSE /\ v.curr = w.curr
  BY NowFine, ManagerNotes DEF Same
<1>5. CASE ManualUpdate \/ TimerFires
  <2>1. w' = IF w.curr = None THEN v ELSE manualUpdate(v, w.curr)
    <3>1. ManualUpdate => w.curr # None /\ w' = manualUpdate(v, w.curr)
      BY DEF ManualUpdate
    <3>2. TimerFires => w' = IF w.curr = None THEN v ELSE manualUpdate(v, w.curr)
      BY DEF TimerFires
    <3> HIDE DEF v
    <3> QED
      BY <1>5, <3>1, <3>2
  <2> HIDE DEF v
  <2>2. CASE w.curr # None
    <3>1. w.curr \in Known
      BY <2>2, NowFine
    <3>2. Asks(v, w', w.curr)
      BY <1>4, <2>1, <2>2, <3>1, TrackerCalls DEF Goes
    <3> QED
      BY <1>1, <1>4, <3>1, <3>2, AskingStep
  <2>3. CASE w.curr = None
    <3>1. Goes(w, w') /\ Watched(w')
      BY <1>4, <2>1, <2>3 DEF Watched
    <3> QED
      BY <1>1, <3>1, NowFine, CallsKeepGoing DEF WatchInv
  <2> QED
    BY <2>2, <2>3
<1> QED
  BY <1>3, <1>5

LEMMA SetTrackerWatched ==
    ASSUME WatchInv, NEW t \in Known, SetTracker(t)
    PROVE  WatchInv'
<1> DEFINE v == IF w.curr = None THEN w ELSE stop(w, w.curr)
           u == [v EXCEPT !.curr = t]
<1>1. w' = start(u, t)
  BY DEF SetTracker, switchTracker
<1>2. calls' \in 0..MaxCalls
  BY CallsAreCounted DEF SetTracker
<1>3. Goes(w, v) /\ v.timer = w.timer
  <2>1. Goes(w, w)
    BY NowFine DEF Goes
  <2>2. w.curr \in Known => /\ Goes(w, stop(w, w.curr))
                            /\ stop(w, w.curr).timer = w.timer
    BY NowFine, TrackerCalls, AsksGoes DEF Ends, Only
  <2> QED
    BY <2>1, <2>2, NowFine
<1> HIDE DEF v
<1>4. Goes(v, u) /\ u.timer = v.timer /\ u.curr = t
  BY <1>3, ManagerNotes DEF Goes, Same
<1> HIDE DEF u
<1>5. Goes(w, u)
  BY <1>3, <1>4, GoesIsTransitive
<1>6. Asks(u, w', t)
  BY <1>1, <1>4, TrackerCalls DEF Goes
<1>7. w.started \/ ~u.timer
  BY <1>3, <1>4, NowFine DEF Watched
<1> QED
  BY <1>2, <1>3, <1>4, <1>5, <1>6, <1>7, NowFine, AskingStep

\* The list of trackers changes, and nothing else.
LEMMA ListChanges ==
    ASSUME NEW v, Fine(v), NEW list \in SUBSET Known, list # {}
    PROVE  LET u == [v EXCEPT !.trackers = list]
           IN  /\ Fine(u) /\ (Waits(v) => Waits(u))
               /\ u.started = v.started /\ u.timer = v.timer /\ u.curr = v.curr
               /\ u.trackers = list
               /\ \A t \in Known : InHand(u, t) <=> InHand(v, t)
<1> DEFINE u == [v EXCEPT !.trackers = list]
<1>1. /\ DOMAIN u = Fields /\ u.requests = v.requests /\ u.transactions = v.transactions
      /\ u.udp = v.udp /\ u.http = v.http /\ u.started = v.started /\ u.timer = v.timer
      /\ u.pending = v.pending /\ u.trackers = list /\ u.curr = v.curr
  BY DEF Fine, Whole, Good, Shape, Fields
<1> HIDE DEF u
<1>2. /\ u.pending \in BOOLEAN /\ u.timer \in BOOLEAN /\ u.started \in BOOLEAN
      /\ u.curr \in Known \cup {None}
  BY <1>1 DEF Fine, Whole
<1>3. Fine(u) /\ \A t \in Known : /\ QueueWaits(u, t) <=> QueueWaits(v, t)
                                  /\ InHand(u, t) <=> InHand(v, t)
  BY <1>1, <1>2, ManagerWhole
<1> QED
  BY <1>1, <1>3 DEF u, Waits

LEMMA AddTrackerWatched ==
    ASSUME WatchInv, NEW t \in Known, AddTracker(t)
    PROVE  WatchInv'
<1> DEFINE list == w.trackers \cup {t}
<1>1. w' = [w EXCEPT !.trackers = list] /\ calls' \in 0..MaxCalls
  BY CallsAreCounted DEF AddTracker
<1>2. list \in SUBSET Known /\ list # {} /\ w.trackers \subseteq list
  BY NowFine DEF Fine, Whole
<1> HIDE DEF list
<1>3. /\ Fine(w') /\ Waits(w') /\ w'.trackers = list
      /\ w'.started = w.started /\ w'.timer = w.timer /\ w'.curr = w.curr
      /\ \A s \in Known : InHand(w', s) <=> InHand(w, s)
  BY <1>1, <1>2, NowFine, ListChanges
<1>4. Watched(w')
  BY <1>3, NowFine DEF Watched
<1>5. Known \ Custom \subseteq w'.trackers
  BY <1>2, <1>3 DEF WatchInv
<1> QED
  BY <1>1, <1>3, <1>4, <1>5, KeepsGoing

LEMMA RemoveTrackerWatched ==
    ASSUME OwnTracker, WatchInv, NEW t \in Known, RemoveTracker(t)
    PROVE  WatchInv'
<1> DEFINE list == w.trackers \ {t}
           x == stop(w, t)
           y == [x EXCEPT !.trackers = list]
<1>1. calls' \in 0..MaxCalls /\ t \in Custom
  BY CallsAreCounted DEF RemoveTracker
<1>2. list \in SUBSET Known /\ list # {} /\ Known \ Custom \subseteq list
  BY <1>1 DEF OwnTracker, WatchInv, Whole
<1>3. CASE w.curr # t
  <2>1. w' = [w EXCEPT !.trackers = list]
    BY <1>3 DEF RemoveTracker
  <2> HIDE DEF list
  <2>2. /\ Fine(w') /\ Waits(w') /\ w'.trackers = list
        /\ w'.started = w.started /\ w'.timer = w.timer /\ w'.curr = w.curr
        /\ \A s \in Known : InHand(w', s) <=> InHand(w, s)
    BY <1>2, <2>1, NowFine, ListChanges
  <2>3. Watched(w')
    BY <2>2, NowFine DEF Watched
  <2> QED
    BY <1>1, <1>2, <2>2, <2>3, KeepsGoing
<1>4. CASE w.curr = t
  <2>1. Ends(w, x, t)
    BY NowFine, TrackerCalls
  <2>2. Goes(w, x) /\ x.timer = w.timer /\ x.trackers = w.trackers
    BY <2>1, NowFine, AsksGoes DEF Ends, Only
  <2>3. w' = SelectAndStart(y)
    BY <1>4, <2>2 DEF RemoveTracker
  <2> HIDE DEF x, list
  <2>4. /\ Fine(y) /\ Waits(y) /\ y.trackers = list
        /\ y.started = w.started /\ y.timer = w.timer
    BY <1>2, <2>2, NowFine, ListChanges DEF Goes, Waits
  <2> HIDE DEF y
  <2>5. Goes(y, w') /\ w'.timer = y.timer /\ InHand(w', w'.curr)
    BY <2>3, <2>4, SelectAndStartGoes
  <2>6. Watched(w')
    BY <2>4, <2>5, NowFine DEF Goes, Watched
  <2> QED
    BY <1>1, <1>2, <2>4, <2>5, <2>6, CallsKeepGoing
<1> QED
  BY <1>3, <1>4

LEMMA RestoreDefaultWatched ==
    ASSUME OwnTracker, WatchInv, RestoreDefault
    PROVE  WatchInv'
<1> DEFINE left == w.trackers \ Custom
           first == FirstOf(left)
           v == IF w.curr \in Custom THEN stop(w, w.curr) ELSE w
           x == [v EXCEPT !.trackers = left]
           s == IF w.curr \notin Custom THEN w.curr ELSE first
           u == [x EXCEPT !.curr = s]
<1>1. calls' \in 0..MaxCalls
  BY CallsAreCounted DEF RestoreDefault
<1>2. left \in SUBSET Known /\ left # {} /\ Known \ Custom \subseteq left
  BY DEF OwnTracker, WatchInv, Whole
<1>3. first \in left /\ first \in Known /\ first \notin Custom
  BY <1>2, FirstOfIsOne
<1> HIDE DEF first
<1>4. /\ Goes(w, v) /\ v.timer = w.timer /\ v.curr = w.curr
      /\ w.curr \notin Custom => v = w
  <2>1. Goes(w, w)
    BY NowFine DEF Goes
  <2>2. w.curr \in Custom => /\ Goes(w, stop(w, w.curr))
                             /\ stop(w, w.curr).timer = w.timer
                             /\ stop(w, w.curr).curr = w.curr
    BY NowFine, TrackerCalls, AsksGoes, TrackerConstants DEF Ends, Only
  <2> QED
    BY <2>1, <2>2
<1>5. DOMAIN v = Fields /\ w.curr \in Known \cup {None}
  BY <1>4, NowFine DEF Goes, Fine, Whole, Good, Shape
<1>6. w' = IF s # w.curr /\ s # None /\ w.started THEN start(u, s) ELSE u
  <2> DEFINE z == [v EXCEPT !.trackers = left,
                            !.curr = IF @ \notin Custom THEN @
                                     ELSE IF left = {} THEN None ELSE FirstOf(left)]
  <2>1. w' = IF z.curr # w.curr /\ z.curr # None /\ w.started THEN start(z, z.curr) ELSE z
    BY DEF RestoreDefault
  <2> HIDE DEF left, v
  <2>2. z = u /\ z.curr = s
    BY <1>2, <1>4, <1>5 DEF first, Fields
  <2> QED
    BY <2>1, <2>2
<1> HIDE DEF v, left
<1>7. /\ Fine(x) /\ Waits(x) /\ x.trackers = left
      /\ x.started = w.started /\ x.timer = w.timer /\ x.curr = w.curr
      /\ \A t \in Known : InHand(x, t) <=> InHand(v, t)
  BY <1>2, <1>4, NowFine, ListChanges, ZenonT(60) DEF Goes, Waits
<1>8. s \in Known \cup {None}
  BY <1>3, <1>5
<1> HIDE DEF x, s
<1>9. Same(x, u) /\ u.timer = w.timer /\ u.curr = s
  BY <1>7, <1>8, ManagerNotes
<1> HIDE DEF u
<1>10. Fine(u) /\ Waits(u) /\ u.trackers = left /\ u.started = w.started
  BY <1>7, <1>9 DEF Same, Goes, Waits
<1>11. CASE w.curr \notin Custom
  <2>1. s = w.curr /\ w' = u /\ v = w
    BY <1>4, <1>6, <1>11 DEF s
  <2>2. \A t \in Known : InHand(u, t) <=> InHand(w, t)
    BY <1>7, <1>9, <2>1 DEF Same
  <2>3. Watched(w')
    BY <1>5, <1>9, <1>10, <2>1, <2>2, NowFine DEF Watched
  <2> QED
    BY <1>1, <1>2, <1>10, <2>1, <2>3, KeepsGoing
<1>12. CASE w.curr \in Custom
  <2>1. s = first /\ s # w.curr /\ s \in Known /\ s # None
    BY <1>3, <1>12, TrackerConstants DEF s
  <2>2. CASE w.started
    <3>1. Asks(u, w', s)
      BY <1>6, <1>10, <2>1, <2>2, TrackerCalls
    <3>2. Goes(u, w')
      BY <1>10, <2>1, <3>1, AsksGoes
    <3>3. Watched(w')
      BY <1>9, <1>10, <2>2, <3>1, AskingIsWatched DEF Asks, Only
    <3> QED
      BY <1>1, <1>2, <1>10, <3>2, <3>3, CallsKeepGoing
  <2>3. CASE ~w.started
    <3>1. w' = u
      BY <1>6, <2>3
    <3>2. Watched(w')
      BY <1>9, <1>10, <2>3, <3>1, NowFine DEF Watched
    <3> QED
      BY <1>1, <1>2, <1>10, <3>1, <3>2, KeepsGoing
  <2> QED
    BY <2>2, <2>3
<1> QED
  BY <1>11, <1>12

\* What a tracker does on its own leaves the torrent watched.
LEMMA TrackerStep ==
    ASSUME WatchInv, NEW v, NEW t \in Known, Only(w, v, t), Told(v, t), JobRuns(v, t),
           QueueWaits(v, t), InHand(w, t) => InHand(v, t)
    PROVE  Goes(w, v) /\ Watched(v) /\ v.curr = w.curr
<1>1. Goes(w, v)
  BY NowFine, OnlyGoes
<1>2. v.started = w.started /\ v.timer = w.timer /\ v.curr = w.curr
  BY DEF Only
<1>3. \A s \in Known : InHand(w, s) => InHand(v, s)
  <2> TAKE s \in Known
  <2>1. s # t => (InHand(w, s) <=> InHand(v, s))
    BY SettledElsewhere
  <2> QED
    BY <2>1
<1>4. w.started /\ w.curr # None => w.timer \/ InHand(w, w.curr)
  BY NowFine DEF Watched
<1>5. ~w.started => ~w.timer
  BY NowFine DEF Watched
<1> QED
  BY <1>1, <1>2, <1>3, <1>4, <1>5, NowFine DEF Watched

LEMMA ConnTimeoutWatched ==
    ASSUME WatchInv, NEW t \in UDP, ConnTimeout(t)
    PROVE  WatchInv'
<1>1. w' = onConnTimeout(w, t) /\ calls' \in 0..MaxCalls
  BY CallsAreCounted DEF ConnTimeout
<1>2. t \in Known /\ t \notin HTTP
  BY TrackerConstants DEF Known
<1>3. Only(w, w', t) /\ Told(w', t) /\ (InHand(w, t) => InHand(w', t))
  BY <1>1, <1>2, NowFine, UDPCallsAreKept DEF Fine
<1>4. Goes(w, w') /\ Watched(w')
  BY <1>2, <1>3, TrackerStep DEF JobRuns, QueueWaits
<1> QED
  BY <1>1, <1>4, NowFine, CallsKeepGoing DEF WatchInv

\* An answer is taken: the transaction is forgotten.
LEMMA TakenOnly ==
    ASSUME WatchInv, NEW t \in UDP, NEW r \in w.transactions
    PROVE  LET v == Taken(t, r)
           IN  /\ Only(w, v, t)
               /\ v.udp[t].event = w.udp[t].event /\ v.udp[t].started = w.udp[t].started
               /\ v.udp[t].connected = w.udp[t].connected
               /\ v.udp[t].conn_timer = w.udp[t].conn_timer
<1> DEFINE v == Taken(t, r)
<1>1. Good(v)
  BY TakenIsGood DEF WatchInv
<1>2. /\ UDPNote(w, v, t)
      /\ v.udp[t].event = w.udp[t].event /\ v.udp[t].started = w.udp[t].started
      /\ v.udp[t].connected = w.udp[t].connected /\ v.udp[t].conn_timer = w.udp[t].conn_timer
  BY DEF WatchInv, Taken, UDPNote, SameManager, Whole, Good, Shape, Fields, UDPRecord
<1> HIDE DEF v
<1>3. Only(w, v, t)
  BY <1>1, <1>2, UDPNoteIsOnly DEF WatchInv
<1> QED
  BY <1>2, <1>3 DEF v

LEMMA TakenWatched ==
    ASSUME WatchInv, NEW t \in UDP, NEW r \in w.transactions
    PROVE  LET v == Taken(t, r)
           IN  Goes(w, v) /\ Watched(v) /\ v.curr = w.curr
<1> DEFINE v == Taken(t, r)
<1>1. t \in Known /\ t \notin HTTP
  BY TrackerConstants DEF Known
<1>2. /\ Only(w, v, t)
      /\ v.udp[t].event = w.udp[t].event /\ v.udp[t].started = w.udp[t].started
      /\ v.udp[t].connected = w.udp[t].connected
      /\ v.udp[t].conn_timer = w.udp[t].conn_timer
  BY TakenOnly
<1> HIDE DEF v
<1>3. Told(w, t)
  BY <1>1, NowFine DEF Fine
<1>4. Told(v, t) /\ (InHand(w, t) => InHand(v, t))
  BY <1>1, <1>2, <1>3 DEF Told, InHand
<1>5. Goes(w, v) /\ Watched(v) /\ v.curr = w.curr
  BY <1>1, <1>2, <1>4, TrackerStep DEF JobRuns, QueueWaits
<1> QED
  BY <1>5 DEF v

LEMMA ReceiveConnectWatched ==
    ASSUME WatchInv, NEW t \in UDP, NEW r \in w.transactions, ReceiveConnect(t, r)
    PROVE  WatchInv'
<1> DEFINE v == Taken(t, r)
           x == [v EXCEPT !.udp[t].connected = TRUE]
           y == [x EXCEPT !.udp[t].n = 0]
<1>1. w' = sendAnnounce(y, t) /\ calls' \in 0..MaxCalls
  BY CallsAreCounted DEF ReceiveConnect
<1>2. t \in Known /\ t \notin HTTP
  BY TrackerConstants DEF Known
<1>3. Only(w, v, t) /\ v.udp[t].event = w.udp[t].event /\ v.udp[t].started = w.udp[t].started
  BY TakenOnly
<1> HIDE DEF v
<1>4. Noted(v, x, t, [v.udp[t] EXCEPT !.connected = TRUE])
  BY <1>3, OnlyIsWhole, NoteConnected, TRUE \in BOOLEAN, Zenon
<1> HIDE DEF x
<1>5. Only(v, x, t) /\ Whole(x)
  BY <1>4, OnlyIsWhole DEF Noted
<1>6. Noted(x, y, t, [x.udp[t] EXCEPT !.n = 0])
  BY <1>5, NoteTries, 0 \in Nat, Zenon
<1> HIDE DEF y
<1>7. v.udp[t] \in UDPRecord /\ x.udp[t] \in UDPRecord
  BY <1>3, <1>5 DEF Only, Whole, Good, Shape
<1>8. /\ Only(x, y, t) /\ y.udp[t].event = w.udp[t].event
      /\ y.udp[t].started = w.udp[t].started /\ y.udp[t].connected
  BY <1>3, <1>4, <1>6, <1>7 DEF Noted, UDPRecord
<1>9. /\ Only(y, w', t) /\ w'.udp[t].event = y.udp[t].event
      /\ w'.udp[t].started = y.udp[t].started /\ w'.udp[t].connected
  <2>1. Whole(y) /\ Good(y)
    BY <1>8 DEF Only, Whole
  <2>2. Good(w')
    BY <1>1, <2>1, SendIsLater, LaterIsGood DEF sendAnnounce
  <2>3. /\ UDPNote(y, w', t) /\ w'.udp[t].event = y.udp[t].event
        /\ w'.udp[t].started = y.udp[t].started /\ w'.udp[t].connected
    BY <1>1, <1>8, <2>1 DEF sendAnnounce, Send, UDPNote, SameManager, Fields, UDPRecord, Good,
                            Shape, Whole
  <2> QED
    BY <2>1, <2>2, <2>3, UDPNoteIsOnly
<1>10. Only(w, w', t)
  BY <1>3, <1>5, <1>8, <1>9, OnlyIsTransitive
<1>11. Told(w, t)
  BY <1>2, NowFine DEF Fine
<1>12. Told(w', t) /\ (InHand(w, t) => InHand(w', t))
  BY <1>2, <1>8, <1>9, <1>11 DEF Told, InHand
<1>13. Goes(w, w') /\ Watched(w')
  BY <1>2, <1>10, <1>12, TrackerStep DEF JobRuns, QueueWaits
<1> QED
  BY <1>1, <1>13, NowFine, CallsKeepGoing DEF WatchInv

\* The slots leave a torrent watched whose current tracker is t.
LEMMA SlotsWatched ==
    ASSUME NEW v, NEW t \in Known, Fine(v), ~v.started => ~v.timer,
           v.curr # t => Watched(v)
    PROVE  /\ Watched(requestOK(v, t))
           /\ Watched(requestFailed(v, t))
<1>1. v.curr \in Known \cup {None} /\ v.timer \in BOOLEAN /\ v.started \in BOOLEAN
  BY DEF Fine, Whole
<1>2. Watched(requestOK(v, t))
  <2> DEFINE u == requestOK(v, t)
  <2>1. /\ u.started = v.started /\ (v.curr # t => u = v)
        /\ v.curr = t => u.timer = (v.timer \/ v.started)
    BY OKSlot DEF Same, Goes
  <2> HIDE DEF u
  <2>2. Watched(u)
    BY <1>1, <2>1 DEF Watched
  <2> QED
    BY <2>2 DEF u
<1>3. Watched(requestFailed(v, t))
  <2> DEFINE u == requestFailed(v, t)
  <2>1. /\ u.started = v.started /\ (v.curr # t => u = v)
        /\ v.curr = t => /\ v.started => u.timer \/ InHand(u, u.curr)
                         /\ ~v.started => u.timer = v.timer
    BY FailedSlot DEF Goes
  <2> HIDE DEF u
  <2>2. Watched(u)
    BY <1>1, <2>1 DEF Watched
  <2> QED
    BY <2>2 DEF u
<1> QED
  BY <1>2, <1>3

LEMMA ReceiveErrorWatched ==
    ASSUME WatchInv, NEW t \in UDP, NEW r \in w.transactions, ReceiveError(t, r)
    PROVE  WatchInv'
<1> DEFINE v == Taken(t, r)
<1>1. w' = requestFailed(v, t) /\ calls' \in 0..MaxCalls
  BY CallsAreCounted DEF ReceiveError
<1>2. t \in Known
  BY DEF Known
<1>3. Goes(w, v) /\ Watched(v)
  BY TakenWatched
<1> HIDE DEF v
<1>4. Goes(v, w')
  BY <1>1, <1>2, <1>3, FailedSlot DEF Goes
<1>5. Watched(w')
  BY <1>1, <1>2, <1>3, SlotsWatched DEF Goes, Watched
<1>6. Goes(w, w')
  BY <1>3, <1>4, GoesIsTransitive
<1> QED
  BY <1>1, <1>5, <1>6, NowFine, CallsKeepGoing DEF WatchInv

LEMMA ReceiveAnnounceWatched ==
    ASSUME WatchInv, NEW t \in UDP, NEW r \in w.transactions, ReceiveAnnounce(t, r)
    PROVE  WatchInv'
<1> DEFINE v == Taken(t, r)
           e == w.udp[t].event
           event == IF e = "stopped" THEN e ELSE "none"
           u == [v EXCEPT !.udp[t].connected = FALSE,
                          !.udp[t].conn_timer = FALSE,
                          !.udp[t].started = @ \/ e = "started",
                          !.udp[t].event = event]
<1>1. w' = requestOK(u, t) /\ calls' \in 0..MaxCalls
  BY CallsAreCounted DEF ReceiveAnnounce
<1>2. t \in Known /\ t \notin HTTP
  BY TrackerConstants DEF Known
<1>3. /\ Only(w, v, t) /\ Goes(w, v) /\ Watched(v) /\ v.curr = w.curr
      /\ v.udp[t].started = w.udp[t].started
  BY TakenOnly, TakenWatched
<1>4. e \in Events /\ event \in Events /\ (w.udp[t].started => e # "stopped")
  BY <1>2, NowFine DEF Fine, Told, Whole, Good, Shape, UDPRecord, Events
<1> HIDE DEF v, event
<1>5. v.udp[t] \in UDPRecord /\ Good(v) /\ Whole(v)
  BY <1>3 DEF Only, Whole, Good, Shape
<1>6. UDPNote(v, u, t) /\ DOMAIN u = Fields
      /\ u.requests = v.requests /\ u.transactions = v.transactions /\ DOMAIN u.udp = UDP
  BY <1>5 DEF UDPNote, SameManager, Whole, Good, Shape, Fields
<1> DEFINE q == [v.udp[t] EXCEPT !.connected = FALSE, !.conn_timer = FALSE,
                                 !.started = @ \/ e = "started", !.event = event]
<1>7. u.udp[t] = q
  BY <1>5 DEF Good, Shape, Fields, UDPRecord
<1> HIDE DEF u, e
<1>8. /\ q \in UDPRecord /\ q.event = event
      /\ q.started = (v.udp[t].started \/ e = "started")
      /\ q.taken = v.udp[t].taken /\ q.transaction_id = v.udp[t].transaction_id
  BY <1>4, <1>5 DEF UDPRecord
<1> HIDE DEF q
<1>9. Good(u)
  <2>1. \A s \in UDP : /\ u.udp[s].taken = v.udp[s].taken
                       /\ u.udp[s].transaction_id = v.udp[s].transaction_id
                       /\ u.udp[s] \in UDPRecord
    BY <1>5, <1>6, <1>7, <1>8 DEF UDPNote, Good, Shape
  <2>2. u.udp \in [UDP -> UDPRecord]
    <3>1. u.udp = [s \in UDP |-> u.udp[s]]
      <4>1. Good(v) /\ v.udp = [s \in UDP |-> v.udp[s]]
        BY <1>5 DEF Good, Shape
      <4> QED
        BY <1>5, <1>6 DEF u, Good, Shape, Fields
    <3> QED
      BY <2>1, <3>1
  <2>3. Kept(v, u)
    BY <1>5, <1>6, <2>1, <2>2 DEF Kept, Good, Shape
  <2> QED
    BY <1>5, <2>3, KeptIsLater, LaterIsGood
<1>10. Only(v, u, t)
  BY <1>5, <1>6, <1>9, UDPNoteIsOnly
<1>11. Told(u, t)
  <2>1. u.udp[t].event = event /\ u.udp[t].started = (w.udp[t].started \/ e = "started")
    BY <1>3, <1>7, <1>8
  <2>2. u.udp[t].started => event # "stopped"
    BY <1>4, <2>1 DEF event, e
  <2> QED
    BY <1>2, <2>1, <2>2 DEF Told
<1>12. Goes(w, u)
  <2>1. Only(w, u, t)
    BY <1>3, <1>10, OnlyIsTransitive
  <2> QED
    BY <1>2, <1>11, <2>1, NowFine, OnlyGoes DEF JobRuns, QueueWaits
<1>13. (~u.started => ~u.timer) /\ (u.curr # t => Watched(u))
  <2>1. u.started = v.started /\ u.timer = v.timer /\ u.curr = v.curr
    BY <1>10 DEF Only
  <2>2. \A s \in Known \ {t} : InHand(v, s) <=> InHand(u, s)
    BY <1>10, SettledElsewhere
  <2>3. v.curr \in Known \cup {None}
    BY <1>5 DEF Whole
  <2> QED
    BY <1>3, <2>1, <2>2, <2>3 DEF Watched
<1>14. Watched(w')
  BY <1>1, <1>2, <1>12, <1>13, SlotsWatched DEF Goes
<1>15. Goes(w, w')
  BY <1>1, <1>2, <1>12, OKSlot, GoesIsTransitive DEF Goes, Same
<1> QED
  BY <1>1, <1>14, <1>15, NowFine, CallsKeepGoing DEF WatchInv

LEMMA ReceiveLateWatched ==
    ASSUME WatchInv, NEW r \in w.transactions, ReceiveLate(r)
    PROVE  WatchInv'
<1>1. calls' \in 0..MaxCalls
  BY CallsAreCounted DEF ReceiveLate
<1>2. IInv'
  BY LateStep DEF WatchInv
<1>3. /\ w'.udp = w.udp /\ w'.http = w.http /\ w'.started = w.started /\ w'.timer = w.timer
      /\ w'.pending = w.pending /\ w'.trackers = w.trackers /\ w'.curr = w.curr
  BY DEF ReceiveLate, WatchInv, IInv, Shape, Fields
<1>4. Whole(w')
  BY <1>2, <1>3 DEF WatchInv, Whole, IInv, Good
<1>5. \A t \in Known : /\ Settled(w', t) <=> Settled(w, t)
                       /\ InHand(w', t) <=> InHand(w, t)
  BY <1>3 DEF Settled, Told, JobRuns, QueueWaits, InHand
<1>6. Watched(w')
  BY <1>3, <1>5, NowFine DEF Watched
<1> QED
  BY <1>1, <1>2, <1>3, <1>4, <1>5, <1>6 DEF WatchInv

\* A job that has ended leaves the others in the list.
LEMMA RemoveAtLeaves ==
    ASSUME NEW S, NEW s \in Seq(S), NEW i \in 1..Len(s)
    PROVE  /\ RemoveAt(s, i) \in Seq(S)
           /\ \A x \in Range(s) : x # s[i] => x \in Range(RemoveAt(s, i))
<1> DEFINE l == SubSeq(s, 1, i - 1)
           r == SubSeq(s, i + 1, Len(s))
           a == l \o r
<1>1. Len(s) \in Nat /\ i \in Nat /\ i >= 1 /\ i <= Len(s)
  OBVIOUS
<1>2. /\ l \in Seq(S) /\ Len(l) = i - 1
      /\ \A k \in 1..(i - 1) : l[k] = s[k]
  BY <1>1, SubSeqProperties
<1>3. /\ r \in Seq(S) /\ Len(r) = Len(s) - i
      /\ \A k \in 1..(Len(s) - i) : r[k] = s[i + k]
  BY <1>1, SubSeqProperties
<1>4. RemoveAt(s, i) = l \o r
  BY DEF RemoveAt
<1> HIDE DEF l, r
<1>5. /\ l \o r \in Seq(S)
      /\ Len(l \o r) = Len(l) + Len(r)
      /\ \A k \in 1..(Len(l) + Len(r)) :
            (l \o r)[k] = IF k <= Len(l) THEN l[k] ELSE r[k - Len(l)]
  BY <1>2, <1>3, ConcatProperties
<1>6. a \in Seq(S) /\ DOMAIN a = 1..(Len(s) - 1)
  BY <1>1, <1>2, <1>3, <1>5
<1>7. ASSUME NEW k \in 1..Len(s), s[k] # s[i]
      PROVE  \E j \in DOMAIN a : a[j] = s[k]
  <2>1. CASE k < i
    <3>1. k \in DOMAIN a /\ a[k] = s[k]
      BY <2>1, <1>1, <1>2, <1>3, <1>5, <1>6
    <3> QED
      BY <3>1
  <2>2. CASE k > i
    <3>1. k - i \in 1..(Len(s) - i) /\ i + (k - i) = k /\ (k - 1) - (i - 1) = k - i
      BY <2>2, <1>1
    <3>2. k - 1 \in DOMAIN a /\ a[k - 1] = r[k - i]
      BY <2>2, <3>1, <1>1, <1>2, <1>3, <1>5, <1>6
    <3>3. r[k - i] = s[k]
      BY <3>1, <1>3
    <3> QED
      BY <3>2, <3>3
  <2> QED
    BY <2>1, <2>2, <1>1, <1>7
<1>8. DOMAIN s = 1..Len(s)
  OBVIOUS
<1> HIDE DEF a
<1>9. \A x \in Range(s) : x # s[i] => x \in Range(a)
  BY <1>7, <1>8 DEF Range
<1> QED
  BY <1>4, <1>6, <1>9 DEF a

LEMMA OnlyWatched ==
    ASSUME NEW v, NEW u, NEW t \in Known, Whole(v), Watched(v), Only(v, u, t),
           v.curr = t => (InHand(v, t) => InHand(u, t))
    PROVE  Watched(u)
<1>1. u.started = v.started /\ u.timer = v.timer /\ u.curr = v.curr
  BY DEF Only
<1>2. v.curr \in Known \cup {None}
  BY DEF Whole
<1>3. v.curr # t /\ v.curr # None => (InHand(v, v.curr) <=> InHand(u, v.curr))
  BY SettledElsewhere
<1> QED
  BY <1>1, <1>2, <1>3 DEF Watched

\* A note that is not about the jobs or the queue
LEMMA QuietNote ==
    ASSUME NEW v, NEW u, NEW t \in HTTP, Fine(v), Only(v, u, t), Told(u, t),
           u.http[t].jobs = v.http[t].jobs, u.http[t].queue = v.http[t].queue,
           u.http[t].active = v.http[t].active
    PROVE  /\ Goes(v, u) /\ u.curr = v.curr /\ u.timer = v.timer
           /\ Watched(v) => Watched(u)
<1>1. t \in Known /\ t \notin UDP
  BY TrackerConstants DEF Known
<1>2. JobRuns(v, t)
  BY <1>1 DEF Fine
<1>3. JobRuns(u, t) /\ (QueueWaits(v, t) => QueueWaits(u, t)) /\ (InHand(v, t) => InHand(u, t))
  BY <1>1, <1>2 DEF JobRuns, QueueWaits, InHand
<1>4. Goes(v, u) /\ u.curr = v.curr /\ u.timer = v.timer
  BY <1>1, <1>3, OnlyGoes DEF Only
<1>5. Watched(v) => Watched(u)
  BY <1>1, <1>3, OnlyWatched DEF Fine
<1> QED
  BY <1>4, <1>5

LEMMA EndedEffect ==
    ASSUME WatchInv, NEW t \in HTTP, NEW i \in DOMAIN w.http[t].jobs
    PROVE  LET v == Ended(t, i)
           IN  /\ Fine(v) /\ Only(w, v, t) /\ Goes(w, w)
               /\ \A s \in Known \ {t} : QueueWaits(v, s)
               /\ (w.http[t].jobs[i] = "stopped" \/ v.curr # t) => Watched(v)
<1> DEFINE v == Ended(t, i)
           jobs == w.http[t].jobs
           j == RemoveAt(jobs, i)
           rec == [w.http[t] EXCEPT !.jobs = j, !.active = FALSE]
<1>1. t \in Known /\ t \notin UDP
  BY TrackerConstants DEF Known
<1>2. /\ w.http[t] \in HTTPRecord /\ jobs \in Seq(Events) /\ i \in 1..Len(jobs)
      /\ Whole(w)
  BY NotesAreRecords DEF WatchInv
<1>3. j \in Seq(Events) /\ \A x \in Range(jobs) : x # jobs[i] => x \in Range(j)
  BY <1>2, RemoveAtLeaves
<1>4. Good(v)
  <2>1. /\ DOMAIN v = Fields /\ v.requests = w.requests
        /\ v.transactions = w.transactions /\ v.udp = w.udp
    BY <1>2 DEF Ended, Whole, Good, Shape, Fields
  <2> QED
    BY <1>2, <2>1, OtherFields, LaterIsGood DEF Whole
<1>5. SameManager(w, v) /\ v.udp = w.udp /\ v.http = [w.http EXCEPT ![t] = rec]
  BY <1>2 DEF Ended, SameManager, Whole, Good, Shape, Fields
<1> HIDE DEF v, j
<1>6. rec \in HTTPRecord
  BY <1>2, <1>3 DEF HTTPRecord
<1>7. HTTPNoted(w, v, t, rec)
  <2> HIDE DEF rec
  <2> QED
    BY <1>2, <1>4, <1>5, <1>6, HTTPNoteIsOnly
<1>8. /\ v.http[t].jobs = j /\ v.http[t].queue = w.http[t].queue /\ v.http[t].active = FALSE
      /\ v.http[t].event = w.http[t].event /\ v.http[t].started = w.http[t].started
  BY <1>2, <1>7 DEF HTTPNoted, HTTPRecord
<1>9. Only(w, v, t)
  BY <1>7 DEF HTTPNoted
<1>10. Told(v, t) /\ JobRuns(v, t)
  <2>1. Told(w, t)
    BY <1>1, NowFine DEF Fine
  <2> QED
    BY <1>1, <1>8, <2>1 DEF Told, JobRuns
<1>11. \A s \in Known \ {t} : Told(v, s) /\ JobRuns(v, s) /\ QueueWaits(v, s)
  <2> TAKE s \in Known \ {t}
  <2>1. Settled(w, s)
    BY DEF WatchInv
  <2>2. Settled(v, s)
    BY <1>9, <2>1, SettledElsewhere
  <2> QED
    BY <2>2 DEF Settled
<1>12. Fine(v)
  BY <1>9, <1>10, <1>11, OnlyIsWhole DEF Fine
<1>13. jobs[i] = "stopped" => (InHand(w, t) => InHand(v, t))
  BY <1>1, <1>3, <1>8 DEF InHand
<1>14. (jobs[i] = "stopped" \/ v.curr # t) => Watched(v)
  <2>1. v.curr = w.curr
    BY <1>9 DEF Only
  <2> QED
    BY <1>1, <1>2, <1>9, <1>13, <2>1, NowFine, OnlyWatched
<1>15. Goes(w, w)
  BY NowFine DEF Goes
<1> QED
  BY <1>9, <1>11, <1>12, <1>14, <1>15 DEF v

\* The queue of t goes on after the slots of the manager.
LEMMA QueueWatched ==
    ASSUME WatchInv, NEW t \in HTTP, NEW x, Fine(x), Watched(x),
           x.trackers = w.trackers, \A s \in Known \ {t} : QueueWaits(x, s),
           w' = doAnnounceQueue(x, t), calls' \in 0..MaxCalls
    PROVE  WatchInv'
<1>1. t \in Known
  BY DEF Known
<1>2. Only(x, w', t) /\ Settled(w', t) /\ (InHand(x, t) => InHand(w', t))
  BY <1>1, QueueGoesOn DEF Fine
<1>3. Watched(w')
  BY <1>1, <1>2, OnlyWatched DEF Fine
<1>4. Whole(w') /\ w'.trackers = w.trackers
  BY <1>2 DEF Only
<1>5. \A s \in Known \ {t} : Settled(w', s)
  <2> TAKE s \in Known \ {t}
  <2>1. Settled(x, s)
    BY DEF Fine, Settled
  <2> QED
    BY <1>2, <2>1, SettledElsewhere
<1>6. Fine(w') /\ Waits(w')
  BY <1>2, <1>4, <1>5 DEF Fine, Waits, Settled
<1> QED
  BY <1>3, <1>4, <1>6, KeepsGoing DEF WatchInv

\* The request of t has failed.
LEMMA FailedWatched ==
    ASSUME WatchInv, NEW t \in HTTP, NEW v, Fine(v), Only(w, v, t), v.curr # t => Watched(v)
    PROVE  LET u == Failed(v, t)
           IN  Goes(v, u) /\ Watched(u)
<1> DEFINE k == v.http[t].failures + 1
           y == [v EXCEPT !.http[t].failures = k]
           u == requestFailed(y, t)
<1>1. Failed(v, t) = u
  BY DEF Failed, Fine, Whole, Good, Shape, Fields
<1>2. t \in Known /\ t \notin UDP /\ Whole(v) /\ Told(v, t)
  BY TrackerConstants DEF Known, Fine
<1>3. v.http[t] \in HTTPRecord /\ k \in Nat
  BY <1>2, NotesAreRecords
<1> HIDE DEF k
<1>4. HTTPNoted(v, y, t, [v.http[t] EXCEPT !.failures = k])
  BY <1>2, <1>3, NoteHTTPFailures
<1> HIDE DEF y
<1>5. /\ y.http[t].jobs = v.http[t].jobs /\ y.http[t].queue = v.http[t].queue
      /\ y.http[t].active = v.http[t].active /\ y.http[t].event = v.http[t].event
      /\ y.http[t].started = v.http[t].started
  BY <1>3, <1>4 DEF HTTPNoted, HTTPRecord
<1>6. Only(v, y, t) /\ Told(y, t)
  BY <1>2, <1>4, <1>5 DEF HTTPNoted, Told
<1>7. /\ Goes(v, y) /\ y.curr = v.curr /\ y.timer = v.timer /\ (Watched(v) => Watched(y))
  BY <1>5, <1>6, QuietNote
<1>8. ~y.started => ~y.timer
  BY <1>7, NowFine DEF Only, Goes, Watched
<1>9. Goes(y, u)
  BY <1>2, <1>7, FailedSlot DEF Goes
<1>10. Watched(u)
  BY <1>2, <1>7, <1>8, SlotsWatched DEF Goes
<1> QED
  BY <1>1, <1>7, <1>9, <1>10, GoesIsTransitive

LEMMA JobFailsWatched ==
    ASSUME WatchInv, NEW t \in HTTP, NEW i \in DOMAIN w.http[t].jobs, JobFails(t, i)
    PROVE  WatchInv'
<1> DEFINE v == Ended(t, i)
           x == IF w.http[t].jobs[i] = "stopped" THEN v ELSE Failed(v, t)
<1>1. w' = doAnnounceQueue(x, t) /\ calls' \in 0..MaxCalls
  BY CallsAreCounted DEF JobFails
<1>2. /\ Fine(v) /\ Only(w, v, t)
      /\ \A s \in Known \ {t} : QueueWaits(v, s)
      /\ (w.http[t].jobs[i] = "stopped" \/ v.curr # t) => Watched(v)
  BY EndedEffect
<1> HIDE DEF v
<1>3. Goes(v, v)
  BY <1>2 DEF Goes
<1>4. Goes(v, x) /\ Watched(x)
  BY <1>2, <1>3, FailedWatched
<1> HIDE DEF x
<1>5. Fine(x) /\ x.trackers = w.trackers /\ \A s \in Known \ {t} : QueueWaits(x, s)
  BY <1>2, <1>4 DEF Goes, Only
<1> QED
  BY <1>1, <1>4, <1>5, QueueWatched

\* The event of t is forgotten when its job has ended.
LEMMA NothingToSay ==
    ASSUME NEW v, NEW t \in HTTP, Fine(v), Watched(v),
           NEW x, Only(v, x, t),
           x.http[t].jobs = v.http[t].jobs, x.http[t].queue = v.http[t].queue,
           x.http[t].active = v.http[t].active
    PROVE  LET u == [x EXCEPT !.http[t].event = "none"]
           IN  Goes(v, u) /\ Watched(u)
<1> DEFINE u == [x EXCEPT !.http[t].event = "none"]
<1>1. t \notin UDP /\ "none" \in Events
  BY TrackerConstants DEF Events
<1>2. Whole(x) /\ x.http[t] \in HTTPRecord
  BY OnlyIsWhole, NotesAreRecords
<1>3. HTTPNoted(x, u, t, [x.http[t] EXCEPT !.event = "none"])
  BY <1>1, <1>2, NoteHTTPEvent
<1> HIDE DEF u
<1>4. /\ u.http[t].jobs = v.http[t].jobs /\ u.http[t].queue = v.http[t].queue
      /\ u.http[t].active = v.http[t].active /\ u.http[t].event = "none"
  BY <1>2, <1>3 DEF HTTPNoted, HTTPRecord
<1>5. Only(v, u, t) /\ Told(u, t)
  BY <1>1, <1>3, <1>4, OnlyIsTransitive DEF HTTPNoted, Told
<1>6. Goes(v, u) /\ Watched(u)
  BY <1>4, <1>5, QuietNote
<1> QED
  BY <1>6 DEF u

LEMMA JobIsAnsweredWatched ==
    ASSUME WatchInv, NEW t \in HTTP, NEW i \in DOMAIN w.http[t].jobs, NEW valid \in BOOLEAN,
           JobIsAnswered(t, i, valid)
    PROVE  WatchInv'
<1> DEFINE e == w.http[t].jobs[i]
           v == Ended(t, i)
           z == [v EXCEPT !.http[t].failures = 0]
           k == requestOK(z, t)
           b == k.http[t].started \/ e = "started"
           ok == [k EXCEPT !.http[t].started = b]
           f == Failed(v, t)
           u == IF valid THEN ok ELSE f
           n == [u EXCEPT !.http[t].event = "none"]
           x == IF e = "stopped" THEN z ELSE n
<1>1. calls' \in 0..MaxCalls
  BY CallsAreCounted, Zenon DEF JobIsAnswered
<1>2. t \in Known /\ t \notin UDP
  BY TrackerConstants DEF Known
<1>3. /\ Fine(v) /\ Only(w, v, t)
      /\ \A s \in Known \ {t} : QueueWaits(v, s)
      /\ (e = "stopped" \/ v.curr # t) => Watched(v)
  BY EndedEffect
<1> HIDE DEF v
<1>4. HTTPNoted(v, z, t, [v.http[t] EXCEPT !.failures = 0])
  BY <1>3, NoteHTTPFailures, 0 \in Nat DEF Fine
<1> HIDE DEF z
<1>5. Goes(v, z) /\ z.curr = v.curr /\ z.timer = v.timer /\ (Watched(v) => Watched(z))
  <2>1. v.http[t] \in HTTPRecord
    BY <1>3, NotesAreRecords DEF Fine
  <2>2. /\ z.http[t].jobs = v.http[t].jobs /\ z.http[t].queue = v.http[t].queue
        /\ z.http[t].active = v.http[t].active /\ z.http[t].event = v.http[t].event
        /\ z.http[t].started = v.http[t].started
    BY <1>4, <2>1 DEF HTTPNoted, HTTPRecord
  <2>3. Told(z, t)
    BY <1>2, <1>3, <2>2 DEF Fine, Told
  <2> QED
    BY <1>3, <1>4, <2>2, <2>3, QuietNote DEF HTTPNoted
<1>6. Goes(z, k) /\ Fine(k) /\ Watched(k)
  <2>1. Fine(z) /\ (z.curr # t => Watched(z))
    BY <1>3, <1>5 DEF Goes
  <2>2. ~z.started => ~z.timer
    BY <1>3, <1>5, NowFine, SMTT(30) DEF Only, Goes, Watched
  <2> QED
    BY <1>2, <2>1, <2>2, OKSlot, SlotsWatched DEF Same, Goes
<1>7. w' = doAnnounceQueue(x, t)
  <2>1. DOMAIN k.http[t] = {"event", "started", "active", "jobs", "queue", "failures"}
    BY <1>6, NotesAreRecords DEF Fine, HTTPRecord
  <2>2. [k EXCEPT !.http[t].started = @ \/ e = "started"] = ok
    OBVIOUS
  <2> QED
    BY <2>2, Zenon DEF JobIsAnswered, v, z
<1> HIDE DEF k
<1>8. valid => Goes(k, n) /\ Watched(n)
  <2>1. b \in BOOLEAN
    OBVIOUS
  <2> HIDE DEF b
  <2> DEFINE q == [ok EXCEPT !.http[t].event = "none"]
  <2>2. HTTPNoted(k, ok, t, [k.http[t] EXCEPT !.started = b])
    BY <1>6, <2>1, NoteHTTPStarted DEF Fine
  <2>3. k.http[t] \in HTTPRecord
    BY <1>6, NotesAreRecords DEF Fine
  <2>4. valid => n = q
    OBVIOUS
  <2> HIDE DEF ok, n
  <2>5. /\ ok.http[t].jobs = k.http[t].jobs /\ ok.http[t].queue = k.http[t].queue
        /\ ok.http[t].active = k.http[t].active /\ Only(k, ok, t)
    BY <2>2, <2>3 DEF HTTPNoted, HTTPRecord
  <2>6. Goes(k, q) /\ Watched(q)
    BY <1>6, <2>5, NothingToSay
  <2> QED
    BY <2>4, <2>6
<1>9. ~valid /\ e # "stopped" => Goes(v, n) /\ Watched(n)
  <2> DEFINE q == [f EXCEPT !.http[t].event = "none"]
  <2>1. Goes(v, f) /\ Watched(f) /\ Fine(f)
    BY <1>3, FailedWatched DEF Goes
  <2>2. ~valid => n = q
    OBVIOUS
  <2> HIDE DEF f, n
  <2>3. Only(f, f, t)
    BY <2>1, OnlyItself DEF Fine
  <2>4. Goes(f, q) /\ Watched(q)
    BY <2>1, <2>3, NothingToSay
  <2> QED
    BY <2>1, <2>2, <2>4, GoesIsTransitive
<1> HIDE DEF n, b, f
<1>10. Goes(v, x) /\ Watched(x)
  <2>1. CASE e = "stopped"
    BY <1>3, <1>5, <2>1
  <2>2. CASE e # "stopped" /\ valid
    BY <1>5, <1>6, <1>8, <2>2, GoesIsTransitive
  <2>3. CASE e # "stopped" /\ ~valid
    BY <1>9, <2>3
  <2> QED
    BY <2>1, <2>2, <2>3
<1> HIDE DEF x
<1>11. Fine(x) /\ x.trackers = w.trackers /\ \A s \in Known \ {t} : QueueWaits(x, s)
  BY <1>3, <1>10 DEF Goes, Only
<1> QED
  BY <1>1, <1>7, <1>10, <1>11, QueueWatched, SMTT(30)

-----------------------------------------------------------------------------
(* Theorems *)

LEMMA WatchInit ==
    ASSUME OwnTracker, Init
    PROVE  WatchInv
<1>1. PICK m \in FirstN :
         w = [started |-> FALSE, timer |-> FALSE, pending |-> FALSE, curr |-> None,
              trackers |-> Known, transactions |-> {}, requests |-> 0, jobs |-> 0,
              udp |-> [t \in UDP |-> [event |-> "none", started |-> FALSE,
                          connected |-> FALSE, transaction_id |-> 0, n |-> m,
                          conn_timer |-> FALSE, taken |-> 0]],
              http |-> [t \in HTTP |-> [event |-> "none", started |-> FALSE,
                          active |-> FALSE, jobs |-> <<>>, queue |-> <<>>, failures |-> 0]]]
  BY DEF Init
<1>2. m \in Nat /\ "none" \in Events /\ <<>> \in Seq(Events)
  BY TrackerConstants DEF Events
<1>3. /\ DOMAIN w = Fields /\ w.requests = 0 /\ w.transactions = {}
      /\ w.started = FALSE /\ w.timer = FALSE /\ w.pending = FALSE
      /\ w.curr = None /\ w.trackers = Known
  BY <1>1 DEF Fields
<1>4. w.udp \in [UDP -> UDPRecord]
      /\ \A t \in UDP : w.udp[t].transaction_id = 0 /\ w.udp[t].started = FALSE
  BY <1>1, <1>2 DEF UDPRecord
<1>5. w.http \in [HTTP -> HTTPRecord]
      /\ \A t \in HTTP : /\ w.http[t].started = FALSE /\ w.http[t].active = FALSE
                         /\ w.http[t].queue = <<>>
  BY <1>1, <1>2 DEF HTTPRecord
<1>6. IInv
  BY <1>3, <1>4 DEF IInv, Shape, Numbered
<1>7. Whole(w) /\ Known \ Custom \subseteq w.trackers
  BY <1>3, <1>5, <1>6 DEF Whole, Good, IInv, OwnTracker
<1>8. \A t \in Known : Settled(w, t)
  BY <1>4, <1>5 DEF Settled, Told, JobRuns, QueueWaits
<1>9. Watched(w) /\ calls \in 0..MaxCalls
  <2>1. calls = 0 /\ MaxCalls \in Nat
    BY TrackerConstants DEF Init
  <2> QED
    BY <1>3, <2>1 DEF Watched
<1> QED
  BY <1>6, <1>7, <1>8, <1>9 DEF WatchInv

LEMMA WatchStep ==
    ASSUME OwnTracker, WatchInv, [Next]_vars
    PROVE  WatchInv'
<1>1. CASE Start
  BY <1>1, StartWatched
<1>2. CASE Stop
  BY <1>2, StopWatched
<1>3. CASE Completed \/ ManualUpdate \/ TimerFires
  BY <1>3, UpdatesWatched
<1>4. CASE RestoreDefault
  BY <1>4, RestoreDefaultWatched
<1>5. CASE \E t \in Known : SetTracker(t) \/ AddTracker(t) \/ RemoveTracker(t)
  BY <1>5, SetTrackerWatched, AddTrackerWatched, RemoveTrackerWatched
<1>6. CASE \E t \in UDP : ConnTimeout(t)
  BY <1>6, ConnTimeoutWatched
<1>7. CASE \E t \in UDP : \E r \in w.transactions :
              ReceiveConnect(t, r) \/ ReceiveAnnounce(t, r) \/ ReceiveError(t, r)
  BY <1>7, ReceiveConnectWatched, ReceiveAnnounceWatched, ReceiveErrorWatched
<1>8. CASE \E r \in w.transactions : ReceiveLate(r)
  BY <1>8, ReceiveLateWatched
<1>9. CASE \E t \in HTTP : \E i \in DOMAIN w.http[t].jobs :
              JobFails(t, i) \/ \E valid \in BOOLEAN : JobIsAnswered(t, i, valid)
  BY <1>9, JobFailsWatched, JobIsAnsweredWatched
<1>10. CASE UNCHANGED vars
  BY <1>10 DEF vars, WatchInv, IInv, Shape, Numbered, Whole, Good, Settled, Told, JobRuns,
               QueueWaits, Watched, InHand
<1> QED
  BY <1>1, <1>2, <1>3, <1>4, <1>5, <1>6, <1>7, <1>8, <1>9, <1>10 DEF Next

LEMMA WatchedIsAwaited ==
    ASSUME WatchInv
    PROVE  NeverForgotten
<1>1. TypeOK
  <2>1. w.transactions \subseteq [id: 1..w.requests, action: {"connect", "announce"}]
    <3>1. ASSUME NEW r \in w.transactions
          PROVE  r \in [id: 1..w.requests, action: {"connect", "announce"}]
      BY <3>1 DEF WatchInv, IInv, Shape, Numbered, Transaction
    <3> QED
      BY <3>1
  <2> QED
    BY <2>1 DEF TypeOK, WatchInv, Whole, Good, Shape, UDPRecord, HTTPRecord
<1>2. w.started /\ w.curr # None => Awaits(w) \/ Unguarded(w)
  <2> SUFFICES ASSUME w.started, w.curr # None, ~w.timer
               PROVE  Awaits(w) \/ Unguarded(w)
    BY DEF Awaits
  <2>1. InHand(w, w.curr)
    BY DEF WatchInv, Watched
  <2>2. w.curr \in UDP \cup HTTP
    BY DEF WatchInv, Whole, Known
  <2>3. CASE w.curr \in UDP
    BY <2>1, <2>3 DEF InHand, Awaits, Unguarded
  <2>4. CASE w.curr \in HTTP
    <3> DEFINE h == w.http[w.curr]
    <3>1. h.queue # <<>> => h.jobs # <<>>
      BY <2>4 DEF WatchInv, Settled, QueueWaits, Known
    <3>2. Range(<<>>) = {}
      BY DEF Range
    <3>3. h.jobs # <<>> \/ h.queue # <<>>
      BY <2>1, <2>4, <3>2 DEF InHand
    <3> QED
      BY <2>4, <3>1, <3>3 DEF Awaits
  <2> QED
    BY <2>2, <2>3, <2>4
<1> QED
  BY <1>1, <1>2 DEF NeverForgotten, WatchInv, Watched

\* A started torrent that has a tracker of its own always waits for something: whatever
\* calls its manager and its trackers make of each other, whichever tracker fails, is
\* replaced or is removed, the timer of the manager, the timer of the current tracker or
\* one of its jobs will go on.
THEOREM TorrentIsNeverForgotten ==
    ASSUME OwnTracker
    PROVE  Spec => []NeverForgotten
<1>1. Init => WatchInv
  BY WatchInit
<1>2. WatchInv /\ [Next]_vars => WatchInv'
  BY WatchStep
<1>3. WatchInv => NeverForgotten
  BY WatchedIsAwaited
<1> QED
  BY <1>1, <1>2, <1>3, PTL DEF Spec
=============================================================================
