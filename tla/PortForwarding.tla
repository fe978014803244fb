-------------------------- MODULE PortForwarding --------------------------
(***************************************************************************)
(* The UPnP plugin: routers are discovered (upnpmcastsocket.cpp), one of   *)
(* them is the default device whose forwardings follow the list of ports   *)
(* (portlist.cpp, upnpprefwidget.cpp), each of its services is asked by    *)
(* HTTP to add and delete mappings (upnprouter.cpp, httprequest.cpp), and  *)
(* unloading the plugin waits for the last deletions (waitjob.cpp,         *)
(* pluginmanager.cpp).                                                     *)
(*                                                                         *)
(* Every request has a connection of its own, so that a router may carry   *)
(* them out in any order.  Connections are asynchronous: a request is      *)
(* never answered inside start().  A request is known by its address,      *)
(* which may be that of an earlier one that was deleted.                   *)
(***************************************************************************)
EXTENDS Naturals, FiniteSets, Sequences, SequencesExt, FiniteSetsExt

CONSTANTS
    Routers, Ports,
    InUse,          \* the ports in use when the plugin is loaded first
    Services,       \* Services[r]: the WANIPConnection and WANPPPConnection of a router
    Addr,           \* addresses of requests; bounds how many are on the way
    MaxDownloads,   \* bound: descriptions being downloaded at a time
    MaxPorts,       \* bound: length of the list of ports
    MaxEvents,      \* bound: changes of the ports, clicks of the user, unloads
    MaxFailures     \* bound: requests that are not answered with OK

None == "none"

PortForwardingConstants ==
    /\ InUse \in Seq(Ports)
    /\ None \notin Routers /\ DOMAIN Services = Routers
    /\ \A r \in Routers : IsFiniteSet(Services[r])
    /\ IsFiniteSet(Addr) /\ Addr \subseteq Nat \ {0}
    /\ {MaxDownloads, MaxPorts, MaxEvents, MaxFailures} \subseteq Nat

VARIABLES
    u,        \* the plugin and its routers
    ports,    \* PortList: the ports in use, all to be forwarded
    mapped,   \* what the routers forward: <<router, service, port>>
    events,   \* events so far
    failures  \* failures so far

vars == <<u, ports, mapped, events, failures>>

Keys == {<<r, s, p>> \in Routers \X (UNION Range(Services)) \X Ports : s \in Services[r]}

Requests == [id: Addr, key: Keys, kind: {"add", "delete"}, exit: BOOLEAN,
             acted: BOOLEAN, newest: BOOLEAN]

\* orphans: requests on the wire whose router object is gone.  The rest is history:
\* keys of which the router's answer does not tell whether they are mapped, keys whose
\* last "add" was refused, ports that were listed twice, and whether the wait was cut off
Plugin == [mode: {"off", "on", "waiting"}, downloads: [Routers -> Nat],
           routers: SUBSET Routers, fwds: SUBSET [key: Keys, req: Addr \cup {0}],
           reqs: SUBSET Requests, exit_ops: SUBSET Addr, orphans: SUBSET Requests,
           def_router: Routers \cup {None}, defaultDevice: Routers \cup {None},
           unsure: SUBSET Keys, refused: SUBSET Keys, doubled: SUBSET Ports, cut: BOOLEAN]

---------------------------------------------------------------------------
(***************************************************************************)
(* Requests to a router                                                    *)
(***************************************************************************)
InFlight(v, k) == {q \in v.reqs \cup v.orphans : q.key = k}

FreeAddr(v) == Addr \ {q.id : q \in v.reqs}

\* The outcome of opposite requests that are on the way together is unsure
sendSoapQuery(v, k, kind, exit) ==
    [v EXCEPT
       !.reqs = {[q EXCEPT !.newest = @ /\ q.key # k] : q \in v.reqs} \cup
                {[id |-> Min(FreeAddr(v)), key |-> k, kind |-> kind, exit |-> exit,
                  acted |-> FALSE, newest |-> TRUE]},
       !.exit_ops = IF exit THEN @ \cup {Min(FreeAddr(v))} ELSE @,
       !.unsure = IF InFlight(v, k) = {} THEN @ \ {k}
                  ELSE IF \E q \in InFlight(v, k) : q.kind # kind THEN @ \cup {k} ELSE @,
       !.refused = @ \ {k}]

\* forward(srv, port): an old forwarding is replaced, whatever became of its request
forwardService(v, k) ==
    [sendSoapQuery(v, k, "add", FALSE) EXCEPT
       !.fwds = {f \in v.fwds : f.key # k} \cup {[key |-> k, req |-> Min(FreeAddr(v))]}]

forward(v, r, p) ==
    FoldSet(LAMBDA s, x : forwardService(x, <<r, s, p>>), v, Services[r])

\* mutant: a forwarding that is still pending is not undone
undoSettled(v, r, p, exit) ==
    LET mine == {f \in v.fwds : f.key[1] = r /\ f.key[3] = p /\ f.req = 0}
    IN  [FoldSet(LAMBDA f, x : sendSoapQuery(x, f.key, "delete", exit), v, mine)
            EXCEPT !.fwds = @ \ mine]

undoForward(v, r, p, exit) ==
    LET mine == {f \in v.fwds : f.key[1] = r /\ f.key[3] = p}
    IN  [FoldSet(LAMBDA f, x : sendSoapQuery(x, f.key, "delete", exit), v, mine)
            EXCEPT !.fwds = @ \ mine]

ForwardAll(v, r) == FoldLeft(LAMBDA x, p : forward(x, r, p), v, ports)
UndoAll(v, r, exit) == FoldLeft(LAMBDA x, p : undoForward(x, r, p, exit), v, ports)

\* Room for the requests of a call about n ports
HasRoom(r, n) == r # None => Cardinality(FreeAddr(u)) >= n * Cardinality(Services[r])

\* mutant: a failure erases the forwarding of its port, even one asked for since
httpRequestDoneByPort(v, q, erase_fwd) ==
    LET mine == {f \in v.fwds : f.req = q.id \/ (erase_fwd /\ f.key = q.key)}
    IN  [v EXCEPT
           !.fwds = (@ \ mine) \cup
                    (IF erase_fwd THEN {} ELSE {[f EXCEPT !.req = 0] : f \in mine}),
           !.reqs = @ \ {q}]

httpRequestDone(v, q, erase_fwd) ==
    LET mine == {f \in v.fwds : f.req = q.id}
    IN  [v EXCEPT
           !.fwds = (@ \ mine) \cup
                    (IF erase_fwd THEN {} ELSE {[f EXCEPT !.req = 0] : f \in mine}),
           !.reqs = @ \ {q}]

---------------------------------------------------------------------------
(***************************************************************************)
(* Waiting for the requests of the end (WaitJob) and unloading             *)
(***************************************************************************)
\* UPnPPlugin::unload: the routers are deleted, and with them their requests
unload(v) ==
    [v EXCEPT !.mode = "off", !.routers = {}, !.fwds = {}, !.exit_ops = {}, !.reqs = {},
              !.orphans = @ \cup v.reqs, !.def_router = None, !.refused = {},
              !.downloads = [r \in Routers |-> 0]]

operationFinished(v, q) ==
    IF q.id \in v.exit_ops
    THEN LET x == [v EXCEPT !.exit_ops = @ \ {q.id}]
         IN  IF x.exit_ops = {} THEN unload(x) ELSE x
    ELSE v

\* UPnPPrefWidget::shutdown
shutdown(v) == IF v.def_router = None THEN v ELSE UndoAll(v, v.def_router, TRUE)

---------------------------------------------------------------------------
(***************************************************************************)
(* Discovery                                                               *)
(***************************************************************************)
\* A router answers our search, or announces itself; or it is in the file of routers
Discover(r) ==
    /\ u.mode # "off"
    /\ r \notin u.routers /\ SumFunction(u.downloads) < MaxDownloads
    /\ u' = [u EXCEPT !.downloads[r] = @ + 1]
    /\ UNCHANGED <<ports, mapped, events, failures>>

\* UPnPPrefWidget::addDevice
addDevice(v, r) ==
    IF v.defaultDevice \in {r, None}
    THEN [ForwardAll(v, r) EXCEPT !.defaultDevice = r, !.def_router = r]
    ELSE v

XmlFileDownloaded(r) ==
    /\ u.downloads[r] > 0 /\ HasRoom(r, Len(ports))
    /\ LET v == [u EXCEPT !.downloads[r] = @ - 1]
       IN  u' = IF r \in u.routers THEN v
                ELSE addDevice([v EXCEPT !.routers = @ \cup {r}], r)
    /\ UNCHANGED <<ports, mapped, events, failures>>

\* The download fails, or the description cannot be parsed
XmlFileFails(r) ==
    /\ u.downloads[r] > 0
    /\ u' = [u EXCEPT !.downloads[r] = @ - 1]
    /\ UNCHANGED <<ports, mapped, events, failures>>

---------------------------------------------------------------------------
(***************************************************************************)
(* The list of ports, the user, and the plugin manager                     *)
(***************************************************************************)
Event == events < MaxEvents /\ events' = events + 1

\* The dialog of the wait keeps the user away
Calm == u.mode # "waiting"

AddNewPort(p) ==
    /\ Event /\ Calm
    /\ Len(ports) < MaxPorts /\ HasRoom(u.def_router, 1)
    /\ ports' = Append(ports, p)
    /\ LET v == [u EXCEPT !.doubled = IF Contains(ports, p) THEN @ \cup {p} ELSE @]
       IN  u' = IF u.def_router = None THEN v ELSE forward(v, u.def_router, p)
    /\ UNCHANGED <<mapped, failures>>

\* The forwarding is undone although the port may be in the list a second time
RemovePort(p) ==
    /\ Event /\ Calm
    /\ Contains(ports, p) /\ HasRoom(u.def_router, 1)
    /\ ports' = RemoveFirst(ports, p)
    /\ u' = IF u.def_router = None THEN u ELSE undoForward(u, u.def_router, p, FALSE)
    /\ UNCHANGED <<mapped, failures>>

OnForwardBtnClicked(r) ==
    /\ Event /\ u.mode = "on" /\ r \in u.routers /\ HasRoom(r, Len(ports))
    /\ LET v == ForwardAll(u, r)
       IN  u' = IF v.defaultDevice # r
                THEN [v EXCEPT !.defaultDevice = r, !.def_router = r] ELSE v
    /\ UNCHANGED <<ports, mapped, failures>>

OnUndoForwardBtnClicked(r) ==
    /\ Event /\ u.mode = "on" /\ r \in u.routers /\ HasRoom(r, Len(ports))
    /\ LET v == UndoAll(u, r, FALSE)
       IN  u' = IF v.defaultDevice = r
                THEN [v EXCEPT !.defaultDevice = None, !.def_router = None] ELSE v
    /\ UNCHANGED <<ports, mapped, failures>>

\* What earlier sessions left is unknown to new router objects (bound: their requests
\* have come to an end)
Load ==
    /\ u.mode = "off" /\ u.orphans = {}
    /\ u' = [u EXCEPT !.mode = "on", !.cut = FALSE,
                      !.unsure = @ \cup mapped \cup {q.key : q \in u.orphans}]
    /\ UNCHANGED <<ports, mapped, events, failures>>

\* PluginManager::unload and unloadAll
Unload ==
    /\ Event /\ u.mode = "on" /\ HasRoom(u.def_router, Len(ports))
    /\ LET v == shutdown(u)
       IN  u' = IF v.exit_ops = {} THEN unload(v) ELSE [v EXCEPT !.mode = "waiting"]
    /\ UNCHANGED <<ports, mapped, failures>>

\* The two seconds are over
TimerDone ==
    /\ u.mode = "waiting"
    /\ u' = [unload(u) EXCEPT !.cut = TRUE]
    /\ UNCHANGED <<ports, mapped, events, failures>>

---------------------------------------------------------------------------
(***************************************************************************)
(* The routers and the network                                             *)
(***************************************************************************)
Effect(q) == IF q.kind = "add" THEN mapped \cup {q.key} ELSE mapped \ {q.key}

\* A router carries out a request
RouterActs(q) ==
    /\ ~q.acted
    /\ mapped' = Effect(q)
    /\ IF q \in u.reqs
       THEN u' = [u EXCEPT !.reqs = (@ \ {q}) \cup {[q EXCEPT !.acted = TRUE]}]
       ELSE u' = [u EXCEPT !.orphans = @ \ {q}]
    /\ UNCHANGED <<ports, events, failures>>

OnReplyOK(q) ==
    /\ q \in u.reqs /\ q.acted
    /\ u' = operationFinished(httpRequestDone(u, q, FALSE), q)
    /\ UNCHANGED <<ports, mapped, events, failures>>

Failure == failures < MaxFailures /\ failures' = failures + 1

\* A failed request, and what becomes of it
Failed(q, surely) ==
    [httpRequestDone(u, q, TRUE) EXCEPT
       !.refused = IF q.newest /\ q.kind = "add" THEN @ \cup {q.key} ELSE @,
       !.unsure = IF surely /\ q.key \notin mapped /\ InFlight(u, q.key) = {q}
                  THEN @ ELSE @ \cup {q.key}]

OnReplyError(q) ==
    /\ Failure
    /\ q \in u.reqs /\ ~q.acted
    /\ u' = operationFinished(Failed(q, TRUE), q)
    /\ UNCHANGED <<ports, mapped, events>>

\* onError and onTimeout: whether or not the router has carried the request out
OnError(q) ==
    /\ Failure
    /\ q \in u.reqs
    /\ u' = operationFinished(Failed(q, FALSE), q)
    /\ UNCHANGED <<ports, mapped, events>>

\* The router closes the connection without an answer: operationFinished is not emitted
OnEmptyRead(q) ==
    /\ Failure
    /\ q \in u.reqs
    /\ u' = Failed(q, FALSE)
    /\ UNCHANGED <<ports, mapped, events>>

OrphanIsLost(q) ==
    /\ q \in u.orphans
    /\ u' = [u EXCEPT !.orphans = @ \ {q}]
    /\ UNCHANGED <<ports, mapped, events, failures>>

---------------------------------------------------------------------------
Init ==
    /\ u = [mode |-> "off", downloads |-> [r \in Routers |-> 0], routers |-> {}, fwds |-> {},
            reqs |-> {}, exit_ops |-> {}, orphans |-> {}, def_router |-> None,
            defaultDevice |-> None, unsure |-> {}, refused |-> {}, doubled |-> {}, cut |-> FALSE]
    /\ ports = InUse
    /\ mapped = {} /\ events = 0 /\ failures = 0

Next ==
    \/ \E r \in Routers : Discover(r) \/ XmlFileDownloaded(r) \/ XmlFileFails(r)
                          \/ OnForwardBtnClicked(r) \/ OnUndoForwardBtnClicked(r)
    \/ \E p \in Ports : AddNewPort(p) \/ RemovePort(p)
    \/ Load \/ Unload \/ TimerDone
    \/ \E q \in u.reqs \cup u.orphans :
          \/ RouterActs(q) \/ OnReplyOK(q) \/ OnReplyError(q)
          \/ OnError(q) \/ OnEmptyRead(q) \/ OrphanIsLost(q)

Spec == Init /\ [][Next]_vars

---------------------------------------------------------------------------
TypeOK ==
    /\ u \in Plugin
    /\ ports \in Seq(Ports) /\ mapped \subseteq Keys /\ events \in 0 .. MaxEvents
    /\ failures \in 0 .. MaxFailures

Listed(p) == Contains(ports, p) /\ p \notin u.doubled

\* What the plugin shows as forwarded is what the router forwards, for every key whose
\* requests have been answered, one at a time or all alike; a forwarding that is shown
\* as pending belongs to a request that will still be answered.
ShownIsMapped ==
    /\ \A f, g \in u.fwds : f.key = g.key => f = g
    /\ \A f \in u.fwds : f.req # 0 => \E q \in u.reqs : q.id = f.req /\ q.key = f.key
    /\ \A k \in Keys \ u.unsure :
          k[1] \in u.routers /\ InFlight(u, k) = {} =>
              (k \in mapped <=> [key |-> k, req |-> 0] \in u.fwds)

\* And the default device has a forwarding of every port in use, from whenever it became
\* the default device or the port came into use on, unless the router refused the last
\* request for it: late answers to older requests do not count.
DefaultDeviceServes ==
    /\ TypeOK /\ ShownIsMapped
    /\ u.def_router # None /\ u.mode = "on" =>
        /\ u.defaultDevice = u.def_router /\ u.def_router \in u.routers
        /\ \A s \in Services[u.def_router], p \in Ports :
              LET k == <<u.def_router, s, p>>
              IN  Listed(p) /\ k \notin u.refused => \E f \in u.fwds : f.key = k

\* When the plugin is unloaded without running out of time, the default device forwards
\* no port in use any more; nothing is left out or cut off because some requests were
\* still pending or others have ended earlier.
UnloadUndoes ==
    [][u.mode # "off" /\ u'.mode = "off" /\ ~u'.cut =>
        \A k \in mapped :
            k[1] = u.def_router /\ Contains(ports, k[3]) /\ k \notin u'.unsure =>
                \E q \in InFlight(u', k) : ~q.exit]_vars
===========================================================================
