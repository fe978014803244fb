---------------------------- MODULE PeerManager ----------------------------
(***************************************************************************)
(* The connections of the torrents: the peer managers (peermanager.cpp),   *)
(* the handshakes that make a connection a peer (authenticate.cpp,         *)
(* serverauthenticate.cpp and their encrypted versions), the server that   *)
(* takes incoming connections (server.cpp), the monitor of the handshakes  *)
(* (authenticationmonitor.cpp) and the choker (advancedchokealgorithm.cpp).*)
(*                                                                         *)
(* Everything here runs in the main thread; what interleaves are the       *)
(* handshakes of both directions, the updates of the torrents, and their   *)
(* starts and stops.  A call is an operator from the state to the next     *)
(* one.  A remote client is known by its id; the address it listens on is  *)
(* the one others tell us, so that an incoming connection from it does not *)
(* have that address.                                                      *)
(*                                                                         *)
(* The bytes of a handshake are abstracted to how far it has come: the     *)
(* states of the key exchange, then nothing of the handshake proper ("hs"),*)
(* or its info hash but not all of the peer id ("part").                   *)
(***************************************************************************)
EXTENDS Naturals, FiniteSets, Sequences, SequencesExt, FiniteSetsExt

CONSTANTS
    Managers,         \* the torrents
    Remotes,          \* other clients, in the order of their addresses
    Self,             \* our own client, whose address a tracker may give us
    Chunks,           \* the chunks of a torrent
    Worlds,           \* settings of the user, who is in the swarm of which torrent, and
                      \* bounds: potential peers found, stops, what a chunk is counted,
                      \* peers that replace a dead one
    MaxAuths,         \* MAX_SIMULTANIOUS_AUTHS
    MaxConnecting,    \* sockets that may be in SYN_SENT
    Slots,            \* upload slots
    MaxIncoming       \* bound: incoming handshakes at a time

None == "none"
RemoteSet == Range(Remotes)

ASSUME PeerManagerConstants ==
    /\ IsFiniteSet(Managers) /\ IsFiniteSet(Chunks)
    /\ Remotes \in Seq(RemoteSet)
    /\ Self \in RemoteSet /\ None \notin RemoteSet
    /\ Worlds \subseteq [max_connections: Nat, max_total_connections: Nat \ {0},
                        encryption: {"off", "preferred", "required"},
                        swarm: [Managers -> SUBSET RemoteSet],
                        max_finds: Nat, max_stops: Nat, max_haves: Nat, max_extra: Nat]
    /\ Slots \in Nat \ {0}
    /\ {MaxAuths, MaxConnecting, MaxIncoming} \subseteq Nat

VARIABLES
    w,         \* managers, handshakes and counters
    incoming,  \* incoming[r]: how far the handshake that r began has come; the torrent
               \* it is for once its info hash is known
    settings,  \* one of Worlds; max_connections is 0 for no limit
    finds,     \* potential peers found so far
    stops      \* stops so far

vars == <<w, incoming, settings, finds, stops>>

\* The states of EncryptedAuthenticate and EncryptedServerAuthenticate in which they
\* exchange keys; "spoiled" is one of the latter in which what has been decrypted is
\* decrypted again
EncStates == {"SENT_YA", "GOT_YB", "FOUND_VC", "WAIT_FOR_PAD_D"}
ServerStates == {"WAITING_FOR_YA", "WAITING_FOR_REQ1", "FOUND_REQ1", "FOUND_INFO_HASH",
                 "WAIT_FOR_PAD_C", "WAIT_FOR_IA", "spoiled"}

Peers == [id: RemoteSet, out: BOOLEAN, killed: BOOLEAN, has: SUBSET Chunks, unchoked: BOOLEAN]
Auths == [m: Managers, r: RemoteSet, enc: BOOLEAN,
          phase: {"connecting", "deaf", "hs", "part"} \cup EncStates]

\* The states of the peer managers, where max is the bound of the counters
States(max) ==
    [started: [Managers -> BOOLEAN],
     peers: [Managers -> SUBSET Peers],
     potential: [Managers -> SUBSET RemoteSet],
     saved: [Managers -> SUBSET RemoteSet],
     cnt: [Managers -> [Chunks -> 0..max]],
     available: [Managers -> SUBSET Chunks],
     num_pending: [Managers -> Nat],
     extra: [Managers -> Nat],
     auths: Seq(Auths), total_connections: Nat, num_connecting: Nat]

TypeOK ==
    /\ w \in States(settings.max_haves)
    /\ incoming \in [RemoteSet -> {None, "hs"} \cup ServerStates \cup Managers]
    /\ settings \in Worlds

Less(n, k) == IF n > k THEN n - k ELSE 0
Count(S) == Cardinality(S)

---------------------------------------------------------------------------
(***************************************************************************)
(* Outgoing connections.  How the socket's connect goes is chosen by the   *)
(* network: it fails at once, it is under way, or it is there at once; in  *)
(* this last case the constructor calls the plain connected() even of an   *)
(* encrypted handshake, which then never takes what comes ("deaf").        *)
(***************************************************************************)
Outcomes == {"fails", "connecting", "connected"}

\* peerAuthenticated, the counters
Released(v, m) ==
    [v EXCEPT !.total_connections = Less(@, 1), !.num_pending[m] = @ - 1]

\* A new Authenticate; a constructor that fails reports that before it is counted
NewAuth(v, m, r, enc, outcome) ==
    LET a == [m |-> m, r |-> r, enc |-> enc,
              phase |-> IF outcome = "connecting" THEN outcome
                        ELSE IF enc THEN "deaf" ELSE "hs"]
        total == v.total_connections
    IN  IF outcome = "fails"
        THEN [v EXCEPT !.total_connections = Less(total, 1) + 1]
        ELSE [v EXCEPT !.auths = Append(@, a),
                       !.num_connecting = IF outcome = "connecting" THEN @ + 1 ELSE @,
                       !.num_pending[m] = @ + 1,
                       !.total_connections = total + 1]

ConnectedToOutgoing(v, m, id) == v.started[m] /\ \E p \in v.peers[m] : p.id = id /\ p.out
connectedTo(v, m, id) == v.started[m] /\ \E p \in v.peers[m] : p.id = id
ConnectedToAddress(v, m, r) == \E p \in v.peers[m] : p.id = r /\ p.out

createPeer(v, m, id, out) ==
    [v EXCEPT !.peers[m] = @ \cup {[id |-> id, out |-> out, killed |-> FALSE,
                                    has |-> {}, unchoked |-> FALSE]},
              !.total_connections = @ + 1]

Unencrypted == settings.encryption # "required"

FinishedTryAgain(v, i, ok, outcome) ==
    LET a == v.auths[i]
        u == Released([v EXCEPT !.auths = RemoveAt(@, i)], a.m)
    IN  IF ~ok THEN IF a.enc /\ Unencrypted THEN NewAuth(u, a.m, a.r, TRUE, outcome) ELSE u
        ELSE IF connectedTo(u, a.m, a.r) THEN u ELSE createPeer(u, a.m, a.r, TRUE)

\* Authenticate::onFinish for the i-th handshake, and peerAuthenticated.  A failed
\* encrypted handshake is followed by a plain one if that is allowed.
Finished(v, i, ok, outcome) ==
    LET a == v.auths[i]
        u == Released([v EXCEPT !.auths = RemoveAt(@, i)], a.m)
    IN  IF ~ok
        THEN IF a.enc /\ Unencrypted THEN NewAuth(u, a.m, a.r, FALSE, outcome) ELSE u
        ELSE IF connectedTo(u, a.m, a.r) THEN u ELSE createPeer(u, a.m, a.r, TRUE)

Failures(v, i) == {Finished(v, i, FALSE, outcome) : outcome \in Outcomes}

\* Authenticate::handshakeRecieved with the whole handshake
HandshakeOK(v, a) == a.r # Self /\ ~connectedTo(v, a.m, a.r)

\* The sockets that are given up while they connect
NoLongerConnecting(v, k) == [v EXCEPT !.num_connecting = Less(@, k)]

---------------------------------------------------------------------------
Step == UNCHANGED <<settings, finds, stops>>
Auth(i) == i \in DOMAIN w.auths
InPhase(i, phases) == Auth(i) /\ w.auths[i].phase \in phases

\* onReadyWrite; a connection that failed is discounted here, and again when its
\* socket is destroyed
Connected(i) ==
    /\ InPhase(i, {"connecting"})
    /\ w' = NoLongerConnecting(
                [w EXCEPT !.auths[i].phase = IF w.auths[i].enc THEN "SENT_YA" ELSE "hs"], 1)
    /\ UNCHANGED incoming /\ Step

ConnectFails(i) ==
    /\ InPhase(i, {"connecting"})
    /\ w' \in Failures(NoLongerConnecting(w, 2), i)
    /\ UNCHANGED incoming /\ Step

\* EncryptedAuthenticate::onReadyRead: where its handlers may leave it, by how much
\* of what they look for has come
handlePadD == {"hs"}
handleCryptoSelect == {"FOUND_VC", "WAIT_FOR_PAD_D"} \cup handlePadD
findVC == {"GOT_YB"} \cup handleCryptoSelect
handleYB == findVC
EncRead(phase) ==
    CASE phase = "SENT_YA" -> handleYB
      [] phase = "GOT_YB" -> findVC
      [] phase = "FOUND_VC" -> handleCryptoSelect
      [] phase = "WAIT_FOR_PAD_D" -> handlePadD

ExchangeKeys(i) ==
    /\ InPhase(i, EncStates)
    /\ \E phase \in EncRead(w.auths[i].phase) : w' = [w EXCEPT !.auths[i].phase = phase]
    /\ UNCHANGED incoming /\ Step

\* AuthenticateBase::onReadyRead: between 48 and 67 bytes
PartOfHandshake(i) ==
    /\ InPhase(i, {"hs"})
    /\ w' = [w EXCEPT !.auths[i].phase = "part"]
    /\ UNCHANGED incoming /\ Step

WholeHandshake(i) ==
    /\ InPhase(i, {"hs", "part"})
    /\ IF HandshakeOK(w, w.auths[i]) THEN w' = Finished(w, i, TRUE, None)
       ELSE w' \in Failures(w, i)
    /\ UNCHANGED incoming /\ Step

\* The connection is closed, what comes is no handshake of this torrent, or the
\* address has been blocked meanwhile
HandshakeFails(i) ==
    /\ InPhase(i, {"deaf", "hs", "part"} \cup EncStates)
    /\ w' \in Failures(w, i)
    /\ UNCHANGED incoming /\ Step

\* onTimeout, 20 seconds after the start
Timeout(i) ==
    /\ Auth(i)
    /\ LET v == IF w.auths[i].phase = "connecting" THEN NoLongerConnecting(w, 1) ELSE w
       IN  w' \in Failures(v, i)
    /\ UNCHANGED incoming /\ Step

---------------------------------------------------------------------------
(***************************************************************************)
(* Incoming connections: server.cpp and ServerAuthenticate                 *)
(***************************************************************************)
Accept(r) ==
    /\ Count({s \in RemoteSet : incoming[s] # None}) < MaxIncoming /\ incoming[r] = None
    /\ r \in UNION Range(settings.swarm) /\ \E m \in Managers : w.started[m]
    /\ incoming' = [incoming EXCEPT ![r] = 
                       IF settings.encryption = "off" THEN "hs" ELSE "WAITING_FOR_YA"]
    /\ UNCHANGED w /\ Step

\* EncryptedServerAuthenticate::onReadyRead, likewise.  Few first bytes are taken for
\* a plain handshake.  processVC tests for too few bytes before it goes on to
\* handlePadC, and handlePadC before handleIA: a read that ends there spoils the rest.
handleIA == {"hs"}
handlePadC == {"WAIT_FOR_PAD_C", "WAIT_FOR_IA", "spoiled"} \cup handleIA
processVC == {"FOUND_INFO_HASH"} \cup handlePadC
calculateSKey == {"FOUND_REQ1"} \cup processVC
findReq1 == {"WAITING_FOR_REQ1"} \cup calculateSKey
handleYA == findReq1
ServerRead(phase) ==
    CASE phase = "WAITING_FOR_YA" -> {phase} \cup handleYA \cup (IF Unencrypted THEN {"hs"} ELSE {})
      [] phase = "WAITING_FOR_REQ1" -> findReq1
      [] phase = "FOUND_REQ1" -> calculateSKey
      [] phase = "FOUND_INFO_HASH" -> processVC
      [] phase = "WAIT_FOR_PAD_C" -> handlePadC
      [] phase = "WAIT_FOR_IA" -> {phase} \cup handleIA
      [] phase = "spoiled" -> {phase}

IncomingExchangesKeys(r) ==
    /\ incoming[r] \in ServerStates
    /\ \E phase \in ServerRead(incoming[r]) : incoming' = [incoming EXCEPT ![r] = phase]
    /\ UNCHANGED w /\ Step

\* findPeerManager: the torrent of the info hash must be running
IncomingPart(r, m) ==
    /\ incoming[r] = "hs"
    /\ incoming' = [incoming EXCEPT ![r] = IF w.started[m] THEN m ELSE None]
    /\ UNCHANGED w /\ Step

IncomingFails(r) ==
    /\ incoming[r] # None
    /\ incoming' = [incoming EXCEPT ![r] = None]
    /\ UNCHANGED w /\ Step

LocalNotOKLate(v, m) ==
    /\ settings.max_connections > 0
    /\ Count(v.peers[m]) + v.num_pending[m] > settings.max_connections

LocalNotOK(v, m) ==
    /\ settings.max_connections > 0
    /\ Count(v.peers[m]) + v.num_pending[m] >= settings.max_connections
GlobalNotOK(v) == v.total_connections >= settings.max_total_connections

\* killBadPeer: the score that makes a peer bad is the choker's, and a peer that
\* has been killed but not removed yet may be chosen again
killBadPeer(v, m, victim) ==
    [v EXCEPT !.peers[m] = (@ \ {victim}) \cup {[victim EXCEPT !.killed = TRUE]},
              !.extra[m] = IF victim.killed THEN @ + 1 ELSE @]

newConnection(m, r) ==
    IF ~LocalNotOK(w, m) /\ ~GlobalNotOK(w)
    THEN w' = createPeer(w, m, r, FALSE)
    ELSE \/ w' = w
         \/ \E victim \in w.peers[m] :
               /\ victim.killed => w.extra[m] < settings.max_extra
               /\ w' = createPeer(killBadPeer(w, m, victim), m, r, FALSE)

IncomingWhole(r, m) ==
    /\ incoming[r] \in {"hs", m}
    /\ incoming' = [incoming EXCEPT ![r] = None]
    /\ IF ~w.started[m] \/ r = Self \/ connectedTo(w, m, r) THEN w' = w
       ELSE newConnection(m, r)
    /\ Step

---------------------------------------------------------------------------
(***************************************************************************)
(* What peers send, and their end                                          *)
(***************************************************************************)
Changed(v, m, p, q) == [v EXCEPT !.peers[m] = (@ \ {p}) \cup {q}]

\* HAVE: counted whether or not the peer had the chunk
OnHave(m, p, c) ==
    /\ p \in w.peers[m] /\ ~p.killed /\ w.cnt[m][c] < settings.max_haves
    /\ w' = [Changed(w, m, p, [p EXCEPT !.has = @ \cup {c}]) EXCEPT
                !.cnt[m][c] = @ + 1, !.available[m] = @ \cup {c}]
    /\ UNCHANGED incoming /\ Step

\* BITFIELD, HAVE_ALL, HAVE_NONE: what the peer had before is forgotten, its count stays
OnBitSet(m, p, bs) ==
    /\ p \in w.peers[m] /\ ~p.killed /\ \A c \in bs : w.cnt[m][c] < settings.max_haves
    /\ w' = [Changed(w, m, p, [p EXCEPT !.has = bs]) EXCEPT
                !.cnt[m] = [c \in Chunks |-> IF c \in bs THEN @[c] + 1 ELSE @[c]],
                !.available[m] = @ \cup bs]
    /\ UNCHANGED incoming /\ Step

\* Peer::kill: a protocol error, a closed connection, a ban, killUninterested...
Kill(m, p) ==
    /\ p \in w.peers[m] /\ ~p.killed
    /\ w' = Changed(w, m, p, [p EXCEPT !.killed = TRUE])
    /\ UNCHANGED incoming /\ Step

Living(m) == {p \in w.peers[m] : ~p.killed}
killSeeders(S) == {IF p.has = Chunks THEN [p EXCEPT !.killed = TRUE] ELSE p : p \in S}

---------------------------------------------------------------------------
(***************************************************************************)
(* TorrentControl::update: the killed peers are removed, connections made, *)
(* and the choker run if its time has come or a peer was removed           *)
(***************************************************************************)
RemoveKilledAvailable(v, m) ==
    LET dead == {p \in v.peers[m] : p.killed}
    IN  [v EXCEPT !.peers[m] = @ \ dead,
                  !.cnt[m] = [c \in Chunks |-> Less(@[c], Count({p \in dead : c \in p.has}))],
                  !.total_connections = Less(@, Count(dead))]

RemoveKilled(v, m) ==
    LET dead == {p \in v.peers[m] : p.killed}
        lost(c) == Count({p \in dead : c \in p.has})
        cnt == [c \in Chunks |-> Less(v.cnt[m][c], lost(c))]
    IN  IF dead = {} THEN v
        ELSE [v EXCEPT !.peers[m] = @ \ dead,
                       !.cnt[m] = cnt,
                       !.available[m] = {c \in Chunks : cnt[c] > 0},
                       !.total_connections = Less(@, Count(dead))]

\* One potential peer, unless it is blocked or already connected
TryPeer(v, m, r, outcome) ==
    LET u == [v EXCEPT !.potential[m] = @ \ {r}]
    IN  IF v.num_pending[m] > MaxAuths THEN v
        ELSE IF outcome = "blocked" \/ ConnectedToAddress(v, m, r) THEN u
        ELSE NewAuth(u, m, r, settings.encryption # "off", outcome)

\* The first potential peer of the map
FirstOf(S) == Remotes[Min({k \in DOMAIN Remotes : Remotes[k] \in S})]

connectToPeers(v, m, outcomes) ==
    LET potential == Count(v.potential[m])
        here == Count(v.peers[m]) + v.num_pending[m]
        room == IF settings.max_connections = 0 \/ settings.max_connections - here >= potential
                THEN potential ELSE settings.max_connections - here
        num == IF room + v.total_connections >= settings.max_total_connections
               THEN settings.max_total_connections - v.total_connections ELSE room
        tried[i \in 0..num] ==
            IF i = 0 THEN v
            ELSE LET r == FirstOf(tried[i - 1].potential[m])
                 IN  TryPeer(tried[i - 1], m, r, outcomes[r])
    IN  IF \/ potential = 0 \/ LocalNotOK(v, m) \/ GlobalNotOK(v)
           \/ v.num_pending[m] > MaxAuths \/ v.num_connecting >= MaxConnecting
        THEN v
        ELSE tried[num]

\* doUnchoking: the best of the peers that deserve it, one slot less if there is an
\* optimistic choice, which may or may not be among them
Unchoked(eligible, optimistic) ==
    LET others == eligible \ {optimistic}
        slots == IF optimistic = None THEN Slots ELSE Slots - 1
    IN  {best \cup (eligible \ others) : best \in kSubset(Min({slots, Count(others)}), others)}

\* Scores and the optimistic choice are data of the choker; seeds never deserve a slot
Unchokings(S) ==
    LET ids == {p.id : p \in S}
        wanted == {p.id : p \in {q \in S : q.has # Chunks}}
    IN  UNION {Unchoked(e, o) : e \in SUBSET wanted, o \in ids \cup {None}}

doChoking(v, m, S) ==
    {[v EXCEPT !.peers[m] = {[p EXCEPT !.unchoked = p.id \in U] : p \in S}] : U \in Unchokings(S)}

\* How the connects of one update may go
ConnectOutcomes(m) == [w.potential[m] -> Outcomes \cup {"blocked"}]

Update(m) ==
    /\ w.started[m]
    /\ \E v \in {connectToPeers(RemoveKilled(w, m), m, o) : o \in ConnectOutcomes(m)} :
          \/ Living(m) = w.peers[m] /\ w' = v
          \/ \E S \in {v.peers[m], killSeeders(v.peers[m])} : w' \in doChoking(v, m, S)
    /\ UNCHANGED incoming /\ Step

---------------------------------------------------------------------------
(***************************************************************************)
(* Starts, stops and new potential peers                                   *)
(***************************************************************************)
\* A tracker, the DHT or a peer tells of a peer
addPotentialPeer(m, r) ==
    /\ finds < settings.max_finds /\ finds' = finds + 1
    /\ r \notin w.potential[m] /\ Count(w.potential[m]) <= 150
    /\ w' = [w EXCEPT !.potential[m] = @ \cup {r}]
    /\ UNCHANGED <<incoming, settings, stops>>

start(v, m) == [v EXCEPT !.started[m] = TRUE]
loadPeerList(v, m) == [v EXCEPT !.potential[m] = @ \cup v.saved[m]]

\* Of the addresses that are saved, those of incoming connections are left out: nobody
\* listens there
savePeerList(v, m) ==
    [v EXCEPT !.saved[m] = v.potential[m] \cup {p.id : p \in {q \in v.peers[m] : q.out}}]

\* The handshakes of the other torrents, in order
Others(auths, m) ==
    LET rest[i \in 0..Len(auths)] ==
            IF i = 0 THEN <<>>
            ELSE IF auths[i].m = m THEN rest[i - 1] ELSE Append(rest[i - 1], auths[i])
    IN  rest[Len(auths)]

\* The handshakes end without a report, so that the global count keeps them
stop(v, m) ==
    LET connecting == {i \in DOMAIN v.auths : v.auths[i].m = m /\ v.auths[i].phase = "connecting"}
    IN  [v EXCEPT !.started[m] = FALSE,
                  !.cnt[m] = [c \in Chunks |-> 0],
                  !.available[m] = {},
                  !.auths = Others(@, m),
                  !.num_connecting = Less(@, Count(connecting)),
                  !.num_pending[m] = 0]

closeAllConnections(v, m) ==
    [v EXCEPT !.total_connections = Less(@, Count(v.peers[m])), !.peers[m] = {}]

\* TorrentControl::continueStart and stop
Start(m) ==
    /\ ~w.started[m]
    /\ w' = loadPeerList(start(w, m), m)
    /\ UNCHANGED incoming /\ Step

Stop(m) ==
    /\ w.started[m] /\ stops < settings.max_stops /\ stops' = stops + 1
    /\ w' = closeAllConnections(stop(savePeerList(w, m), m), m)
    /\ UNCHANGED <<incoming, settings, finds>>

---------------------------------------------------------------------------
Init ==
    /\ w = [started |-> [m \in Managers |-> FALSE],
            peers |-> [m \in Managers |-> {}],
            potential |-> [m \in Managers |-> {}],
            saved |-> [m \in Managers |-> {}],
            cnt |-> [m \in Managers |-> [c \in Chunks |-> 0]],
            available |-> [m \in Managers |-> {}],
            num_pending |-> [m \in Managers |-> 0],
            extra |-> [m \in Managers |-> 0],
            auths |-> <<>>, total_connections |-> 0, num_connecting |-> 0]
    /\ incoming = [r \in RemoteSet |-> None]
    /\ settings \in Worlds
    /\ finds = 0
    /\ stops = 0

Next ==
    \/ \E m \in Managers :
          \/ Start(m) \/ Stop(m)
          \/ \E r \in settings.swarm[m] : addPotentialPeer(m, r)
          \/ Update(m)
          \/ \E r \in settings.swarm[m] : IncomingPart(r, m) \/ IncomingWhole(r, m)
          \/ \E p \in w.peers[m] :
                \/ Kill(m, p)
                \/ \E c \in Chunks : OnHave(m, p, c)
                \/ \E bs \in SUBSET Chunks : OnBitSet(m, p, bs)
    \/ \E r \in RemoteSet : Accept(r) \/ IncomingExchangesKeys(r) \/ IncomingFails(r)
    \/ \E i \in DOMAIN w.auths :
          \/ Connected(i) \/ ConnectFails(i) \/ ExchangeKeys(i) \/ PartOfHandshake(i)
          \/ WholeHandshake(i) \/ HandshakeFails(i) \/ Timeout(i)

\* Every handshake has a timer, so that the oldest one ends
Spec == Init /\ [][Next]_vars /\ WF_vars(Timeout(1))

---------------------------------------------------------------------------
Pending(m) == {i \in DOMAIN w.auths : w.auths[i].m = m}
Connections(m) == Count(Living(m)) + Count(Pending(m))

\* What the torrents have, taken together
Together(f) == UNION {{m} \X f[m] : m \in Managers}
AllPeers == Together(w.peers)
AllLiving == Together([m \in Managers |-> Living(m)])
AllExtra == Together([m \in Managers |-> 1..w.extra[m]])

\* Whatever fails, is retried or stopped in between, the pending connections of a
\* torrent are counted exactly and the global count misses none, so that neither
\* limit is exceeded, except by the incoming connections that replaced a peer that
\* had already been killed.
LimitsAreKept ==
    /\ TypeOK
    /\ \A m \in Managers : w.num_pending[m] = Count(Pending(m))
    /\ w.total_connections >= Count(AllPeers) + Len(w.auths)
    /\ settings.max_connections > 0 =>
         \A m \in Managers : Connections(m) <= settings.max_connections + w.extra[m]
    /\ Count(AllLiving) + Len(w.auths) <= settings.max_total_connections + Count(AllExtra)

\* A client is connected once, although both sides may connect at the same time and
\* its address may be tried again while a handshake with it is going on; never ourselves
OnePeerEach ==
    \A m \in Managers :
       /\ \A p, q \in w.peers[m] : p.id = q.id => p = q
       /\ \A p \in w.peers[m] : p.id # Self

\* The rarest chunk and the availability are computed from what is counted: no peer's
\* chunk is missed, however often it is announced and whichever peers have gone.
\* Between two runs of the choker no more peers are unchoked than there are slots.
SwarmIsCounted ==
    \A m \in Managers :
       /\ \A c \in Chunks : w.cnt[m][c] >= Count({p \in w.peers[m] : c \in p.has})
       /\ w.available[m] = {c \in Chunks : w.cnt[m][c] > 0}
       /\ Count({p \in w.peers[m] : p.unchoked}) <= Slots

\* No handshake goes on for ever: a torrent with pending connections gets rid of them
\* all, the retries included, once no more potential peers are found
HandshakesEnd == \A m \in Managers : (w.num_pending[m] > 0) ~> (w.num_pending[m] = 0)
=============================================================================
