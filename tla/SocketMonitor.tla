--------------------------- MODULE SocketMonitor ---------------------------
(***************************************************************************)
(* The life of the two network threads: net::SocketMonitor starts them for *)
(* the first socket and stops them after the last, net::NetworkThread::run *)
(* loops over update(), net::UploadThread sleeps on data_ready when there  *)
(* is nothing to send, and PacketWriter::queuePacket wakes it.  The main   *)
(* thread adds and removes sockets under SocketMonitor::mutex, which both  *)
(* threads hold while they work; queuePacket does not take it.             *)
(*                                                                         *)
(* TQThread and TQWaitCondition are external: start() on a thread that is  *)
(* alive waits for its end first, and wakeOne() is lost when nobody waits. *)
(***************************************************************************)
EXTENDS Naturals, FiniteSets

CONSTANTS
    Sockets,    \* the connections of the program
    MaxAdds     \* bound: how often the list of sockets may become non-empty

ASSUME BoundAssumption == MaxAdds \in Nat

Threads == {"up", "down"}

VARIABLES
    smap,       \* SocketMonitor::smap
    mutex,      \* holder of SocketMonitor::mutex
    running,    \* NetworkThread::running of each thread
    thread,     \* where each thread is; "none": not alive
    main,       \* where the main thread is
    has_bytes,  \* sockets with bytes to write (BufferedSocket::bytesReadyToWrite)
    adds        \* how often add() found the list empty

monitorVars == <<smap, mutex, running, thread, main, has_bytes, adds>>

-----------------------------------------------------------------------------
(* The main thread *)

Idle == main = "idle"

\* SocketMonitor::add: the first socket starts the threads, the lock held
add(s) ==
    /\ Idle /\ mutex = "free" /\ s \notin smap
    /\ smap = {} => adds < MaxAdds
    /\ smap' = smap \cup {s}
    /\ adds' = IF smap = {} THEN adds + 1 ELSE adds
    /\ IF smap = {}
       THEN main' = "start_down" /\ mutex' = "main"
       ELSE UNCHANGED <<main, mutex>>
    /\ UNCHANGED <<running, thread, has_bytes>>

\* start the thread t unless isRunning(); TQThread::start waits while t is alive
Start(t) == IF running[t] THEN UNCHANGED thread
            ELSE thread[t] = "none" /\ thread' = [thread EXCEPT ![t] = "born"]

StartDownload ==
    /\ main = "start_down"
    /\ Start("down")
    /\ main' = "start_up"
    /\ UNCHANGED <<smap, mutex, running, has_bytes, adds>>

\* mutant: only the download thread is started
StartUploadForgotten ==
    /\ main = "start_up"
    /\ main' = "idle" /\ mutex' = "free"
    /\ UNCHANGED <<smap, running, thread, has_bytes, adds>>

StartUpload ==
    /\ main = "start_up"
    /\ Start("up")
    /\ main' = "idle" /\ mutex' = "free"
    /\ UNCHANGED <<smap, running, has_bytes, adds>>

\* data_ready.wakeOne(): nothing happens unless the upload thread waits
wakeOne ==
    thread' = IF thread["up"] = "wait" THEN [thread EXCEPT !["up"] = "test"] ELSE thread

\* SocketMonitor::remove, from the destructor of the connection
remove(s) ==
    /\ Idle /\ mutex = "free" /\ s \in smap
    /\ smap' = smap \ {s}
    /\ has_bytes' = has_bytes \ {s}
    /\ IF smap' = {}
       THEN /\ running' = [t \in Threads |-> FALSE]
            /\ IF running["up"] THEN wakeOne ELSE UNCHANGED thread
       ELSE UNCHANGED <<running, thread>>
    /\ UNCHANGED <<mutex, main, adds>>

\* PacketWriter::queuePacket puts the packet into its list, then signals
queuePacket(s) ==
    /\ Idle /\ s \in smap
    /\ has_bytes' = has_bytes \cup {s}
    /\ main' = "signal"
    /\ UNCHANGED <<smap, mutex, running, thread, adds>>

\* mutant: the upload thread is not woken
SilentSignal ==
    /\ main = "signal"
    /\ main' = "idle"
    /\ UNCHANGED <<smap, mutex, running, thread, has_bytes, adds>>

signalPacketReady ==
    /\ main = "signal"
    /\ wakeOne
    /\ main' = "idle"
    /\ UNCHANGED <<smap, mutex, running, has_bytes, adds>>

-----------------------------------------------------------------------------
(* Both threads: NetworkThread::run *)

Goto(t, pc) == thread' = [thread EXCEPT ![t] = pc]

Run(t) ==
    /\ thread[t] = "born"
    /\ running' = [running EXCEPT ![t] = TRUE]
    /\ Goto(t, "test")
    /\ UNCHANGED <<smap, mutex, main, has_bytes, adds>>

\* while (running) update(); update begins with sm->lock()
Loop(t) ==
    /\ thread[t] = "test"
    /\ Goto(t, IF running[t] THEN "lock" ELSE "none")
    /\ UNCHANGED <<smap, mutex, running, main, has_bytes, adds>>

Lock(t) ==
    /\ thread[t] \in {"lock", "lock_again"} /\ mutex = "free"
    /\ mutex' = t
    /\ Goto(t, IF thread[t] = "lock" THEN "work" ELSE "read")
    /\ UNCHANGED <<smap, running, main, has_bytes, adds>>

\* msleep and the next round
Rest(t) ==
    /\ thread[t] = "rest"
    /\ Goto(t, "test")
    /\ UNCHANGED <<smap, mutex, running, main, has_bytes, adds>>

\* UploadThread::update: the sockets with data are written to, the kernel may
\* take all of it or leave some; with none ready the thread goes to sleep, after
\* it has released the lock
Upload(sent) ==
    /\ thread["up"] = "work"
    /\ sent \subseteq has_bytes
    /\ has_bytes' = has_bytes \ sent
    /\ mutex' = "free"
    /\ Goto("up", IF has_bytes = {} THEN "to_wait" ELSE "rest")
    /\ UNCHANGED <<smap, running, main, adds>>

\* data_ready.wait(), without a mutex the state could be tested under
Wait ==
    /\ thread["up"] = "to_wait"
    /\ Goto("up", "wait")
    /\ UNCHANGED <<smap, mutex, running, main, has_bytes, adds>>

\* DownloadThread::update: fillPollVector, poll without the lock, then read
FillPollVector ==
    /\ thread["down"] = "work"
    /\ mutex' = "free"
    /\ Goto("down", "poll")
    /\ UNCHANGED <<smap, running, main, has_bytes, adds>>

Poll ==
    /\ thread["down"] = "poll"
    /\ \E pc \in {"lock_again", "rest"} : Goto("down", pc)
    /\ UNCHANGED <<smap, mutex, running, main, has_bytes, adds>>

Read ==
    /\ thread["down"] = "read"
    /\ mutex' = "free"
    /\ Goto("down", "rest")
    /\ UNCHANGED <<smap, running, main, has_bytes, adds>>

-----------------------------------------------------------------------------
MonitorInit ==
    /\ smap = {} /\ has_bytes = {}
    /\ mutex = "free"
    /\ running = [t \in Threads |-> FALSE]
    /\ thread = [t \in Threads |-> "none"]
    /\ main = "idle"
    /\ adds = 0

Main ==
    \/ \E s \in Sockets : add(s) \/ remove(s) \/ queuePacket(s)
    \/ StartDownload \/ StartUpload \/ signalPacketReady

ThreadStep(t) == Run(t) \/ Loop(t) \/ Lock(t) \/ Rest(t)
UploadStep == ThreadStep("up") \/ (\E sent \in SUBSET has_bytes : Upload(sent)) \/ Wait
DownloadStep == ThreadStep("down") \/ FillPollVector \/ Poll \/ Read

MonitorNext == Main \/ UploadStep \/ DownloadStep

MonitorSpec == MonitorInit /\ [][MonitorNext]_monitorVars

\* Every thread runs on; a thread that keeps asking for the mutex gets it in the
\* end, and a connection that keeps being written to sends its bytes.  The main
\* thread finishes what it began; what it begins is up to users and peers.
MonitorFairness ==
    /\ WF_monitorVars(UploadStep) /\ WF_monitorVars(DownloadStep)
    /\ \A t \in Threads : SF_monitorVars(Lock(t))
    /\ \A s \in Sockets : SF_monitorVars(\E sent \in SUBSET has_bytes : s \in sent /\ Upload(sent))
    /\ SF_monitorVars(StartDownload) /\ SF_monitorVars(StartUpload) /\ WF_monitorVars(signalPacketReady)

FairMonitorSpec == MonitorSpec /\ MonitorFairness

-----------------------------------------------------------------------------
(* Properties *)

Unlocked == {"none", "born", "test", "lock", "rest"}
PCs == [up |-> Unlocked \cup {"work", "to_wait", "wait"},
        down |-> Unlocked \cup {"work", "poll", "lock_again", "read"}]

\* Every variable has its type; only monitored sockets have bytes to send.
MonitorTypeOK ==
    /\ smap \subseteq Sockets /\ has_bytes \subseteq smap
    /\ mutex \in {"free", "main"} \cup Threads
    /\ running \in [Threads -> BOOLEAN]
    /\ DOMAIN thread = Threads /\ \A t \in Threads : thread[t] \in PCs[t]
    /\ main \in {"idle", "start_down", "start_up", "signal"}
    /\ adds \in 0..MaxAdds

\* The monitor's mutex is held exactly by whoever is inside its locked part, so
\* the list of sockets never changes under a thread that walks it.
LockHolder ==
    /\ mutex = "main" <=> main \in {"start_down", "start_up"}
    /\ \A t \in Threads : mutex = t <=> thread[t] \in {"work", "read"}

\* While there are sockets and add() has returned, both threads are alive and
\* will go on looping, in whatever order sockets come and go and however late
\* the threads set and test "running" (socketmonitor.cpp:97-133).
ThreadsLive ==
    smap # {} /\ main \in {"idle", "signal"} =>
        \A t \in Threads : thread[t] # "none" /\ (running[t] \/ thread[t] = "born")

\* Nobody walks the list of sockets while it changes, and it is walked again and
\* again as long as it is not empty.
SocketsAreServed == MonitorTypeOK /\ LockHolder /\ ThreadsLive

\* "tell upload thread we have data ready should it be sleeping"
\* (packetwriter.cpp:79): as long as packets keep being queued, whatever has
\* been queued is sent, or its socket goes away.
SentByLaterSignals ==
    \A s \in Sockets :
        []<><<signalPacketReady>>_monitorVars => ((s \in has_bytes) ~> (s \notin has_bytes))
=============================================================================
