----------------------------- MODULE MCNetwork -----------------------------
(***************************************************************************)
(* The network of the program: the two directions of a connection, which   *)
(* share nothing but the socket, and the threads that drive all of them.   *)
(* A behaviour either sends through a BufferedSocket, or receives through  *)
(* a PacketReader, or starts, wakes and stops the threads of SocketMonitor.*)
(***************************************************************************)
EXTENDS BufferedSocket, SocketMonitor

CONSTANTS s1, s2

\* a keep-alive between packets, a packet of the maximal length and, followed by
\* another one, a packet that is too long
MCLengths == <<2, 0, 1, 4, 3, 5, 1>>

VARIABLES
    part,
    packet_queue, len, error, read_main, position, keystream, read_open, killed, delivered

Reader == INSTANCE PacketReader WITH
    Lengths <- MCLengths, LengthSize <- 4, MaxPacket <- 4, Reinserted <- 7, Garbled <- 2,
    open <- read_open, main <- read_main

ASSUME Reader!SizesAssumption

readerVars ==
    <<packet_queue, len, error, read_main, position, keystream, read_open, killed, delivered>>

MCInit ==
    /\ part \in {"send", "receive", "threads"}
    /\ Init /\ Reader!Init /\ MonitorInit

MCNext ==
    \/ part = "send" /\ Next /\ UNCHANGED <<part, readerVars, monitorVars>>
    \/ part = "receive" /\ Reader!Next /\ UNCHANGED <<part, vars, monitorVars>>
    \/ part = "threads" /\ MonitorNext /\ UNCHANGED <<part, vars, readerVars>>

\* In a behaviour that receives, the main timer calls Peer::update again and again
Receiving(A) == part = "receive" /\ A /\ UNCHANGED <<part, vars, monitorVars>>

MCSpec ==
    /\ MCInit /\ [][MCNext]_<<part, vars, readerVars, monitorVars>>
    /\ WF_readerVars(Receiving(Reader!PeerUpdate))
    /\ WF_readerVars(Receiving(Reader!StartMonitoring))
    /\ WF_readerVars(Receiving(Reader!DeliverReinserted))
    /\ MonitorFairness

\* What PacketReader hands over is what the peer sent (PacketReader::onDataReady)
PacketsAreIntact == Reader!PacketsAreIntact

\* Every complete packet is handed over, or its peer is gone (PacketReader::update)
CompleteIsDelivered == Reader!CompleteIsDelivered
=============================================================================
