---------------------------- MODULE PacketReader ----------------------------
(***************************************************************************)
(* The receiving half of one peer connection.  The download thread hands   *)
(* whatever bytes the kernel has to bt::PacketReader through the decryptor *)
(* of mse::StreamSocket; PacketReader cuts the stream into packets, and    *)
(* the main thread passes the complete ones on in Peer::update.  A         *)
(* handshake that read too far has put bytes back (reinsert), which        *)
(* startMonitoring delivers, on the main thread, after it has given the    *)
(* socket to the download thread.                                          *)
(*                                                                         *)
(* A byte is <<m, k>>, the k-th byte of message m: its length field first, *)
(* then its payload.  What a byte says is left out, where it belongs not.  *)
(***************************************************************************)
EXTENDS Naturals, Sequences, SequencesExt

CONSTANTS
    Lengths,        \* the payload length of each message the peer sends
    LengthSize,     \* bytes of a length field: 4
    MaxPacket,      \* MAX_PIECE_LEN + 13
    Reinserted,     \* how many bytes of the stream the handshake put back
    Garbled         \* what a length field of misplaced bytes happens to say

SizesAssumption ==
    /\ Lengths \in Seq(Nat) /\ LengthSize \in Nat \ {0} /\ MaxPacket \in Nat \ {0}
    /\ Reinserted \in Nat /\ Garbled \in Nat

VARIABLES
    packet_queue,   \* PacketReader::packet_queue: the size of each and its bytes
    len,            \* the bytes of an incomplete length field
    error,          \* PacketReader::error
    main,           \* how far the main thread is in startMonitoring
    position,       \* how many bytes of the stream the kernel has handed over
    keystream,      \* the bytes the RC4 decryptor has seen, in its order
    open,           \* Socket::ok()
    killed,         \* Peer::killed
    delivered       \* history: what packetReady was called with

vars == <<packet_queue, len, error, main, position, keystream, open, killed, delivered>>

Bytes(m) == [k \in 1..(LengthSize + Lengths[m]) |-> <<m, k>>]
Stream == FlattenSeq([m \in 1..Len(Lengths) |-> Bytes(m)])

\* ReadUint32 of a length field
Number(field) ==
    LET m == field[1][1]
    IN IF field = SubSeq(Bytes(m), 1, LengthSize) THEN Lengths[m] ELSE Garbled

-----------------------------------------------------------------------------
(* PacketReader; st: its state, with how much of the buffer is used so far *)

State(used) == [queue |-> packet_queue, len |-> len, error |-> error, used |-> used]
Used(st, n) == [st EXCEPT !.used = @ + n]
From(buf, n) == SubSeq(buf, n + 1, Len(buf))

\* readPacket: the last packet takes what it misses
readPacket(st, buf) ==
    LET last == Last(st.queue)
        missing == last.size - Len(last.data)
        n == IF Len(buf) >= missing THEN missing ELSE Len(buf)
    IN [Used(st, n) EXCEPT !.queue[Len(st.queue)].data = @ \o SubSeq(buf, 1, n)]

TooLong(length) == length > MaxPacket

\* the length field: what len holds, completed from the buffer
Field(st, buf) == st.len \o SubSeq(buf, 1, LengthSize - Len(st.len))

newPacket(st, buf) ==
    IF Len(buf) < LengthSize - Len(st.len)
    THEN [Used(st, Len(buf)) EXCEPT !.len = @ \o buf]
    ELSE LET n == LengthSize - Len(st.len)
             length == Number(Field(st, buf))
             read == [Used(st, n) EXCEPT !.len = <<>>]
         IN IF length = 0 THEN read
            ELSE IF TooLong(length) THEN [Used(st, Len(buf)) EXCEPT !.len = <<>>, !.error = TRUE]
            ELSE readPacket([read EXCEPT !.queue = Append(@, [size |-> length, data |-> <<>>])],
                            From(buf, n))

\* onDataReady: the packet begun before, then new packets until the buffer is
\* used up; each of them uses at least a byte of it
onDataReady(buf) ==
    LET last == Last(packet_queue)
        first == IF packet_queue # <<>> /\ Len(last.data) < last.size
                 THEN readPacket(State(0), buf) ELSE newPacket(State(0), buf)
        more(st) == IF st.used < Len(buf) /\ ~st.error THEN newPacket(st, From(buf, st.used))
                    ELSE st
        \* the state after i rounds, as the only element of a set
        loop[i \in 0..Len(buf)] == IF i = 0 THEN {first} ELSE {more(st) : st \in loop[i - 1]}
    IN IF error \/ buf = <<>> THEN UNCHANGED <<packet_queue, len, error>>
       ELSE \E end \in loop[Len(buf)] :
               /\ packet_queue' = end.queue
               /\ len' = end.len
               /\ error' = end.error

-----------------------------------------------------------------------------
(* StreamSocket::startMonitoring, on the main thread *)

StartMonitoring ==
    /\ main = "handshake"
    /\ main' = IF Reinserted > 0 THEN "reinsert" ELSE "monitored"
    /\ UNCHANGED <<packet_queue, len, error, position, keystream, open, killed, delivered>>

DeliverReinserted ==
    /\ main = "reinsert"
    /\ onDataReady(SubSeq(Stream, 1, Reinserted))
    /\ keystream' = keystream \o SubSeq(Stream, 1, Reinserted)
    /\ main' = "monitored"
    /\ UNCHANGED <<position, open, killed, delivered>>

\* the download thread reads n bytes: StreamSocket::onDataReady decrypts them
Receive(n) ==
    LET buf == SubSeq(Stream, position + 1, position + n)
    IN /\ main # "handshake" /\ open
       /\ n \in 1..(Len(Stream) - position)
       /\ onDataReady(buf)
       /\ keystream' = keystream \o buf
       /\ position' = position + n
       /\ UNCHANGED <<main, open, killed, delivered>>

Close ==
    /\ open /\ open' = FALSE
    /\ UNCHANGED <<packet_queue, len, error, main, position, keystream, killed, delivered>>

\* mutants: every packet is passed on; the last one never is
AllPackets == Len(packet_queue)
PacketsBeforeLast == IF packet_queue = <<>> THEN 0 ELSE Len(packet_queue) - 1

\* how many packets at the front of the queue are complete
CompletePackets ==
    LET full == {n \in 0..Len(packet_queue) :
                   \A i \in 1..n : Len(packet_queue[i].data) = packet_queue[i].size}
    IN CHOOSE n \in full : \A m \in full : m <= n

\* Peer::update: a broken connection first, then PacketReader::update
PeerUpdate ==
    LET n == CompletePackets
    IN /\ main = "monitored" /\ ~killed
       /\ killed' = (~open \/ error)
       /\ IF killed'
          THEN UNCHANGED <<packet_queue, delivered>>
          ELSE /\ delivered' = delivered \o [i \in 1..n |-> packet_queue[i].data]
               /\ packet_queue' = From(packet_queue, n)
       /\ UNCHANGED <<len, error, main, position, keystream, open>>

-----------------------------------------------------------------------------
Init ==
    /\ packet_queue = <<>> /\ len = <<>>
    /\ error = FALSE
    /\ main = "handshake"
    /\ position = Reinserted
    /\ keystream = <<>>
    /\ open = TRUE /\ killed = FALSE
    /\ delivered = <<>>

Next ==
    \/ StartMonitoring \/ DeliverReinserted \/ PeerUpdate \/ Close
    \/ \E n \in 1..Len(Stream) : Receive(n)

Spec == Init /\ [][Next]_vars

-----------------------------------------------------------------------------
(* Properties *)

\* Every variable has its type; a packet never holds more than its size, and
\* only the last packet of the queue can be incomplete.
TypeOK ==
    /\ \A i \in DOMAIN packet_queue :
          /\ packet_queue[i].size \in 1..MaxPacket
          /\ Len(packet_queue[i].data) <= packet_queue[i].size
          /\ i < Len(packet_queue) => Len(packet_queue[i].data) = packet_queue[i].size
    /\ Len(len) < LengthSize
    /\ error \in BOOLEAN /\ open \in BOOLEAN /\ killed \in BOOLEAN
    /\ main \in {"handshake", "reinsert", "monitored"}
    /\ position \in 0..Len(Stream)

\* what the peer meant to send: the payloads of the messages that have one, up
\* to a message that is too long
Payload(m) == From(Bytes(m), LengthSize)
Meant ==
    LET ok == {n \in 0..Len(Lengths) : \A m \in 1..n : Lengths[m] <= MaxPacket}
        n == CHOOSE k \in ok : \A j \in ok : j <= k
        long == SelectSeq([m \in 1..n |-> m], LAMBDA m : Lengths[m] > 0)
    IN [i \in 1..Len(long) |-> Payload(long[i])]

\* The decryptor and PacketReader see the bytes of the stream in order.  startMonitoring
\* does not ensure it: the download thread may run before DeliverReinserted.
InStreamOrder == IsPrefix(keystream, Stream)

\* In whatever order the bytes come, no packet is overrun (TypeOK).  However the
\* stream is cut into buffers, as long as they come in order packetReady
\* is called with exactly the packets the peer sent, in order and in full; keep-alives
\* vanish, and only a packet that is too long ends the connection, not before its
\* length field has arrived.
PacketsAreIntact ==
    /\ TypeOK
    /\ InStreamOrder =>
          /\ IsPrefix(delivered, Meant)
          /\ \A i \in DOMAIN packet_queue :
                /\ Len(delivered) + i <= Len(Meant)
                /\ IsPrefix(packet_queue[i].data, Meant[Len(delivered) + i])
          /\ error => \E m \in DOMAIN Lengths :
                         Lengths[m] > MaxPacket /\ Contains(keystream, <<m, LengthSize>>)

\* Every packet that is complete is passed on, or its peer is gone.
Complete(i) ==
    LET q == i - Len(delivered)
    IN q \in DOMAIN packet_queue /\ Len(packet_queue[q].data) = packet_queue[q].size

CompleteIsDelivered ==
    \A i \in 1..Len(Lengths) : Complete(i) ~> (Len(delivered) >= i \/ killed)
=============================================================================
