---------------------------- MODULE PacketWriter ----------------------------
(***************************************************************************)
(* The sending half of one peer connection: bt::PacketWriter, the part of  *)
(* bt::PeerUploader that feeds it and the handlers of bt::Peer that call   *)
(* both.  Two threads meet here.  The main thread handles REQUEST, CANCEL, *)
(* choke and unchoke and runs PeerUploader::update; the upload thread      *)
(* drains the two packet lists through onReadyToWrite.  They share the     *)
(* lists and curr_packet under PacketWriter::mutex; a handler that makes   *)
(* several calls releases the mutex between them, so it is several steps   *)
(* here.  Packets are heap objects: a packet is an address, addresses are  *)
(* reused once a packet is deleted, and curr_packet is a raw pointer.      *)
(***************************************************************************)
EXTENDS Naturals, Sequences, FiniteSets, SequencesExt

CONSTANTS
    Addr,           \* the addresses operator new can return
    Requests,       \* the (index, offset) pairs the remote peer asks for
    FirstWord,      \* first 4 payload bytes of the block a request asks for
    Length,         \* length of the block a request asks for
    FastExtensions, \* stats.fast_extensions of the peer
    PieceSize,      \* bytes of a PIECE packet
    ControlSize,    \* bytes of any other packet
    BufferSize,     \* OUTPUT_BUFFER_SIZE: what one onReadyToWrite may fill
    MaxQueued       \* bound on requests and packets waiting at a time

ASSUME SizesAssumption ==
    /\ PieceSize \in Nat \ {0}
    /\ ControlSize \in Nat \ {0}
    /\ BufferSize \in Nat \ {0}
    /\ MaxQueued \in Nat

ASSUME PeerAssumption == FastExtensions \in BOOLEAN

Null == "Null"      \* the 0 pointer
ASSUME NullAssumption == Null \notin Addr

VARIABLES
    heap,               \* what each address holds
    control_packets,    \* PacketWriter::control_packets
    data_packets,       \* PacketWriter::data_packets
    curr_packet,        \* PacketWriter::curr_packet
    ctrl_packets_sent,  \* PacketWriter::ctrl_packets_sent, only compared with 3
    requests,           \* PeerUploader::requests
    am_choked,          \* Peer::am_choked
    mutex,              \* holder of PacketWriter::mutex
    main,               \* where the main thread is inside a handler
    upload,             \* where the upload thread is inside onReadyToWrite
    told_choked,        \* history: what the packets sent in full told the peer
    bypassed            \* history: control packets sent while data waited

writer == <<heap, control_packets, data_packets, curr_packet, ctrl_packets_sent>>
vars == <<writer, requests, am_choked, mutex, main, upload, told_choked, bypassed>>

-----------------------------------------------------------------------------
(* Packets *)

Free == [type |-> "FREE"]
NoRequest == "NoRequest"
ControlTypes == {"CHOKE", "UNCHOKE", "REJECT", "OTHER"}

PacketOf(t, r) == [type |-> t, req |-> r, written |-> 0]

Packets == [type : {"PIECE"} \cup ControlTypes, req : Requests \cup {NoRequest},
            written : Nat]

Size(p) == IF heap[p].type = "PIECE" THEN PieceSize ELSE ControlSize
sending(p) == heap[p].written > 0

\* Packet::isPiece compares bytes 13..16 of the packet with the length; in a
\* PIECE packet those are the first bytes of the payload.
isPiece(p, r) ==
    /\ heap[p].type = "PIECE"
    /\ heap[p].req = r
    /\ FirstWord[heap[p].req] = Length[r]

queuePacket(a, t, r) ==
    /\ heap[a] = Free
    /\ heap' = [heap EXCEPT ![a] = PacketOf(t, r)]
    /\ IF t = "PIECE"
       THEN /\ data_packets' = Append(data_packets, a)
            /\ UNCHANGED control_packets
       ELSE /\ control_packets' = Append(control_packets, a)
            /\ UNCHANGED data_packets

-----------------------------------------------------------------------------
(* The upload thread: PacketWriter::onReadyToWrite *)

\* selectPacket prefers control packets until three have gone out since the
\* last PIECE, then a PIECE; whichever list is empty gives way to the other.
AlwaysPrefersControl(sent) == TRUE  \* mutant: the count of control packets is ignored
PrefersControl(sent) == sent < 3

SelectedPacket(control, data, sent) ==
    CASE control = <<>> /\ data = <<>>                     -> Null
      [] control # <<>> /\ (PrefersControl(sent) \/ data = <<>>) -> Head(control)
      [] OTHER                                             -> Head(data)

SelectedCount(data, sent) == IF ~PrefersControl(sent) /\ data # <<>> THEN 0 ELSE sent

selectPacket(control, data, sent) ==
    /\ curr_packet' = SelectedPacket(control, data, sent)
    /\ ctrl_packets_sent' = SelectedCount(data, sent)

\* mutant: "if (!curr_packet)" dropped, a half-sent packet is forgotten
EnterWithNewSelection ==
    /\ upload.pc = "idle" /\ mutex = "free"
    /\ mutex' = "upload"
    /\ upload' = [pc |-> "loop", room |-> BufferSize]
    /\ selectPacket(control_packets, data_packets, ctrl_packets_sent)
    /\ UNCHANGED <<heap, control_packets, data_packets, requests, am_choked, main,
                   told_choked, bypassed>>

\* the lock, and the selection that precedes the loop
EnterOnReadyToWrite ==
    /\ upload.pc = "idle" /\ mutex = "free"
    /\ mutex' = "upload"
    /\ upload' = [pc |-> "loop", room |-> BufferSize]
    /\ IF curr_packet = Null
       THEN selectPacket(control_packets, data_packets, ctrl_packets_sent)
       ELSE UNCHANGED <<curr_packet, ctrl_packets_sent>>
    /\ UNCHANGED <<heap, control_packets, data_packets, requests, am_choked, main,
                   told_choked, bypassed>>

InLoop == upload.pc = "loop" /\ curr_packet # Null /\ upload.room > 0

Remaining == Size(curr_packet) - heap[curr_packet].written

\* one iteration that sends the packet to its end, deletes it, and selects again
FinishPacket ==
    LET p == curr_packet
        control == IF heap[p].type = "PIECE" THEN control_packets ELSE Tail(control_packets)
        data == IF heap[p].type = "PIECE" THEN Tail(data_packets) ELSE data_packets
        sent == IF heap[p].type = "PIECE" THEN 0
                ELSE IF ctrl_packets_sent < 3 THEN ctrl_packets_sent + 1 ELSE 3
    IN /\ InLoop /\ Remaining <= upload.room
       /\ upload' = [upload EXCEPT !.room = @ - Remaining]
       /\ control_packets' = control
       /\ data_packets' = data
       /\ heap' = [heap EXCEPT ![p] = Free]
       /\ selectPacket(control, data, sent)
       /\ told_choked' = CASE heap[p].type = "CHOKE"   -> TRUE
                           [] heap[p].type = "UNCHOKE" -> FALSE
                           [] OTHER                    -> told_choked
       /\ bypassed' = IF heap[p].type = "PIECE" \/ data_packets = <<>> THEN 0
                      ELSE bypassed + 1
       /\ UNCHANGED <<requests, am_choked, mutex, main>>

\* the iteration the buffer cuts short: the packet stays current
PutPartOfPacket ==
    /\ InLoop /\ Remaining > upload.room
    /\ heap' = [heap EXCEPT ![curr_packet].written = @ + upload.room]
    /\ upload' = [pc |-> "idle", room |-> 0]
    /\ mutex' = "free"
    /\ UNCHANGED <<control_packets, data_packets, curr_packet, ctrl_packets_sent,
                   requests, am_choked, main, told_choked, bypassed>>

LeaveOnReadyToWrite ==
    /\ upload.pc = "loop" /\ (curr_packet = Null \/ upload.room = 0)
    /\ upload' = [pc |-> "idle", room |-> 0]
    /\ mutex' = "free"
    /\ UNCHANGED <<writer, requests, am_choked, main, told_choked, bypassed>>

Upload == EnterOnReadyToWrite \/ FinishPacket \/ PutPartOfPacket \/ LeaveOnReadyToWrite

-----------------------------------------------------------------------------
(* The main thread: handlers of Peer, PeerUploader and the choker *)

Idle == [pc |-> "idle", i |-> 0, req |-> NoRequest]
At(l, n, r) == [pc |-> l, i |-> n, req |-> r]

\* a new handler starts only while the bound on waiting work allows it
Ready ==
    /\ main.pc = "idle"
    /\ Len(requests) + Len(control_packets) + Len(data_packets) < MaxQueued

MainLeaves == <<curr_packet, ctrl_packets_sent, upload, told_choked, bypassed>>

\* Peer::packetReady, case REQUEST
OnRequest(r) ==
    /\ Ready /\ ~am_choked
    /\ requests' = Append(requests, r)
    /\ UNCHANGED <<writer, am_choked, mutex, main, upload, told_choked, bypassed>>

OnRequestWhileChoked(r) ==
    /\ Ready /\ am_choked /\ FastExtensions /\ mutex = "free"
    /\ \E a \in Addr : queuePacket(a, "REJECT", r)
    /\ UNCHANGED <<MainLeaves, requests, am_choked, mutex, main>>

\* the packets queued by sendInterested, sendHave, sendRequest, sendCancel ...
SendOther ==
    /\ Ready /\ mutex = "free"
    /\ \E a \in Addr : queuePacket(a, "OTHER", NoRequest)
    /\ UNCHANGED <<MainLeaves, requests, am_choked, mutex, main>>

\* mutant: am_choked keeps its value, as in sendEvilUnchoke
UnchokeWithoutFlag ==
    /\ Ready /\ am_choked /\ mutex = "free"
    /\ \E a \in Addr : queuePacket(a, "UNCHOKE", NoRequest)
    /\ UNCHANGED <<MainLeaves, requests, am_choked, mutex, main>>

sendUnchoke ==
    /\ Ready /\ am_choked /\ mutex = "free"
    /\ \E a \in Addr : queuePacket(a, "UNCHOKE", NoRequest)
    /\ am_choked' = FALSE
    /\ UNCHANGED <<MainLeaves, requests, mutex, main>>

\* Peer::choke: sendChoke, then PeerUploader::clearAllRequests
choke ==
    /\ Ready /\ ~am_choked /\ mutex = "free"
    /\ \E a \in Addr : queuePacket(a, "CHOKE", NoRequest)
    /\ am_choked' = TRUE
    /\ main' = At("clear_pieces", 0, NoRequest)
    /\ UNCHANGED <<MainLeaves, requests, mutex>>

EnterClearPieces ==
    /\ main.pc = "clear_pieces" /\ mutex = "free"
    /\ mutex' = "main"
    /\ main' = At("clearing", 1, NoRequest)
    /\ UNCHANGED <<MainLeaves, heap, control_packets, data_packets, requests, am_choked>>

\* mutants of Erase: curr_packet keeps the deleted packet; the packet is not deleted
EraseKeepsCurrent(p, reject) ==
    /\ data_packets' = RemoveAt(data_packets, main.i)
    /\ heap' = [heap EXCEPT ![p] = Free]
    /\ UNCHANGED <<control_packets, curr_packet>>

EraseLeaks(p, reject) ==
    /\ curr_packet' = IF curr_packet = p THEN Null ELSE curr_packet
    /\ data_packets' = RemoveAt(data_packets, main.i)
    /\ UNCHANGED <<heap, control_packets>>

\* one element of the loop that erases the PIECEs not being sent: both
\* clearPieces and doNotSendPiece are this loop with a different match
Erase(p, reject) ==
    /\ curr_packet' = IF curr_packet = p THEN Null ELSE curr_packet
    /\ data_packets' = RemoveAt(data_packets, main.i)
    /\ IF reject
       THEN \E a \in Addr :
               /\ heap[a] = Free
               /\ heap' = [heap EXCEPT ![a] = PacketOf("REJECT", heap[p].req), ![p] = Free]
               /\ control_packets' = Append(control_packets, a)
       ELSE /\ heap' = [heap EXCEPT ![p] = Free]
            /\ UNCHANGED control_packets

EraseLoop(pc, matching, reject) ==
    /\ main.pc = pc /\ main.i <= Len(data_packets)
    /\ LET p == data_packets[main.i]
       IN IF p \in matching /\ ~sending(p)
          THEN Erase(p, reject) /\ UNCHANGED main
          ELSE /\ main' = [main EXCEPT !.i = @ + 1]
               /\ UNCHANGED <<heap, control_packets, data_packets, curr_packet>>
    /\ UNCHANGED <<ctrl_packets_sent, requests, am_choked, mutex, upload, told_choked>>
    /\ bypassed' = IF data_packets' = data_packets THEN bypassed ELSE 0

EraseDone(pc) == main.pc = pc /\ main.i > Len(data_packets)

clearPieces ==
    \/ EraseLoop("clearing", {p \in Addr : heap[p].type = "PIECE"}, FastExtensions)
    \/ /\ EraseDone("clearing")
       /\ mutex' = "free"
       /\ main' = At("reject_requests", 1, NoRequest)
       /\ UNCHANGED <<MainLeaves, heap, control_packets, data_packets, requests, am_choked>>

\* the second half of clearAllRequests: a reject for each waiting request of a
\* fast peer, then requests.clear()
RejectRequest ==
    /\ main.pc = "reject_requests" /\ FastExtensions /\ main.i <= Len(requests)
    /\ mutex = "free"
    /\ \E a \in Addr : queuePacket(a, "REJECT", requests[main.i])
    /\ main' = [main EXCEPT !.i = @ + 1]
    /\ UNCHANGED <<MainLeaves, requests, am_choked, mutex>>

ClearRequests ==
    /\ main.pc = "reject_requests"
    /\ FastExtensions => main.i > Len(requests)
    /\ requests' = <<>>
    /\ main' = Idle
    /\ UNCHANGED <<writer, am_choked, mutex, upload, told_choked, bypassed>>

\* Peer::packetReady, case CANCEL: PeerUploader::removeRequest, which looks for
\* the request in the list and then turns to the packet writer
OnCancel(r) ==
    /\ main.pc = "idle"
    /\ main' = At("remove_request", 1, r)
    /\ UNCHANGED <<writer, requests, am_choked, mutex, upload, told_choked, bypassed>>

removeRequest ==
    /\ main.pc = "remove_request"
    /\ \/ /\ main.i <= Len(requests) /\ requests[main.i] = main.req
          /\ requests' = RemoveAt(requests, main.i)
          /\ UNCHANGED main
       \/ /\ main.i <= Len(requests) /\ requests[main.i] # main.req
          /\ main' = [main EXCEPT !.i = @ + 1]
          /\ UNCHANGED requests
       \/ /\ main.i > Len(requests)
          /\ main' = At("do_not_send", 0, main.req)
          /\ UNCHANGED requests
    /\ UNCHANGED <<writer, am_choked, mutex, upload, told_choked, bypassed>>

EnterDoNotSendPiece ==
    /\ main.pc = "do_not_send" /\ mutex = "free"
    /\ mutex' = "main"
    /\ main' = At("cancelling", 1, main.req)
    /\ UNCHANGED <<MainLeaves, heap, control_packets, data_packets, requests, am_choked>>

doNotSendPiece ==
    \/ EraseLoop("cancelling", {p \in Addr : isPiece(p, main.req)}, FastExtensions)
    \/ /\ EraseDone("cancelling")
       /\ mutex' = "free"
       /\ main' = Idle
       /\ UNCHANGED <<MainLeaves, heap, control_packets, data_packets, requests, am_choked>>

\* PeerUploader::update: the loop over requests, one request per step.  The
\* chunk may be unavailable (grabChunk) or the range illegal (sendChunk).
EnterUpdate ==
    /\ main.pc = "idle" /\ ~am_choked /\ requests # <<>>
    /\ main' = At("update", 0, NoRequest)
    /\ UNCHANGED <<writer, requests, am_choked, mutex, upload, told_choked, bypassed>>

Satisfy ==
    /\ main.pc = "update" /\ requests # <<>> /\ mutex = "free"
    /\ \E a \in Addr : queuePacket(a, "PIECE", Head(requests))
    /\ requests' = Tail(requests)
    /\ UNCHANGED <<MainLeaves, am_choked, mutex, main>>

\* mutant: the reject of a request that cannot be satisfied is forgotten
RefuseSilently ==
    /\ main.pc = "update" /\ requests # <<>>
    /\ requests' = Tail(requests)
    /\ UNCHANGED <<writer, am_choked, mutex, main, upload, told_choked, bypassed>>

Refuse ==
    /\ main.pc = "update" /\ requests # <<>>
    /\ IF FastExtensions
       THEN mutex = "free" /\ \E a \in Addr : queuePacket(a, "REJECT", Head(requests))
       ELSE UNCHANGED <<heap, control_packets, data_packets>>
    /\ requests' = Tail(requests)
    /\ UNCHANGED <<MainLeaves, am_choked, mutex, main>>

LeaveUpdate ==
    /\ main.pc = "update" /\ requests = <<>>
    /\ main' = Idle
    /\ UNCHANGED <<writer, requests, am_choked, mutex, upload, told_choked, bypassed>>

Main ==
    \/ \E r \in Requests : OnRequest(r) \/ OnRequestWhileChoked(r) \/ OnCancel(r)
    \/ SendOther \/ sendUnchoke
    \/ choke \/ EnterClearPieces \/ clearPieces \/ RejectRequest \/ ClearRequests
    \/ removeRequest \/ EnterDoNotSendPiece \/ doNotSendPiece
    \/ EnterUpdate \/ Satisfy \/ Refuse \/ LeaveUpdate

-----------------------------------------------------------------------------
Init ==
    /\ heap = [a \in Addr |-> Free]
    /\ control_packets = <<>> /\ data_packets = <<>>
    /\ curr_packet = Null
    /\ ctrl_packets_sent = 0
    /\ requests = <<>>
    /\ am_choked = TRUE
    /\ mutex = "free"
    /\ main = Idle
    /\ upload = [pc |-> "idle", room |-> 0]
    /\ told_choked = TRUE
    /\ bypassed = 0

Next == Main \/ Upload

Spec == Init /\ [][Next]_vars

-----------------------------------------------------------------------------
(* Properties *)

MainPCs == {"idle", "clear_pieces", "clearing", "reject_requests", "remove_request",
            "do_not_send", "cancelling", "update"}

\* Every variable has its type: list elements are addresses, a live address
\* holds a packet, the loop cursors are numbers.
TypeOK ==
    /\ heap \in [Addr -> Packets \cup {Free}]
    /\ control_packets \in Seq(Addr) /\ data_packets \in Seq(Addr)
    /\ curr_packet \in Addr \cup {Null}
    /\ ctrl_packets_sent \in 0..3
    /\ requests \in Seq(Requests)
    /\ am_choked \in BOOLEAN /\ told_choked \in BOOLEAN
    /\ mutex \in {"free", "main", "upload"}
    /\ main \in [pc : MainPCs, i : Nat, req : Requests \cup {NoRequest}]
    /\ upload \in [pc : {"idle", "loop"}, room : Nat]
    /\ bypassed \in Nat

\* curr_packet is null or the front of the list of its type, so the pop_front
\* and delete of onReadyToWrite (packetwriter.cpp:282-297) free the packet that
\* was sent, whatever clearPieces and doNotSendPiece erased in between.
CurrPacketIsFront ==
    curr_packet # Null =>
        /\ heap[curr_packet] # Free
        /\ IF heap[curr_packet].type = "PIECE"
           THEN data_packets # <<>> /\ Head(data_packets) = curr_packet
           ELSE control_packets # <<>> /\ Head(control_packets) = curr_packet

\* Every live packet is in exactly one list, once, and every list element is
\* live: no packet is deleted twice, used after its delete, or leaked.
Occurrences(a, s) == {i \in 1..Len(s) : s[i] = a}
ListsOwnPackets ==
    \A a \in Addr :
        /\ heap[a] = Free => a \notin Range(control_packets) \cup Range(data_packets)
        /\ heap[a] # Free =>
             /\ (heap[a].type = "PIECE") <=> (a \in Range(data_packets))
             /\ (heap[a].type # "PIECE") <=> (a \in Range(control_packets))
        /\ \A i, j \in Occurrences(a, data_packets) : i = j
        /\ \A i, j \in Occurrences(a, control_packets) : i = j

\* A packet of which a part is in the output buffer is curr_packet: the next
\* bytes written are its own, so two packets never interleave on the wire.
PartiallySentIsCurrent ==
    \A a \in Addr : heap[a] # Free /\ heap[a].written > 0 => curr_packet = a

\* Once Peer::choke has returned, nothing is waiting for the choked peer except
\* the PIECE whose first bytes are already out (peer.cpp:544-551).
ChokedPeerGetsNoPieces ==
    am_choked /\ main.pc = "idle" =>
        /\ requests = <<>>
        /\ \A a \in Range(data_packets) : heap[a].written > 0

\* What the peer has been told, and will be told by the packets still queued,
\* ends in our own am_choked: choke state is never announced out of order.
Announcements ==
    {i \in DOMAIN control_packets : heap[control_packets[i]].type \in {"CHOKE", "UNCHOKE"}}
AnnouncedChokeState ==
    /\ Announcements = {} => am_choked = told_choked
    /\ \A i \in Announcements :
          (\A j \in Announcements : j <= i) =>
              am_choked = (heap[control_packets[i]].type = "CHOKE")

\* The peer knows, in the end, whether it is choked, and gets nothing new if it is,
\* while Peer::choke clears the queues behind the back of the upload thread.
ChokeIsKept == ChokedPeerGetsNoPieces /\ AnnouncedChokeState

\* While a PIECE waits at most three control packets overtake it before the
\* next PIECE is sent or withdrawn, so uploads are not starved by control traffic.
BoundedBypass == bypassed <= 3

\* A fast peer gets an answer to every request it does not cancel: a request
\* leaves the queues only as a PIECE or reject that was sent in full, or in the
\* handler of its own CANCEL.  clearAllRequests goes over the requests before it
\* clears them; those in front of its iterator have their rejects already.
NextRequest == IF main.pc = "reject_requests" THEN main.i ELSE 1
Unanswered(r) == {i \in NextRequest..Len(requests) : requests[i] = r}
Answers(r) ==
    {a \in Range(data_packets) \cup Range(control_packets) :
        heap[a].type \in {"PIECE", "REJECT"} /\ heap[a].req = r}
Waiting(r) == Cardinality(Unanswered(r)) + Cardinality(Answers(r))

RequestsAreAnswered ==
    [][FastExtensions =>
         \A r \in Requests :
            Waiting(r)' < Waiting(r) =>
               \/ /\ curr_packet # Null /\ heap[curr_packet].req = r
                  /\ heap'[curr_packet] = Free
                  /\ upload.pc = "loop"
               \/ main.pc = "remove_request" /\ main.req = r]_vars
=============================================================================
