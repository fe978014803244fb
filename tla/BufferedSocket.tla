--------------------------- MODULE BufferedSocket ---------------------------
(***************************************************************************)
(* The sending side of net::BufferedSocket.  The upload thread calls       *)
(* writeBuffered(max) again and again; the socket takes what is left in    *)
(* output_buffer, then asks its SocketWriter (bt::PacketWriter) to fill    *)
(* the buffer, until the kernel takes no more or the limit is reached.     *)
(* Only the upload thread touches this state.                              *)
(*                                                                         *)
(* The bytes the writer hands over are numbered 1, 2, 3, ...; the buffer   *)
(* holds first + 1 .. first + filled and the wire is what the kernel was   *)
(* given, so loss, repetition and reordering of bytes are all visible.     *)
(***************************************************************************)
EXTENDS Integers, Sequences

CONSTANTS
    OutputBufferSize,   \* OUTPUT_BUFFER_SIZE
    Limits,             \* the limits writeBuffered is called with, 0: no limit
    PartialSends,       \* TRUE: send() may take a part of what it is offered
    MaxBytes            \* bound: the bytes the writer ever hands over

ASSUME SizeAssumption == OutputBufferSize \in Nat \ {0} /\ MaxBytes \in Nat
ASSUME LimitsAssumption == Limits \subseteq Nat
ASSUME KernelAssumption == PartialSends \in BOOLEAN

VARIABLES
    bytes_in_output_buffer,
    bytes_sent,
    call,       \* the writeBuffered in progress: its limit, what it sent, where it is
    open,       \* Socket::ok()
    first,      \* how many bytes the writer had handed over before this buffer
    filled,     \* how many bytes the last onReadyToWrite put into the buffer
    wire        \* the bytes the kernel took, in the order it took them

vars == <<bytes_in_output_buffer, bytes_sent, call, open, first, filled, wire>>

NoCall == [pc |-> "idle", max |-> 0, bw |-> 0]

\* "max == 0" in the code: a call without a limit.  In such a call max - bw
\* wraps around to a number above every buffer size, so nothing limits it.
Unlimited == call.max = 0
Allowed == call.max - call.bw

-----------------------------------------------------------------------------
\* writeBuffered: what is left of the previous buffer is sent first
Call(max) ==
    /\ call.pc = "idle" /\ open
    /\ call' = [pc |-> IF bytes_in_output_buffer > 0 THEN "rest" ELSE "fill",
                max |-> max, bw |-> 0]
    /\ UNCHANGED <<bytes_in_output_buffer, bytes_sent, open, first, filled, wire>>

\* Where writeBuffered goes with "in" bytes left after a send: it returns bw if
\* the buffer was not sent in full or the limit is reached.
After(in, bw) ==
    [call EXCEPT !.pc = IF in > 0 \/ (~Unlimited /\ bw >= call.max) THEN "idle" ELSE "fill",
                 !.bw = bw]

TakenFromStart(n) == [k \in 1..n |-> first + k]  \* mutant: the offset is forgotten

\* the bytes of a send: output_buffer + bytes_sent, n of them
Taken(n) == [k \in 1..n |-> first + bytes_sent + k]

\* mutant: the limit is not passed on
OfferedInFull == bytes_in_output_buffer

\* how much sendOutputBuffer offers: everything, or what the limit still allows
Offered ==
    IF Unlimited \/ bytes_in_output_buffer <= Allowed THEN bytes_in_output_buffer
    ELSE Allowed

\* the counters after a send of n bytes; in the branch that offers everything
\* both are reset when they are equal
Counts(n) ==
    LET in == bytes_in_output_buffer - n
        sent == bytes_sent + n
        reset == Offered = bytes_in_output_buffer /\ sent = in
    IN /\ bytes_in_output_buffer' = IF reset THEN 0 ELSE in
       /\ bytes_sent' = IF reset THEN 0 ELSE sent

\* sendOutputBuffer: the kernel takes n > 0 bytes of what it is offered
Send(n) ==
    /\ call.pc \in {"rest", "send"}
    /\ n <= Offered
    /\ PartialSends \/ n = Offered
    /\ wire' = wire \o Taken(n)
    /\ Counts(n)
    /\ call' = After(bytes_in_output_buffer', call.bw + n)
    /\ UNCHANGED <<open, first, filled>>

\* the kernel takes nothing (EAGAIN), or the connection is broken and closed
SendNothing ==
    /\ call.pc \in {"rest", "send"}
    /\ call' = [call EXCEPT !.pc = "idle"]
    /\ \E ok \in BOOLEAN : open' = ok
    /\ UNCHANGED <<bytes_in_output_buffer, bytes_sent, first, filled, wire>>

\* onReadyToWrite fills the buffer with n bytes, or has none
Fill(n) ==
    /\ call.pc = "fill"
    /\ n \in 0..OutputBufferSize /\ first + filled + n <= MaxBytes
    /\ bytes_in_output_buffer' = n
    /\ bytes_sent' = 0
    /\ first' = first + filled
    /\ filled' = n
    /\ call' = IF n > 0 THEN [call EXCEPT !.pc = "send"]
               ELSE [call EXCEPT !.pc = "idle"]
    /\ UNCHANGED <<open, wire>>

-----------------------------------------------------------------------------
Init ==
    /\ bytes_in_output_buffer = 0 /\ bytes_sent = 0
    /\ call = NoCall
    /\ open = TRUE
    /\ first = 0 /\ filled = 0
    /\ wire = <<>>

Next ==
    \/ \E max \in Limits : Call(max)
    \/ \E n \in 1..OutputBufferSize : Send(n)
    \/ SendNothing
    \/ \E n \in 0..OutputBufferSize : Fill(n)

Spec == Init /\ [][Next]_vars

-----------------------------------------------------------------------------
(* Properties *)

\* The counters stay inside the buffer and a call remembers its own limit.
TypeOK ==
    /\ bytes_in_output_buffer \in 0..OutputBufferSize
    /\ bytes_sent \in 0..OutputBufferSize
    /\ call \in [pc : {"idle", "rest", "fill", "send"}, max : Limits \cup {0}, bw : Nat]
    /\ open \in BOOLEAN
    /\ first \in Nat /\ filled \in 0..OutputBufferSize
    /\ wire \in Seq(Nat \ {0})

\* What sendOutputBuffer reads, output_buffer + bytes_sent for
\* bytes_in_output_buffer bytes, lies inside what the writer put there.
ReadsWhatWasWritten ==
    bytes_in_output_buffer > 0 => bytes_sent + bytes_in_output_buffer = filled

\* However sends are cut short and calls are limited, no byte is sent twice and
\* none overtakes another (bufferedsocket.cpp:135-138, 156-159).
BytesInOrder ==
    \A i, j \in 1..Len(wire) : i < j => wire[i] < wire[j]

\* A call with a limit never sends more than the limit, over the rest of the old
\* buffer and all the buffers it fills: the rate limits of SocketGroup rest on it.
WithinLimit == call.max > 0 => call.bw <= call.max

\* "The data will be fully sent, before another request is done."
\* (bufferedsocket.h:56): when onReadyToWrite is asked for more, every byte it
\* handed over before is on the wire.
FullySentBeforeRefill ==
    call.pc = "fill" => wire = [k \in 1..(first + filled) |-> k]
=============================================================================
