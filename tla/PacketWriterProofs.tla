------------------------ MODULE PacketWriterProofs ------------------------
(***************************************************************************)
(* Proofs about PacketWriter, for every set of addresses and requests,     *)
(* every packet and buffer size and both kinds of peer.                    *)
(*                                                                         *)
(* The safety invariants of PacketWriter are not inductive one by one: the *)
(* pop_front of onReadyToWrite frees the right packet only because the     *)
(* lists own their packets, and they go on owning them only because it     *)
(* frees the right packet.  LInv puts them together, in terms of positions *)
(* in the lists; BInv adds what bounds the overtaking, KInv how far        *)
(* Peer::choke has got with the PIECEs and the requests.                   *)
(***************************************************************************)
EXTENDS PacketWriter, SequenceTheorems, FiniteSetTheorems, TLAPS

\* The packets of the types T in the heap h are exactly the elements of s, and
\* none is there twice.
Owned(h, s, T) ==
    /\ \A i \in 1..Len(s) : h[s[i]].type \in T
    /\ \A i, j \in 1..Len(s) : s[i] = s[j] => i = j
    /\ \A a \in Addr : h[a].type \in T => \E i \in 1..Len(s) : s[i] = a

FrontIsCurrent ==
    curr_packet # Null =>
        \/ /\ heap[curr_packet].type = "PIECE"
           /\ Len(data_packets) > 0 /\ data_packets[1] = curr_packet
        \/ /\ heap[curr_packet].type \in ControlTypes
           /\ Len(control_packets) > 0 /\ control_packets[1] = curr_packet

ListTypes ==
    /\ heap \in [Addr -> Packets \cup {Free}]
    /\ control_packets \in Seq(Addr)
    /\ data_packets \in Seq(Addr)
    /\ curr_packet \in Addr \cup {Null}

\* The heap, the two lists and curr_packet.
LInv ==
    /\ ListTypes
    /\ Owned(heap, data_packets, {"PIECE"})
    /\ Owned(heap, control_packets, ControlTypes)
    /\ FrontIsCurrent
    /\ PartiallySentIsCurrent

\* The rest of the state; a loop that erases starts at the first element.
CInv ==
    /\ ctrl_packets_sent \in 0..3
    /\ requests \in Seq(Requests)
    /\ am_choked \in BOOLEAN /\ told_choked \in BOOLEAN
    /\ mutex \in {"free", "main", "upload"}
    /\ main \in [pc : MainPCs, i : Nat, req : Requests \cup {NoRequest}]
    /\ upload \in [pc : {"idle", "loop"}, room : Nat]
    /\ main.pc \in {"clearing", "cancelling", "reject_requests", "remove_request"} => main.i > 0

-----------------------------------------------------------------------------
(* Sequences without one element *)

\* t is s without its i-th element
Without(t, s, i) ==
    /\ Len(t) = Len(s) - 1
    /\ \A k \in 1..(Len(s) - 1) : t[k] = IF k < i THEN s[k] ELSE s[k + 1]

\* RemoveAt, the erase of a list element, leaves the others in their order.
LEMMA RemoveAtProperties ==
    ASSUME NEW S, NEW s \in Seq(S), NEW i \in 1..Len(s)
    PROVE  RemoveAt(s, i) \in Seq(S) /\ Without(RemoveAt(s, i), s, i)
<1> DEFINE l == SubSeq(s, 1, i - 1)
           r == SubSeq(s, i + 1, Len(s))
<1>1. Len(s) \in Nat /\ i \in Nat /\ i >= 1 /\ i <= Len(s)
  OBVIOUS
<1>2. /\ l \in Seq(S) /\ Len(l) = i - 1
      /\ \A k \in 1..(i - 1) : l[k] = s[k]
  BY <1>1, SubSeqProperties
<1>3. /\ r \in Seq(S) /\ Len(r) = Len(s) - i
      /\ \A k \in 1..(Len(s) - i) : r[k] = s[i + k]
  BY <1>1, SubSeqProperties
<1>4. RemoveAt(s, i) = l \o r
  BY DEF RemoveAt
<1> HIDE DEF l, r
<1>5. /\ l \o r \in Seq(S)
      /\ Len(l \o r) = Len(l) + Len(r)
      /\ \A k \in 1..(Len(l) + Len(r)) :
            (l \o r)[k] = IF k <= Len(l) THEN l[k] ELSE r[k - Len(l)]
  BY <1>2, <1>3, ConcatProperties
<1>6. \A k \in 1..(Len(s) - 1) : (l \o r)[k] = IF k < i THEN s[k] ELSE s[k + 1]
  <2> SUFFICES ASSUME NEW k \in 1..(Len(s) - 1)
               PROVE  (l \o r)[k] = IF k < i THEN s[k] ELSE s[k + 1]
    OBVIOUS
  <2>1. CASE k < i
    BY <2>1, <1>1, <1>2, <1>3, <1>5
  <2>2. CASE k >= i
    <3>1. k - (i - 1) \in 1..(Len(s) - i) /\ i + (k - (i - 1)) = k + 1
      BY <2>2, <1>1
    <3>2. (l \o r)[k] = r[k - (i - 1)]
      BY <2>2, <1>1, <1>2, <1>3, <1>5
    <3>3. r[k - (i - 1)] = s[k + 1]
      BY <3>1, <1>3
    <3> QED
      BY <2>2, <3>2, <3>3, <1>1
  <2> QED
    BY <2>1, <2>2, <1>1, k < i \/ k >= i
<1> QED
  BY <1>1, <1>2, <1>3, <1>4, <1>5, <1>6 DEF Without

\* pop_front.
LEMMA TailProperties ==
    ASSUME NEW S, NEW s \in Seq(S), Len(s) > 0
    PROVE  Tail(s) \in Seq(S) /\ Without(Tail(s), s, 1)
BY HeadTailProperties, SMT DEF Without

-----------------------------------------------------------------------------
(* Owned, list by list *)

\* A new packet at the end of the list.
LEMMA OwnedAppend ==
    ASSUME NEW h, NEW g, NEW T, NEW s \in Seq(Addr), NEW a \in Addr,
           Owned(h, s, T), h[a].type \notin T, g[a].type \in T,
           \A b \in Addr \ {a} : g[b].type = h[b].type
    PROVE  Owned(g, Append(s, a), T)
<1> DEFINE t == Append(s, a)
<1>1. /\ t \in Seq(Addr) /\ Len(t) = Len(s) + 1 /\ Len(s) \in Nat
      /\ \A i \in 1..Len(s) : t[i] = s[i] /\ s[i] \in Addr
      /\ t[Len(s) + 1] = a
  BY AppendProperties, ElementOfSeq
<1> HIDE DEF t
<1>2. \A i \in 1..Len(s) : s[i] # a
  BY DEF Owned
<1>3. \A i \in 1..Len(t) : g[t[i]].type \in T
  BY <1>1, <1>2 DEF Owned
<1>4. \A i, j \in 1..Len(t) : t[i] = t[j] => i = j
  BY <1>1, <1>2 DEF Owned
<1>5. ASSUME NEW b \in Addr, g[b].type \in T
      PROVE  \E i \in 1..Len(t) : t[i] = b
  <2>1. CASE b = a
    BY <2>1, <1>1
  <2>2. CASE b # a
    <3>1. PICK i \in 1..Len(s) : s[i] = b
      BY <2>2, <1>5 DEF Owned
    <3> QED
      BY <3>1, <1>1
  <2> QED
    BY <2>1, <2>2
<1> QED
  BY <1>3, <1>4, <1>5 DEF Owned, t

\* A packet deleted and erased.
LEMMA OwnedErase ==
    ASSUME NEW h, NEW g, NEW T, NEW s \in Seq(Addr), NEW t \in Seq(Addr), NEW i \in 1..Len(s),
           Owned(h, s, T), Without(t, s, i), g[s[i]].type \notin T,
           \A b \in Addr \ {s[i]} : g[b].type \in T <=> h[b].type \in T
    PROVE  Owned(g, t, T)
<1>1. Len(s) \in Nat /\ i \in Nat /\ Len(t) = Len(s) - 1
  BY DEF Without
<1>2. \A k \in 1..Len(s) : s[k] \in Addr
  BY ElementOfSeq
<1>3. ASSUME NEW k \in 1..Len(t)
      PROVE  \E m \in 1..Len(s) : t[k] = s[m] /\ m # i
  <2>1. t[k] = IF k < i THEN s[k] ELSE s[k + 1]
    BY <1>1 DEF Without
  <2>2. k \in 1..Len(s) /\ k + 1 \in 1..Len(s) /\ k \in Nat
    BY <1>1
  <2>3. CASE k < i
    BY <2>1, <2>2, <2>3, <1>1
  <2>4. CASE ~(k < i)
    <3>1. t[k] = s[k + 1] /\ k + 1 # i
      BY <2>1, <2>2, <2>4, <1>1
    <3> QED
      BY <3>1, <2>2
  <2> QED
    BY <2>3, <2>4
<1>4. \A k \in 1..Len(t) : g[t[k]].type \in T
  BY <1>2, <1>3, SMTT(30) DEF Owned
<1>5. ASSUME NEW j \in 1..Len(t), NEW k \in 1..Len(t), t[j] = t[k]
      PROVE  j = k
  <2>1. /\ t[j] = IF j < i THEN s[j] ELSE s[j + 1]
        /\ t[k] = IF k < i THEN s[k] ELSE s[k + 1]
        /\ j \in 1..Len(s) /\ j + 1 \in 1..Len(s) /\ k \in 1..Len(s) /\ k + 1 \in 1..Len(s)
    BY <1>1 DEF Without
  <2>2. \A m, n \in 1..Len(s) : s[m] = s[n] => m = n
    BY DEF Owned
  <2>3. CASE j < i /\ k < i
    BY <2>1, <2>2, <2>3, <1>5
  <2>4. CASE j < i /\ ~(k < i)
    <3>1. j = k + 1
      BY <2>1, <2>2, <2>4, <1>5
    <3> QED
      BY <3>1, <2>4, <1>1
  <2>5. CASE ~(j < i) /\ k < i
    <3>1. j + 1 = k
      BY <2>1, <2>2, <2>5, <1>5
    <3> QED
      BY <3>1, <2>5, <1>1
  <2>6. CASE ~(j < i) /\ ~(k < i)
    <3>1. j + 1 = k + 1
      BY <2>1, <2>2, <2>6, <1>5
    <3> QED
      BY <3>1, <1>1
  <2> QED
    BY <2>3, <2>4, <2>5, <2>6
<1>6. ASSUME NEW b \in Addr, g[b].type \in T
      PROVE  \E k \in 1..Len(t) : t[k] = b
  <2>1. b # s[i]
    BY <1>6
  <2>2. PICK m \in 1..Len(s) : s[m] = b
    BY <1>6, <2>1 DEF Owned
  <2>3. CASE m < i
    BY <2>2, <2>3, <1>1 DEF Without
  <2>4. CASE m > i
    <3>1. m - 1 \in 1..Len(t) /\ ~(m - 1 < i) /\ (m - 1) + 1 = m
      BY <2>4, <1>1
    <3>2. t[m - 1] = s[m]
      BY <3>1, <1>1 DEF Without
    <3> QED
      BY <3>1, <3>2, <2>2
  <2> QED
    BY <2>1, <2>2, <2>3, <2>4, <1>1
<1> QED
  BY <1>4, <1>5, <1>6 DEF Owned

\* A change to the heap that leaves the types of the list alone.
LEMMA OwnedSame ==
    ASSUME NEW h, NEW g, NEW T, NEW s \in Seq(Addr), Owned(h, s, T),
           \A b \in Addr : g[b].type \in T <=> h[b].type \in T
    PROVE  Owned(g, s, T)
BY ElementOfSeq DEF Owned

\* What a live address holds, told by its type.
LEMMA HeapTypes ==
    ASSUME NEW a \in Addr, ListTypes
    PROVE  /\ heap[a].type \in {"FREE", "PIECE"} \cup ControlTypes
           /\ heap[a] = Free <=> heap[a].type = "FREE"
           /\ heap[a] # Free => heap[a] \in Packets /\ heap[a].written \in Nat
<1>1. heap[a] \in Packets \/ heap[a] = Free
  BY DEF ListTypes
<1>2. CASE heap[a] \in Packets
  BY <1>2 DEF Packets, ControlTypes, Free
<1>3. CASE heap[a] = Free
  BY <1>3 DEF Free
<1> QED
  BY <1>1, <1>2, <1>3

-----------------------------------------------------------------------------
(* The steps that touch the heap, the lists or curr_packet *)

\* queuePacket appends a packet nobody has written a byte of.
LEMMA QueueStep ==
    ASSUME LInv, NEW a \in Addr, NEW t \in {"PIECE"} \cup ControlTypes,
           NEW r \in Requests \cup {NoRequest},
           queuePacket(a, t, r), curr_packet' = curr_packet
    PROVE  LInv'
<1>1. /\ heap[a].type = "FREE" /\ heap'[a] = PacketOf(t, r) /\ heap'[a].type = t
      /\ heap'[a].written = 0
      /\ \A b \in Addr \ {a} : heap'[b] = heap[b]
  BY HeapTypes DEF LInv, ListTypes, queuePacket, PacketOf, Free
<1>2. heap' \in [Addr -> Packets \cup {Free}]
  BY DEF LInv, ListTypes, queuePacket, PacketOf, Packets
<1>3. /\ data_packets' = IF t = "PIECE" THEN Append(data_packets, a) ELSE data_packets
      /\ control_packets' = IF t = "PIECE" THEN control_packets ELSE Append(control_packets, a)
  BY DEF queuePacket
<1>4. /\ data_packets \in Seq(Addr) /\ control_packets \in Seq(Addr)
      /\ "PIECE" \notin ControlTypes /\ "FREE" \notin ControlTypes
  BY DEF LInv, ListTypes, ControlTypes
<1>5. data_packets' \in Seq(Addr) /\ control_packets' \in Seq(Addr)
  BY <1>3, <1>4, AppendProperties
<1>6. Owned(heap, data_packets, {"PIECE"}) /\ Owned(heap, control_packets, ControlTypes)
  BY DEF LInv
<1>7. Owned(heap', data_packets', {"PIECE"})
  <2>1. CASE t = "PIECE"
    BY <2>1, <1>1, <1>3, <1>4, <1>6, OwnedAppend
  <2>2. CASE t # "PIECE"
    BY <2>2, <1>1, <1>3, <1>4, <1>6, OwnedSame
  <2> QED
    BY <2>1, <2>2
<1>8. Owned(heap', control_packets', ControlTypes)
  <2>1. CASE t = "PIECE"
    BY <2>1, <1>1, <1>3, <1>4, <1>6, OwnedSame
  <2>2. CASE t # "PIECE"
    BY <2>2, <1>1, <1>3, <1>4, <1>6, OwnedAppend
  <2> QED
    BY <2>1, <2>2
<1>9. ListTypes'
  BY <1>2, <1>5 DEF LInv, ListTypes
<1>10. FrontIsCurrent'
  <2> SUFFICES ASSUME curr_packet # Null
               PROVE  \/ /\ heap'[curr_packet].type = "PIECE"
                         /\ Len(data_packets') > 0 /\ data_packets'[1] = curr_packet
                      \/ /\ heap'[curr_packet].type \in ControlTypes
                         /\ Len(control_packets') > 0 /\ control_packets'[1] = curr_packet
    BY DEF FrontIsCurrent
  <2>1. curr_packet \in Addr /\ heap[curr_packet].type # "FREE"
    BY <1>4 DEF LInv, ListTypes, FrontIsCurrent
  <2>2. heap'[curr_packet] = heap[curr_packet]
    BY <2>1, <1>1
  <2>3. /\ Len(data_packets) > 0 => Len(data_packets') > 0 /\ data_packets'[1] = data_packets[1]
        /\ Len(control_packets) > 0 =>
              Len(control_packets') > 0 /\ control_packets'[1] = control_packets[1]
    BY <1>3, <1>4, AppendProperties
  <2> QED
    BY <2>2, <2>3 DEF LInv, FrontIsCurrent
<1>11. PartiallySentIsCurrent'
  BY <1>1 DEF LInv, PartiallySentIsCurrent
<1> QED
  BY <1>7, <1>8, <1>9, <1>10, <1>11 DEF LInv

\* selectPacket returns the front of one of the lists, or nothing.
LEMMA SelectedIsFront ==
    ASSUME NEW h, NEW control \in Seq(Addr), NEW data \in Seq(Addr), NEW sent,
           Owned(h, data, {"PIECE"}), Owned(h, control, ControlTypes)
    PROVE  LET p == SelectedPacket(control, data, sent)
           IN \/ p = Null /\ control = <<>> /\ data = <<>>
              \/ /\ p \in Addr /\ h[p].type = "PIECE" /\ Len(data) > 0 /\ data[1] = p
                 /\ control = <<>> \/ ~PrefersControl(sent)
              \/ /\ p \in Addr /\ h[p].type \in ControlTypes /\ Len(control) > 0 /\ control[1] = p
                 /\ data = <<>> \/ PrefersControl(sent)
<1> DEFINE p == SelectedPacket(control, data, sent)
<1>1. control # <<>> => Len(control) > 0 /\ Head(control) = control[1] /\ control[1] \in Addr
  BY ElementOfSeq
<1>2. data # <<>> => Len(data) > 0 /\ Head(data) = data[1] /\ data[1] \in Addr
  BY ElementOfSeq
<1>3. CASE control = <<>> /\ data = <<>>
  BY <1>3 DEF SelectedPacket
<1>4. CASE control # <<>> /\ (PrefersControl(sent) \/ data = <<>>)
  BY <1>1, <1>4 DEF SelectedPacket, Owned
<1>5. CASE data # <<>> /\ ~(control # <<>> /\ (PrefersControl(sent) \/ data = <<>>))
  BY <1>2, <1>5 DEF SelectedPacket, Owned
<1> QED
  BY <1>3, <1>4, <1>5

\* The selection before the loop.
LEMMA EnterStep ==
    ASSUME LInv, EnterOnReadyToWrite
    PROVE  LInv'
<1>1. CASE curr_packet = Null
  <2>1. /\ curr_packet' = SelectedPacket(control_packets, data_packets, ctrl_packets_sent)
        /\ heap' = heap /\ data_packets' = data_packets /\ control_packets' = control_packets
    BY <1>1 DEF EnterOnReadyToWrite, selectPacket
  <2>2. /\ Owned(heap, data_packets, {"PIECE"}) /\ Owned(heap, control_packets, ControlTypes)
        /\ data_packets \in Seq(Addr) /\ control_packets \in Seq(Addr)
    BY DEF LInv, ListTypes
  <2>3. FrontIsCurrent' /\ curr_packet' \in Addr \cup {Null}
    BY <2>1, <2>2, SelectedIsFront DEF FrontIsCurrent
  <2>4. PartiallySentIsCurrent'
    BY <1>1, <2>1, NullAssumption DEF LInv, PartiallySentIsCurrent
  <2> QED
    BY <2>1, <2>2, <2>3, <2>4 DEF LInv, ListTypes
<1>2. CASE curr_packet # Null
  <2>1. UNCHANGED <<heap, data_packets, control_packets, curr_packet>>
    BY <1>2 DEF EnterOnReadyToWrite
  <2> QED
    BY <2>1 DEF LInv, ListTypes, Owned, FrontIsCurrent, PartiallySentIsCurrent
<1> QED
  BY <1>1, <1>2

\* A packet sent to its end is popped off its list, deleted, and the next selected.
LEMMA FinishStep ==
    ASSUME LInv, FinishPacket
    PROVE  LInv'
<1> DEFINE p == curr_packet
<1>1. p \in Addr /\ p # Null
  BY DEF FinishPacket, InLoop, LInv, ListTypes
<1>2. /\ data_packets \in Seq(Addr) /\ control_packets \in Seq(Addr)
      /\ Owned(heap, data_packets, {"PIECE"}) /\ Owned(heap, control_packets, ControlTypes)
      /\ "PIECE" \notin ControlTypes /\ "FREE" \notin ControlTypes
  BY DEF LInv, ListTypes, ControlTypes
<1>3. /\ heap' = [heap EXCEPT ![p] = Free]
      /\ data_packets' = IF heap[p].type = "PIECE" THEN Tail(data_packets) ELSE data_packets
      /\ control_packets' = IF heap[p].type = "PIECE" THEN control_packets ELSE Tail(control_packets)
      /\ \E sent : curr_packet' = SelectedPacket(control_packets', data_packets', sent)
  BY DEF FinishPacket, selectPacket
<1>4. /\ heap' \in [Addr -> Packets \cup {Free}]
      /\ heap'[p] = Free /\ heap'[p].type = "FREE"
      /\ \A b \in Addr \ {p} : heap'[b] = heap[b]
  BY <1>1, <1>3 DEF LInv, ListTypes, Free
<1>5. /\ data_packets' \in Seq(Addr) /\ control_packets' \in Seq(Addr)
      /\ Owned(heap', data_packets', {"PIECE"}) /\ Owned(heap', control_packets', ControlTypes)
  <2>1. CASE heap[p].type = "PIECE"
    <3>1. Len(data_packets) > 0 /\ data_packets[1] = p /\ 1 \in 1..Len(data_packets)
      BY <2>1, <1>1, <1>2 DEF LInv, FrontIsCurrent
    <3>2. data_packets' \in Seq(Addr) /\ Without(data_packets', data_packets, 1)
      BY <2>1, <3>1, <1>2, <1>3, TailProperties
    <3>3. Owned(heap', data_packets', {"PIECE"})
      BY <3>1, <3>2, <1>2, <1>4, OwnedErase
    <3>4. /\ control_packets' = control_packets
          /\ \A b \in Addr : heap'[b].type \in ControlTypes <=> heap[b].type \in ControlTypes
      BY <2>1, <1>2, <1>3, <1>4
    <3>5. Owned(heap', control_packets', ControlTypes)
      BY <3>4, <1>2, OwnedSame
    <3> QED
      BY <3>2, <3>3, <3>4, <3>5, <1>2
  <2>2. CASE heap[p].type # "PIECE"
    <3>1. Len(control_packets) > 0 /\ control_packets[1] = p /\ 1 \in 1..Len(control_packets)
      BY <2>2, <1>1, <1>2 DEF LInv, FrontIsCurrent
    <3>2. control_packets' \in Seq(Addr) /\ Without(control_packets', control_packets, 1)
      BY <2>2, <3>1, <1>2, <1>3, TailProperties
    <3>3. Owned(heap', control_packets', ControlTypes)
      BY <3>1, <3>2, <1>2, <1>4, OwnedErase, SMTT(30)
    <3>4. /\ data_packets' = data_packets
          /\ \A b \in Addr : heap'[b].type \in {"PIECE"} <=> heap[b].type \in {"PIECE"}
      BY <2>2, <1>2, <1>3, <1>4
    <3>5. Owned(heap', data_packets', {"PIECE"})
      BY <3>4, <1>2, OwnedSame
    <3> QED
      BY <3>2, <3>3, <3>4, <3>5, <1>2
  <2> QED
    BY <2>1, <2>2
<1>6. FrontIsCurrent' /\ curr_packet' \in Addr \cup {Null}
  <2>1. PICK sent : curr_packet' = SelectedPacket(control_packets', data_packets', sent)
    BY <1>3
  <2> QED
    BY <2>1, <1>5, SelectedIsFront DEF FrontIsCurrent
<1>7. PartiallySentIsCurrent'
  BY <1>4 DEF LInv, PartiallySentIsCurrent
<1> QED
  BY <1>4, <1>5, <1>6, <1>7 DEF LInv, ListTypes

\* A packet the buffer cuts short stays where it is.
LEMMA PartStep ==
    ASSUME LInv, CInv, PutPartOfPacket
    PROVE  LInv'
<1> DEFINE p == curr_packet
<1>1. p \in Addr /\ heap[p].type # "FREE" /\ upload.room \in Nat
  BY DEF PutPartOfPacket, InLoop, LInv, CInv, ListTypes, FrontIsCurrent, ControlTypes
<1>2. heap[p] \in Packets /\ heap[p].written \in Nat
  BY <1>1, HeapTypes DEF LInv
<1>3. /\ heap' = [heap EXCEPT ![p].written = @ + upload.room]
      /\ UNCHANGED <<data_packets, control_packets, curr_packet>>
  BY DEF PutPartOfPacket
<1>4. /\ heap'[p] \in Packets /\ heap'[p].type = heap[p].type
      /\ \A b \in Addr \ {p} : heap'[b] = heap[b]
      /\ heap' \in [Addr -> Packets \cup {Free}]
  BY <1>1, <1>2, <1>3 DEF LInv, ListTypes, Packets
<1>5. /\ Owned(heap', data_packets', {"PIECE"}) /\ Owned(heap', control_packets', ControlTypes)
  <2>1. \A b \in Addr : heap'[b].type = heap[b].type
    BY <1>4
  <2>2. /\ data_packets \in Seq(Addr) /\ control_packets \in Seq(Addr)
        /\ Owned(heap, data_packets, {"PIECE"}) /\ Owned(heap, control_packets, ControlTypes)
    BY DEF LInv, ListTypes
  <2>3. Owned(heap', data_packets, {"PIECE"}) /\ Owned(heap', control_packets, ControlTypes)
    BY <2>1, <2>2, OwnedSame
  <2> QED
    BY <2>3, <1>3
<1>6. FrontIsCurrent' /\ PartiallySentIsCurrent'
  BY <1>1, <1>3, <1>4 DEF LInv, FrontIsCurrent, PartiallySentIsCurrent
<1> QED
  BY <1>3, <1>4, <1>5, <1>6 DEF LInv, ListTypes

\* clearPieces and doNotSendPiece erase a PIECE nobody has written a byte of; if it
\* was selected already, curr_packet is reset.
LEMMA EraseStep ==
    ASSUME LInv, NEW p \in Addr, NEW reject \in BOOLEAN,
           main.i \in 1..Len(data_packets), p = data_packets[main.i], ~sending(p),
           Erase(p, reject)
    PROVE  LInv'
<1>1. /\ data_packets \in Seq(Addr) /\ control_packets \in Seq(Addr)
      /\ Owned(heap, data_packets, {"PIECE"}) /\ Owned(heap, control_packets, ControlTypes)
      /\ "PIECE" \notin ControlTypes /\ "FREE" \notin ControlTypes /\ "REJECT" \in ControlTypes
  BY DEF LInv, ListTypes, ControlTypes
<1>2. /\ heap[p].type = "PIECE" /\ heap[p].req \in Requests \cup {NoRequest}
  <2>1. heap[p].type = "PIECE"
    BY <1>1 DEF Owned
  <2> QED
    BY <2>1, HeapTypes DEF LInv, Packets
<1>3. data_packets' \in Seq(Addr) /\ Without(data_packets', data_packets, main.i)
  BY <1>1, RemoveAtProperties DEF Erase
<1>4. PICK q \in Addr \cup {Null} :
        /\ q = Null \/ (heap[q] = Free /\ q # p)
        /\ heap' \in [Addr -> Packets \cup {Free}]
        /\ heap'[p] = Free /\ heap'[p].type = "FREE"
        /\ q # Null => heap'[q].type = "REJECT" /\ heap'[q].written = 0 /\ heap[q].type = "FREE"
        /\ \A b \in Addr \ {p, q} : heap'[b] = heap[b]
        /\ control_packets' = IF q = Null THEN control_packets ELSE Append(control_packets, q)
  <2>1. CASE ~reject
    <3>1. heap' = [heap EXCEPT ![p] = Free] /\ control_packets' = control_packets
      BY <2>1 DEF Erase
    <3> WITNESS Null \in Addr \cup {Null}
    <3> QED
      BY <3>1 DEF LInv, ListTypes, Free
  <2>2. CASE reject
    <3>1. PICK q \in Addr :
            /\ heap[q] = Free
            /\ heap' = [heap EXCEPT ![q] = PacketOf("REJECT", heap[p].req), ![p] = Free]
            /\ control_packets' = Append(control_packets, q)
      BY <2>2 DEF Erase
    <3>2. q # p /\ q # Null /\ heap[q].type = "FREE"
      BY <3>1, <1>2, NullAssumption DEF Free
    <3>3. PacketOf("REJECT", heap[p].req) \in Packets
      BY <1>2, <1>1 DEF PacketOf, Packets
    <3>4. heap'[q] = PacketOf("REJECT", heap[p].req) /\ heap'[p] = Free
          /\ (\A b \in Addr \ {p, q} : heap'[b] = heap[b])
          /\ heap' \in [Addr -> Packets \cup {Free}]
      BY <3>1, <3>2, <3>3 DEF LInv, ListTypes
    <3>5. heap'[q].type = "REJECT" /\ heap'[q].written = 0 /\ heap'[p].type = "FREE"
      BY <3>4 DEF PacketOf, Free
    <3> WITNESS q \in Addr \cup {Null}
    <3> QED
      BY <3>1, <3>2, <3>4, <3>5
  <2> QED
    BY <2>1, <2>2
<1>5. Owned(heap', data_packets', {"PIECE"})
  <2> DEFINE T == {"PIECE"}
  <2>1. \A b \in Addr \ {data_packets[main.i]} : heap'[b].type \in T <=> heap[b].type \in T
    BY <1>4, NullAssumption
  <2>2. heap'[data_packets[main.i]].type \notin T
    BY <1>4
  <2>3. Owned(heap, data_packets, T)
    BY <1>1
  <2> HIDE DEF T
  <2>4. Owned(heap', data_packets', T)
    BY <2>1, <2>2, <2>3, <1>1, <1>3, OwnedErase
  <2> QED
    BY <2>4 DEF T
<1>6. control_packets' \in Seq(Addr) /\ Owned(heap', control_packets', ControlTypes)
  <2>1. CASE q = Null
    BY <2>1, <1>1, <1>2, <1>4, NullAssumption, OwnedSame
  <2>2. CASE q # Null
    <3> DEFINE g == [heap EXCEPT ![p] = Free]
    <3>1. /\ \A b \in Addr \ {p} : g[b].type = heap[b].type
          /\ g[p].type = "FREE"
      BY DEF LInv, ListTypes, Free
    <3> HIDE DEF g
    <3>2. Owned(g, control_packets, ControlTypes)
      <4>1. \A b \in Addr : g[b].type \in ControlTypes <=> heap[b].type \in ControlTypes
        BY <3>1, <1>1, <1>2
      <4> QED
        BY <4>1, <1>1, OwnedSame
    <3>3. \A b \in Addr \ {q} : heap'[b].type = g[b].type
      BY <3>1, <1>4
    <3>4. g[q].type = "FREE"
      BY <2>2, <3>1, <1>4
    <3> QED
      BY <2>2, <3>2, <3>3, <3>4, <1>1, <1>4, OwnedAppend, AppendProperties
  <2> QED
    BY <2>1, <2>2
<1>7. curr_packet' = IF curr_packet = p THEN Null ELSE curr_packet
  BY DEF Erase
<1>8. FrontIsCurrent'
  <2> SUFFICES ASSUME curr_packet' # Null
               PROVE  \/ /\ heap'[curr_packet].type = "PIECE"
                         /\ Len(data_packets') > 0 /\ data_packets'[1] = curr_packet
                      \/ /\ heap'[curr_packet].type \in ControlTypes
                         /\ Len(control_packets') > 0 /\ control_packets'[1] = curr_packet
    BY <1>7 DEF FrontIsCurrent
  <2>1. curr_packet # p /\ curr_packet # Null /\ curr_packet \in Addr
    BY <1>7 DEF LInv, ListTypes
  <2>2. heap'[curr_packet] = heap[curr_packet]
    BY <2>1, <1>1, <1>4 DEF LInv, FrontIsCurrent
  <2>3. CASE heap[curr_packet].type = "PIECE"
    <3>1. Len(data_packets) > 0 /\ data_packets[1] = curr_packet
      BY <2>1, <2>3, <1>1 DEF LInv, FrontIsCurrent
    <3>2. main.i > 1 /\ main.i <= Len(data_packets) /\ Len(data_packets) \in Nat
      BY <2>1, <3>1, <1>1
    <3>3. Len(data_packets') > 0 /\ data_packets'[1] = data_packets[1]
      BY <3>2, <1>3 DEF Without
    <3> QED
      BY <2>2, <2>3, <3>1, <3>3
  <2>4. CASE heap[curr_packet].type # "PIECE"
    <3>1. /\ heap[curr_packet].type \in ControlTypes
          /\ Len(control_packets) > 0 /\ control_packets[1] = curr_packet
      BY <2>1, <2>4 DEF LInv, FrontIsCurrent
    <3>2. Len(control_packets') > 0 /\ control_packets'[1] = control_packets[1]
      BY <3>1, <1>1, <1>4, AppendProperties
    <3> QED
      BY <2>2, <3>1, <3>2
  <2> QED
    BY <2>3, <2>4
<1>9. PartiallySentIsCurrent'
  <2> SUFFICES ASSUME NEW a \in Addr, heap'[a] # Free, heap'[a].written > 0
               PROVE  curr_packet' = a
    BY DEF PartiallySentIsCurrent
  <2>1. a # p /\ a # q
    <3>1. q # Null => heap'[q].written = 0
      BY <1>4
    <3> QED
      BY <3>1, <1>4, NullAssumption
  <2>2. heap[a] # Free /\ heap[a].written > 0
    BY <2>1, <1>4
  <2> QED
    BY <2>1, <2>2, <1>7 DEF LInv, PartiallySentIsCurrent
<1> QED
  BY <1>3, <1>4, <1>5, <1>6, <1>7, <1>8, <1>9 DEF LInv, ListTypes

-----------------------------------------------------------------------------
(* All steps *)

ChokeTypes == {"CHOKE", "UNCHOKE"}

\* A step queues a packet and leaves curr_packet alone.
Queues ==
    /\ curr_packet' = curr_packet
    /\ \E a \in Addr, t \in {"PIECE"} \cup ControlTypes, r \in Requests \cup {NoRequest} :
          queuePacket(a, t, r) /\ (t \in ChokeTypes => choke \/ sendUnchoke)

\* A step of clearPieces or doNotSendPiece erases a packet.
Erases ==
    /\ main.i \in 1..Len(data_packets)
    /\ ~sending(data_packets[main.i])
    /\ Erase(data_packets[main.i], FastExtensions)
    /\ bypassed' = IF data_packets' = data_packets THEN bypassed ELSE 0
    /\ ctrl_packets_sent' = ctrl_packets_sent

LeavesPackets == UNCHANGED <<heap, control_packets, data_packets, curr_packet>>
LeavesCounts == UNCHANGED <<ctrl_packets_sent, bypassed>>

\* What the steps of the main thread do to the packets.
LEMMA MainSteps ==
    ASSUME LInv, CInv, Main
    PROVE  (Queues /\ LeavesCounts) \/ Erases \/ (LeavesPackets /\ LeavesCounts)
<1>1. ASSUME NEW r \in Requests, OnRequest(r) \/ OnCancel(r)
      PROVE  LeavesPackets /\ LeavesCounts
  BY <1>1 DEF OnRequest, OnCancel, LeavesPackets, LeavesCounts, writer
<1>2. ASSUME NEW r \in Requests, OnRequestWhileChoked(r)
      PROVE  Queues /\ LeavesCounts
  BY <1>2 DEF OnRequestWhileChoked, Queues, LeavesCounts, MainLeaves, ControlTypes, ChokeTypes
<1>3. CASE SendOther \/ sendUnchoke \/ choke
  BY <1>3 DEF SendOther, sendUnchoke, choke, Queues, LeavesCounts, MainLeaves, ControlTypes,
              ChokeTypes
<1>4. CASE EnterClearPieces \/ EnterDoNotSendPiece
  BY <1>4 DEF EnterClearPieces, EnterDoNotSendPiece, LeavesPackets, LeavesCounts, MainLeaves
<1>5. CASE ClearRequests \/ removeRequest \/ EnterUpdate \/ LeaveUpdate
  BY <1>5 DEF ClearRequests, removeRequest, EnterUpdate, LeaveUpdate, LeavesPackets, LeavesCounts,
              writer
<1>6. CASE RejectRequest
  <2>1. requests[main.i] \in Requests
    BY <1>6, ElementOfSeq DEF RejectRequest, CInv
  <2> QED
    BY <1>6, <2>1 DEF RejectRequest, Queues, LeavesCounts, MainLeaves, ControlTypes, ChokeTypes
<1>7. CASE Satisfy
  <2>1. Head(requests) \in Requests
    BY <1>7, HeadTailProperties DEF Satisfy, CInv
  <2> QED
    BY <1>7, <2>1 DEF Satisfy, Queues, LeavesCounts, MainLeaves, ChokeTypes
<1>8. CASE Refuse
  <2>1. Head(requests) \in Requests
    BY <1>8, HeadTailProperties DEF Refuse, CInv
  <2>2. CASE FastExtensions
    BY <1>8, <2>1, <2>2 DEF Refuse, Queues, LeavesCounts, MainLeaves, ControlTypes, ChokeTypes
  <2>3. CASE ~FastExtensions
    BY <1>8, <2>3 DEF Refuse, LeavesPackets, LeavesCounts, MainLeaves
  <2> QED
    BY <2>2, <2>3
<1>9. CASE clearPieces
  <2>1. CASE EraseLoop("clearing", {p \in Addr : heap[p].type = "PIECE"}, FastExtensions)
    <3>1. main.i \in 1..Len(data_packets)
      BY <2>1 DEF EraseLoop, CInv, LInv, ListTypes
    <3> QED
      BY <2>1, <3>1 DEF EraseLoop, Erases, LeavesPackets, LeavesCounts
  <2>2. CASE ~EraseLoop("clearing", {p \in Addr : heap[p].type = "PIECE"}, FastExtensions)
    BY <1>9, <2>2 DEF clearPieces, LeavesPackets, LeavesCounts, MainLeaves
  <2> QED
    BY <2>1, <2>2
<1>10. CASE doNotSendPiece
  <2>1. CASE EraseLoop("cancelling", {p \in Addr : isPiece(p, main.req)}, FastExtensions)
    <3>1. main.i \in 1..Len(data_packets)
      BY <2>1 DEF EraseLoop, CInv, LInv, ListTypes
    <3> QED
      BY <2>1, <3>1 DEF EraseLoop, Erases, LeavesPackets, LeavesCounts
  <2>2. CASE ~EraseLoop("cancelling", {p \in Addr : isPiece(p, main.req)}, FastExtensions)
    BY <1>10, <2>2 DEF doNotSendPiece, LeavesPackets, LeavesCounts, MainLeaves
  <2> QED
    BY <2>1, <2>2
<1> QED
  BY <1>1, <1>2, <1>3, <1>4, <1>5, <1>6, <1>7, <1>8, <1>9, <1>10 DEF Main

\* Every step keeps the lists and curr_packet right.
LEMMA LInvStep ==
    ASSUME LInv, CInv, [Next]_vars
    PROVE  LInv'
<1>1. CASE Queues
  BY <1>1, QueueStep DEF Queues
<1>2. CASE Erases
  <2>1. data_packets[main.i] \in Addr
    BY <1>2, ElementOfSeq DEF Erases, LInv, ListTypes
  <2> QED
    BY <1>2, <2>1, EraseStep, PeerAssumption DEF Erases
<1>3. CASE LeavesPackets
  BY <1>3 DEF LeavesPackets, LInv, ListTypes, Owned, FrontIsCurrent, PartiallySentIsCurrent
<1>4. CASE Upload
  <2>1. CASE LeaveOnReadyToWrite
    BY <2>1, <1>3 DEF LeaveOnReadyToWrite, LeavesPackets, writer
  <2> QED
    BY <1>4, <2>1, EnterStep, FinishStep, PartStep DEF Upload
<1>5. CASE Main
  BY <1>1, <1>2, <1>3, <1>5, MainSteps
<1>6. CASE UNCHANGED vars
  BY <1>3, <1>6 DEF vars, writer, LeavesPackets
<1> QED
  BY <1>4, <1>5, <1>6 DEF Next

\* The steps of the main thread keep the types of everything but the packets.
LEMMA CInvMain ==
    ASSUME CInv, Main
    PROVE  CInv'
<1> USE DEF CInv, MainPCs, MainLeaves, writer, Idle, At
<1>1. ASSUME NEW r \in Requests, OnRequest(r)
      PROVE  CInv'
  BY <1>1, AppendProperties DEF OnRequest
<1>2. ASSUME NEW r \in Requests, OnRequestWhileChoked(r) \/ OnCancel(r)
      PROVE  CInv'
  BY <1>2 DEF OnRequestWhileChoked, OnCancel
<1>3. CASE SendOther
  BY <1>3 DEF SendOther
<1>4. CASE sendUnchoke
  BY <1>4 DEF sendUnchoke
<1>5. CASE choke
  BY <1>5 DEF choke
<1>6. CASE EnterClearPieces \/ EnterDoNotSendPiece
  BY <1>6 DEF EnterClearPieces, EnterDoNotSendPiece
<1>7. CASE clearPieces
  BY <1>7 DEF clearPieces, EraseLoop, EraseDone, Erase
<1>8. CASE doNotSendPiece
  BY <1>8 DEF doNotSendPiece, EraseLoop, EraseDone, Erase
<1>9. CASE RejectRequest
  BY <1>9 DEF RejectRequest
<1>10. CASE ClearRequests
  BY <1>10 DEF ClearRequests
<1>11. CASE removeRequest
  <2>1. main.i <= Len(requests) => RemoveAt(requests, main.i) \in Seq(Requests)
    BY <1>11, RemoveAtProperties DEF removeRequest
  <2> QED
    BY <1>11, <2>1 DEF removeRequest
<1>12. CASE EnterUpdate \/ LeaveUpdate
  BY <1>12 DEF EnterUpdate, LeaveUpdate
<1>13. CASE Satisfy \/ Refuse
  <2>1. requests # <<>> /\ requests' = Tail(requests) /\ requests \in Seq(Requests)
    BY <1>13 DEF Satisfy, Refuse
  <2>2. requests' \in Seq(Requests)
    BY <2>1, HeadTailProperties
  <2>3. UNCHANGED <<ctrl_packets_sent, am_choked, told_choked, mutex, main, upload>>
    BY <1>13 DEF Satisfy, Refuse
  <2> QED
    BY <2>2, <2>3
<1> QED
  BY <1>1, <1>2, <1>3, <1>4, <1>5, <1>6, <1>7, <1>8, <1>9, <1>10, <1>11, <1>12, <1>13 DEF Main

\* So do the steps of the upload thread.
LEMMA CInvUpload ==
    ASSUME LInv, CInv, Upload
    PROVE  CInv'
<1> USE DEF CInv
<1>1. CASE EnterOnReadyToWrite
  BY <1>1, SizesAssumption DEF EnterOnReadyToWrite, selectPacket, SelectedCount
<1>2. CASE FinishPacket
  <2>1. curr_packet \in Addr /\ heap[curr_packet].type # "FREE"
    BY <1>2 DEF FinishPacket, InLoop, LInv, ListTypes, FrontIsCurrent, ControlTypes
  <2>2. heap[curr_packet].written \in Nat
    BY <2>1, HeapTypes DEF LInv
  <2>3. upload' = [upload EXCEPT !.room = @ - Remaining] /\ Remaining <= upload.room
    BY <1>2 DEF FinishPacket
  <2>4. Remaining \in Int
    BY <2>2, SizesAssumption DEF Remaining, Size
  <2>5. upload' \in [pc : {"idle", "loop"}, room : Nat]
    BY <2>3, <2>4
  <2>6. ctrl_packets_sent' \in 0..3
    BY <1>2 DEF FinishPacket, selectPacket, SelectedCount
  <2>7. told_choked' \in BOOLEAN
    BY <1>2 DEF FinishPacket
  <2>8. UNCHANGED <<requests, am_choked, mutex, main>>
    BY <1>2 DEF FinishPacket
  <2> QED
    BY <2>5, <2>6, <2>7, <2>8
<1>3. CASE PutPartOfPacket
  BY <1>3 DEF PutPartOfPacket
<1>4. CASE LeaveOnReadyToWrite
  BY <1>4 DEF LeaveOnReadyToWrite, writer
<1> QED
  BY <1>1, <1>2, <1>3, <1>4 DEF Upload

-----------------------------------------------------------------------------
(* Overtaking *)

CurrIsPiece == curr_packet # Null /\ heap[curr_packet].type = "PIECE"

\* Control packets that overtook a PIECE are counted by ctrl_packets_sent until a
\* PIECE is selected; a control packet is selected over a PIECE only below three, and
\* one selected while no PIECE waited overtakes at most once more.
BInv ==
    /\ bypassed \in Nat /\ bypassed <= 3
    /\ data_packets = <<>> => bypassed = 0
    /\ CurrIsPiece \/ bypassed <= ctrl_packets_sent
    /\ curr_packet # Null /\ ~CurrIsPiece => bypassed <= 2

LEMMA BInvEnter ==
    ASSUME LInv, CInv, BInv, EnterOnReadyToWrite
    PROVE  BInv'
<1>1. CASE curr_packet # Null
  BY <1>1 DEF EnterOnReadyToWrite, BInv, CurrIsPiece
<1>2. CASE curr_packet = Null
  <2>1. /\ curr_packet' = SelectedPacket(control_packets, data_packets, ctrl_packets_sent)
        /\ ctrl_packets_sent' = SelectedCount(data_packets, ctrl_packets_sent)
        /\ UNCHANGED <<heap, control_packets, data_packets, bypassed>>
    BY <1>2 DEF EnterOnReadyToWrite, selectPacket
  <2>2. /\ bypassed \in Nat /\ bypassed <= ctrl_packets_sent /\ ctrl_packets_sent \in 0..3
        /\ data_packets = <<>> => bypassed = 0
    BY <1>2 DEF BInv, CInv, CurrIsPiece
  <2>3. \/ curr_packet' = Null /\ data_packets = <<>>
        \/ curr_packet' \in Addr /\ heap[curr_packet'].type = "PIECE"
        \/ curr_packet' \in Addr /\ (data_packets = <<>> \/ PrefersControl(ctrl_packets_sent))
    BY <2>1, SelectedIsFront DEF LInv, ListTypes
  <2>4. CASE curr_packet' \in Addr /\ heap[curr_packet'].type = "PIECE"
    BY <2>1, <2>2, <2>4, NullAssumption DEF BInv, CurrIsPiece
  <2>5. CASE data_packets = <<>>
    BY <2>1, <2>2, <2>5 DEF BInv, CurrIsPiece, SelectedCount
  <2>6. CASE PrefersControl(ctrl_packets_sent)
    BY <2>1, <2>2, <2>6 DEF BInv, CurrIsPiece, SelectedCount, PrefersControl
  <2> QED
    BY <2>3, <2>4, <2>5, <2>6
<1> QED
  BY <1>1, <1>2

LEMMA BInvFinish ==
    ASSUME LInv, CInv, BInv, FinishPacket, LInv'
    PROVE  BInv'
<1>1. CASE heap[curr_packet].type = "PIECE" \/ data_packets = <<>>
  <2>1. bypassed' = 0
    BY <1>1 DEF FinishPacket
  <2>2. ctrl_packets_sent' \in 0..3
    BY CInvUpload DEF Upload, CInv
  <2> QED
    BY <2>1, <2>2 DEF BInv
<1>2. CASE heap[curr_packet].type # "PIECE" /\ data_packets # <<>>
  <2> DEFINE sent == IF ctrl_packets_sent < 3 THEN ctrl_packets_sent + 1 ELSE 3
  <2>1. /\ curr_packet # Null
        /\ data_packets' = data_packets
        /\ curr_packet' = SelectedPacket(control_packets', data_packets', sent)
        /\ ctrl_packets_sent' = SelectedCount(data_packets', sent)
        /\ bypassed' = bypassed + 1
    BY <1>2 DEF FinishPacket, selectPacket, InLoop
  <2>2. bypassed \in Nat /\ bypassed <= 2 /\ bypassed <= ctrl_packets_sent
        /\ ctrl_packets_sent \in 0..3
    BY <1>2, <2>1 DEF BInv, CInv, CurrIsPiece
  <2>3. bypassed' \in Nat /\ bypassed' <= 3 /\ bypassed' <= sent /\ sent \in Nat
    BY <2>1, <2>2
  <2> HIDE DEF sent
  <2>4. \/ curr_packet' \in Addr /\ heap'[curr_packet'].type = "PIECE"
        \/ PrefersControl(sent)
    <3>1. /\ Owned(heap', data_packets', {"PIECE"}) /\ Owned(heap', control_packets', ControlTypes)
          /\ data_packets' \in Seq(Addr) /\ control_packets' \in Seq(Addr)
      BY DEF LInv, ListTypes
    <3> QED
      BY <3>1, <1>2, <2>1, SelectedIsFront
  <2>5. CASE curr_packet' \in Addr /\ heap'[curr_packet'].type = "PIECE"
    BY <1>2, <2>1, <2>3, <2>5, NullAssumption DEF BInv, CurrIsPiece
  <2>6. CASE PrefersControl(sent)
    BY <1>2, <2>1, <2>3, <2>6 DEF BInv, CurrIsPiece, SelectedCount, PrefersControl
  <2> QED
    BY <2>4, <2>5, <2>6
<1> QED
  BY <1>1, <1>2

\* A step that leaves curr_packet and the counts alone, and appends at most.
LEMMA BInvSame ==
    ASSUME BInv, LeavesCounts, curr_packet' = curr_packet,
           data_packets' = <<>> => data_packets = <<>>,
           curr_packet # Null => heap'[curr_packet].type = heap[curr_packet].type
    PROVE  BInv'
BY DEF BInv, CurrIsPiece, LeavesCounts

LEMMA BInvStep ==
    ASSUME LInv, CInv, BInv, [Next]_vars
    PROVE  BInv'
<1>1. CASE Queues /\ LeavesCounts
  <2>1. PICK a \in Addr, t \in {"PIECE"} \cup ControlTypes, r \in Requests \cup {NoRequest} :
          queuePacket(a, t, r)
    BY <1>1 DEF Queues
  <2>2. data_packets' = <<>> => data_packets = <<>>
    BY <2>1, AppendProperties DEF queuePacket, LInv, ListTypes
  <2>3. curr_packet # Null => heap'[curr_packet].type = heap[curr_packet].type
    <3>1. curr_packet # Null => curr_packet \in Addr /\ heap[curr_packet].type # "FREE"
      BY DEF LInv, ListTypes, FrontIsCurrent, ControlTypes
    <3>2. heap[a].type = "FREE"
      BY <2>1 DEF queuePacket, Free
    <3> QED
      BY <2>1, <3>1, <3>2 DEF queuePacket, LInv, ListTypes
  <2> QED
    BY <1>1, <2>2, <2>3, BInvSame DEF Queues
<1>2. CASE Erases
  <2>1. data_packets \in Seq(Addr) /\ main.i \in 1..Len(data_packets)
    BY <1>2 DEF Erases, LInv, ListTypes
  <2>2. Len(data_packets') = Len(data_packets) - 1 /\ Len(data_packets) \in Nat
    BY <1>2, <2>1, RemoveAtProperties DEF Erases, Erase, Without
  <2>3. bypassed' = 0 /\ ctrl_packets_sent' \in 0..3
    BY <1>2, <2>2 DEF Erases, CInv
  <2> QED
    BY <2>3 DEF BInv
<1>3. CASE LeavesPackets /\ LeavesCounts
  BY <1>3, BInvSame DEF LeavesPackets
<1>4. CASE PutPartOfPacket
  <2>1. curr_packet \in Addr
    BY <1>4 DEF PutPartOfPacket, InLoop, LInv, ListTypes
  <2>2. heap'[curr_packet].type = heap[curr_packet].type
    BY <1>4, <2>1 DEF PutPartOfPacket, LInv, ListTypes
  <2> QED
    BY <1>4, <2>2, BInvSame DEF PutPartOfPacket, LeavesCounts
<1>5. CASE LeaveOnReadyToWrite
  BY <1>3, <1>5 DEF LeaveOnReadyToWrite, writer, LeavesPackets, LeavesCounts
<1>6. CASE Upload
  BY <1>4, <1>5, <1>6, BInvEnter, BInvFinish, LInvStep DEF Upload, Next
<1>7. CASE Main
  BY <1>1, <1>2, <1>3, <1>7, MainSteps
<1>8. CASE UNCHANGED vars
  BY <1>3, <1>8 DEF vars, writer, LeavesPackets, LeavesCounts
<1> QED
  BY <1>6, <1>7, <1>8 DEF Next

-----------------------------------------------------------------------------
(* Choking *)

\* Who holds the mutex
HInv ==
    /\ mutex = "upload" <=> upload.pc = "loop"
    /\ mutex = "main" <=> main.pc \in {"clearing", "cancelling"}

Clearing == {"clear_pieces", "clearing"}
Choking == Clearing \cup {"reject_requests"}

\* A part of the k-th PIECE is out
Sent(k) == heap[data_packets[k]].written > 0

\* How far Peer::choke has got
KInv ==
    /\ main.pc \in Choking => am_choked
    /\ main.pc = "update" => ~am_choked
    /\ am_choked => requests = <<>> \/ main.pc \in Choking
    /\ am_choked => main.pc \in Clearing \/ \A k \in 1..Len(data_packets) : Sent(k)
    /\ main.pc = "clearing" => \A k \in 1..Len(data_packets) : k < main.i => Sent(k)

LEMMA HInvStep ==
    ASSUME CInv, HInv, [Next]_vars
    PROVE  HInv'
<1> USE DEF CInv, HInv, MainLeaves, writer, Idle, At, Ready
<1>1. CASE \E r \in Requests : OnRequest(r) \/ OnRequestWhileChoked(r) \/ OnCancel(r)
  BY <1>1 DEF OnRequest, OnRequestWhileChoked, OnCancel
<1>2. CASE SendOther \/ sendUnchoke \/ choke
  BY <1>2 DEF SendOther, sendUnchoke, choke
<1>3. CASE EnterClearPieces \/ EnterDoNotSendPiece
  BY <1>3 DEF EnterClearPieces, EnterDoNotSendPiece
<1>4. CASE clearPieces \/ doNotSendPiece
  BY <1>4 DEF clearPieces, doNotSendPiece, EraseLoop, EraseDone
<1>5. CASE RejectRequest \/ ClearRequests
  BY <1>5 DEF RejectRequest, ClearRequests
<1>6. CASE removeRequest
  BY <1>6 DEF removeRequest
<1>7. CASE EnterUpdate \/ Satisfy \/ Refuse \/ LeaveUpdate
  BY <1>7 DEF EnterUpdate, Satisfy, Refuse, LeaveUpdate
<1>8. CASE EnterOnReadyToWrite
  BY <1>8 DEF EnterOnReadyToWrite
<1>9. CASE FinishPacket
  BY <1>9 DEF FinishPacket
<1>10. CASE PutPartOfPacket \/ LeaveOnReadyToWrite
  BY <1>10 DEF PutPartOfPacket, LeaveOnReadyToWrite, InLoop
<1>11. CASE UNCHANGED vars
  BY <1>11 DEF vars
<1> QED
  BY <1>1, <1>2, <1>3, <1>4, <1>5, <1>6, <1>7, <1>8, <1>9, <1>10, <1>11 DEF Next, Main, Upload

\* What a list holds is what it held, for the elements it keeps.
LEMMA ListElements ==
    ASSUME LInv
    PROVE  /\ Len(data_packets) \in Nat /\ Len(control_packets) \in Nat
           /\ \A k \in 1..Len(data_packets) :
                 data_packets[k] \in Addr /\ heap[data_packets[k]].type = "PIECE"
           /\ \A k \in 1..Len(control_packets) :
                 control_packets[k] \in Addr /\ heap[control_packets[k]].type \in ControlTypes
BY ElementOfSeq DEF LInv, ListTypes, Owned

LEMMA QueueEffect ==
    ASSUME LInv, NEW a \in Addr, NEW t \in {"PIECE"} \cup ControlTypes,
           NEW r \in Requests \cup {NoRequest}, queuePacket(a, t, r)
    PROVE  /\ \A k \in 1..Len(data_packets) : heap'[data_packets[k]] = heap[data_packets[k]]
           /\ \A k \in 1..Len(control_packets) : heap'[control_packets[k]] = heap[control_packets[k]]
           /\ heap'[a].type = t
           /\ t # "PIECE" => /\ data_packets' = data_packets
                             /\ control_packets' = Append(control_packets, a)
           /\ t = "PIECE" => control_packets' = control_packets
<1>1. /\ heap[a].type = "FREE" /\ heap'[a].type = t
      /\ \A b \in Addr \ {a} : heap'[b] = heap[b]
  BY HeapTypes DEF LInv, ListTypes, queuePacket, PacketOf, Free
<1>2. "FREE" \notin ControlTypes
  BY DEF ControlTypes
<1> QED
  BY <1>1, <1>2, ListElements DEF queuePacket

\* The PIECEs stay as they are, and so does what is known of them.
LEMMA KInvSame ==
    ASSUME LInv, KInv, data_packets' = data_packets,
           \A k \in 1..Len(data_packets) : heap'[data_packets[k]] = heap[data_packets[k]],
           am_choked' = am_choked,
           main'.pc \in Choking => main.pc \in Choking,
           main'.pc = "update" => ~am_choked,
           am_choked => requests' = <<>> \/ main'.pc \in Choking,
           main'.pc \in Clearing <=> main.pc \in Clearing,
           main'.pc = "clearing" =>
              \A k \in 1..Len(data_packets) : k < main'.i => Sent(k)
    PROVE  KInv'
BY DEF KInv, Sent

\* An erased PIECE is one of which nothing is out; the others stay.
LEMMA EraseEffect ==
    ASSUME LInv, Erases
    PROVE  /\ ~Sent(main.i)
           /\ Len(data_packets') = Len(data_packets) - 1
           /\ \A k \in 1..Len(data_packets') :
                 data_packets'[k] = IF k < main.i THEN data_packets[k] ELSE data_packets[k + 1]
           /\ \A k \in 1..Len(data_packets) :
                 k # main.i => heap'[data_packets[k]] = heap[data_packets[k]]
           /\ \A k \in 1..Len(control_packets) :
                 heap'[control_packets[k]] = heap[control_packets[k]]
           /\ \/ control_packets' = control_packets
              \/ \E a \in Addr : /\ control_packets' = Append(control_packets, a)
                                 /\ heap'[a].type = "REJECT"
<1> DEFINE p == data_packets[main.i]
<1>1. /\ main.i \in 1..Len(data_packets) /\ ~sending(p) /\ Erase(p, FastExtensions)
      /\ data_packets \in Seq(Addr) /\ heap \in [Addr -> Packets \cup {Free}]
  BY DEF Erases, LInv, ListTypes
<1>2. p \in Addr /\ heap[p].type = "PIECE"
  BY <1>1, ListElements
<1>3. Without(data_packets', data_packets, main.i)
  BY <1>1, RemoveAtProperties DEF Erase
<1>4. \A k \in 1..Len(data_packets) : k # main.i => data_packets[k] # p
  BY <1>1 DEF LInv, Owned
<1>5. \A k \in 1..Len(control_packets) : control_packets[k] # p
  BY <1>2, ListElements DEF ControlTypes
<1> HIDE DEF p
<1>6. CASE ~FastExtensions
  <2>1. heap' = [heap EXCEPT ![p] = Free] /\ control_packets' = control_packets
    BY <1>1, <1>6 DEF Erase
  <2>2. \A b \in Addr \ {p} : heap'[b] = heap[b]
    BY <1>1, <2>1
  <2>3. Len(data_packets') = Len(data_packets) - 1
        /\ \A k \in 1..Len(data_packets') :
                 data_packets'[k] = IF k < main.i THEN data_packets[k] ELSE data_packets[k + 1]
    BY <1>3, ListElements, SMTT(30) DEF Without
  <2> QED
    BY <1>1, <1>4, <1>5, <2>1, <2>2, <2>3, ListElements DEF sending, Sent, p
<1>7. CASE FastExtensions
  <2>1. PICK a \in Addr :
          /\ heap[a] = Free
          /\ heap' = [heap EXCEPT ![a] = PacketOf("REJECT", heap[p].req), ![p] = Free]
          /\ control_packets' = Append(control_packets, a)
    BY <1>1, <1>7 DEF Erase
  <2>2. a # p /\ heap[a].type = "FREE"
    BY <1>2, <2>1 DEF Free
  <2>3. /\ \A b \in Addr \ {p, a} : heap'[b] = heap[b]
        /\ heap'[a].type = "REJECT"
    BY <1>1, <2>1, <2>2 DEF PacketOf
  <2>4. /\ \A k \in 1..Len(data_packets) : data_packets[k] # a
        /\ \A k \in 1..Len(control_packets) : control_packets[k] # a
    BY <2>2, ListElements DEF ControlTypes
  <2>5. Len(data_packets') = Len(data_packets) - 1
        /\ \A k \in 1..Len(data_packets') :
                 data_packets'[k] = IF k < main.i THEN data_packets[k] ELSE data_packets[k + 1]
    BY <1>3, ListElements DEF Without
  <2> QED
    BY <1>1, <1>4, <1>5, <2>1, <2>3, <2>4, <2>5, ListElements DEF sending, Sent, p
<1> QED
  BY <1>6, <1>7

LEMMA KInvMain ==
    ASSUME LInv, CInv, KInv, Main
    PROVE  KInv'
<1> USE DEF MainLeaves, writer, Idle, At, Choking, Clearing
<1>1. ASSUME NEW r \in Requests, OnRequest(r)
      PROVE  KInv'
  BY <1>1 DEF OnRequest, Ready, KInv
<1>2. ASSUME NEW r \in Requests, OnCancel(r)
      PROVE  KInv'
  BY <1>2, KInvSame DEF OnCancel, KInv
<1>3. ASSUME NEW r \in Requests, OnRequestWhileChoked(r)
      PROVE  KInv'
  <2>1. PICK a \in Addr : queuePacket(a, "REJECT", r)
    BY <1>3 DEF OnRequestWhileChoked
  <2>2. /\ data_packets' = data_packets
        /\ \A k \in 1..Len(data_packets) : heap'[data_packets[k]] = heap[data_packets[k]]
    BY <2>1, QueueEffect DEF ControlTypes
  <2> QED
    BY <1>3, <2>2, KInvSame DEF OnRequestWhileChoked, Ready, KInv
<1>4. CASE SendOther
  <2>1. PICK a \in Addr : queuePacket(a, "OTHER", NoRequest)
    BY <1>4 DEF SendOther
  <2>2. /\ data_packets' = data_packets
        /\ \A k \in 1..Len(data_packets) : heap'[data_packets[k]] = heap[data_packets[k]]
    BY <2>1, QueueEffect DEF ControlTypes
  <2> QED
    BY <1>4, <2>2, KInvSame DEF SendOther, Ready, KInv
<1>5. CASE sendUnchoke
  BY <1>5 DEF sendUnchoke, Ready, KInv
<1>6. CASE choke
  BY <1>6 DEF choke, Ready, KInv
<1>7. CASE EnterClearPieces
  BY <1>7, KInvSame, ListElements DEF EnterClearPieces, KInv
<1>8. CASE EraseLoop("clearing", {p \in Addr : heap[p].type = "PIECE"}, FastExtensions)
  <2>1. main.pc = "clearing" /\ main.i \in 1..Len(data_packets) /\ am_choked
        /\ am_choked' = am_choked
    BY <1>8, ListElements DEF EraseLoop, CInv, KInv
  <2>2. CASE ~sending(data_packets[main.i])
    <3>1. Erases /\ main' = main
      BY <1>8, <2>1, <2>2, ListElements DEF EraseLoop, Erases
    <3>2. \A k \in 1..Len(data_packets') : k < main.i => Sent(k)'
      BY <2>1, <3>1, EraseEffect, ListElements DEF KInv, Sent
    <3> QED
      BY <2>1, <3>1, <3>2 DEF KInv
  <2>3. CASE sending(data_packets[main.i])
    <3>1. /\ UNCHANGED <<heap, data_packets>> /\ Sent(main.i)
          /\ main' = [main EXCEPT !.i = main.i + 1]
      BY <1>8, <2>3 DEF EraseLoop, sending, Sent
    <3>2. main'.pc = main.pc /\ main'.i = main.i + 1
      BY <3>1 DEF CInv
    <3>3. \A k \in 1..Len(data_packets) : k < main.i + 1 => Sent(k)
      BY <2>1, <3>1, ListElements DEF KInv
    <3> QED
      BY <2>1, <3>1, <3>2, <3>3 DEF KInv, Sent
  <2> QED
    BY <2>2, <2>3
<1>9. CASE clearPieces /\ EraseDone("clearing")
  <2>1. /\ main.pc = "clearing" /\ main.i > Len(data_packets)
        /\ ~EraseLoop("clearing", {p \in Addr : heap[p].type = "PIECE"}, FastExtensions)
    BY <1>9, ListElements DEF EraseDone, EraseLoop, CInv
  <2>2. /\ main'.pc = "reject_requests"
        /\ UNCHANGED <<heap, data_packets, am_choked>>
    BY <1>9, <2>1 DEF clearPieces
  <2>3. \A k \in 1..Len(data_packets) : Sent(k)
    BY <2>1, ListElements DEF KInv, CInv
  <2> QED
    BY <2>1, <2>2, <2>3 DEF KInv, Sent
<1>10. CASE RejectRequest
  <2>1. requests[main.i] \in Requests
    BY <1>10, ElementOfSeq DEF RejectRequest, CInv
  <2>2. PICK a \in Addr : queuePacket(a, "REJECT", requests[main.i])
    BY <1>10 DEF RejectRequest
  <2>3. /\ data_packets' = data_packets
        /\ \A k \in 1..Len(data_packets) : heap'[data_packets[k]] = heap[data_packets[k]]
    BY <2>1, <2>2, QueueEffect DEF ControlTypes
  <2>4. main.pc = "reject_requests" /\ main'.pc = "reject_requests" /\ am_choked' = am_choked
    BY <1>10 DEF RejectRequest, CInv
  <2> QED
    BY <2>3, <2>4, KInvSame DEF KInv
<1>11. CASE ClearRequests
  BY <1>11, KInvSame DEF ClearRequests, KInv
<1>12. CASE removeRequest
  <2>1. /\ main.pc = "remove_request" /\ UNCHANGED <<heap, data_packets, am_choked>>
        /\ main'.pc \in {"remove_request", "do_not_send"}
    BY <1>12 DEF removeRequest, CInv
  <2>2. am_choked => requests' = <<>>
    <3>1. am_choked => requests = <<>> /\ main.i > 0
      BY <2>1 DEF KInv, CInv
    <3>2. am_choked => ~(main.i <= Len(requests))
      BY <3>1 DEF CInv
    <3> QED
      BY <1>12, <3>1, <3>2 DEF removeRequest
  <2> QED
    BY <2>1, <2>2, KInvSame
<1>13. CASE EnterDoNotSendPiece
  BY <1>13, KInvSame DEF EnterDoNotSendPiece, KInv
<1>14. CASE doNotSendPiece
  <2>1. main.pc = "cancelling" /\ am_choked' = am_choked /\ requests' = requests
        /\ main'.pc \in {"cancelling", "idle"}
    BY <1>14 DEF doNotSendPiece, EraseLoop, EraseDone, CInv
  <2>2. CASE ~am_choked
    BY <2>1, <2>2 DEF KInv
  <2>3. CASE am_choked
    <3>1. UNCHANGED <<heap, data_packets>>
      <4>1. CASE EraseLoop("cancelling", {p \in Addr : isPiece(p, main.req)}, FastExtensions)
        <5>1. main.i \in 1..Len(data_packets)
          BY <4>1, ListElements DEF EraseLoop, CInv
        <5>2. sending(data_packets[main.i])
          BY <2>1, <2>3, <5>1 DEF KInv, Sent, sending
        <5> QED
          BY <4>1, <5>2 DEF EraseLoop
      <4> QED
        BY <1>14, <4>1 DEF doNotSendPiece
    <3> QED
      BY <2>1, <3>1, KInvSame DEF KInv
  <2> QED
    BY <2>2, <2>3
<1>15. CASE EnterUpdate \/ Satisfy \/ Refuse \/ LeaveUpdate
  <2>1. ~am_choked /\ am_choked' = am_choked /\ main'.pc \in {"idle", "update"}
    BY <1>15 DEF EnterUpdate, Satisfy, Refuse, LeaveUpdate, KInv
  <2> QED
    BY <2>1 DEF KInv
<1>16. clearPieces =>
          \/ EraseLoop("clearing", {p \in Addr : heap[p].type = "PIECE"}, FastExtensions)
          \/ EraseDone("clearing")
  BY DEF clearPieces
<1> QED
  BY <1>1, <1>2, <1>3, <1>4, <1>5, <1>6, <1>7, <1>8, <1>9, <1>10, <1>11, <1>12, <1>13, <1>14,
     <1>15, <1>16 DEF Main

\* While a handler clears the PIECEs the upload thread is not in the lists.
LEMMA KInvUpload ==
    ASSUME LInv, CInv, HInv, KInv, Upload
    PROVE  KInv'
<1>1. UNCHANGED <<requests, am_choked, main>>
  BY DEF Upload, EnterOnReadyToWrite, FinishPacket, PutPartOfPacket, LeaveOnReadyToWrite
<1>2. CASE EnterOnReadyToWrite \/ LeaveOnReadyToWrite
  <2>1. UNCHANGED <<heap, data_packets>>
    BY <1>2 DEF EnterOnReadyToWrite, LeaveOnReadyToWrite, writer
  <2> QED
    BY <1>1, <2>1 DEF KInv, Sent
<1>3. ASSUME FinishPacket \/ PutPartOfPacket
      PROVE  main.pc # "clearing" /\ curr_packet \in Addr
  BY <1>3, NullAssumption DEF FinishPacket, PutPartOfPacket, InLoop, HInv, LInv, ListTypes
<1>4. CASE PutPartOfPacket
  <2>1. /\ data_packets' = data_packets /\ upload.room \in Nat
        /\ heap' = [heap EXCEPT ![curr_packet].written = @ + upload.room]
    BY <1>4 DEF PutPartOfPacket, CInv
  <2>2. ASSUME NEW k \in 1..Len(data_packets), Sent(k)
        PROVE  heap'[data_packets[k]].written > 0
    <3>1. /\ data_packets[k] \in Addr
          /\ heap[data_packets[k]] \in Packets /\ heap[data_packets[k]].written \in Nat
      BY ListElements, HeapTypes DEF LInv, Free
    <3>2. CASE data_packets[k] = curr_packet
      <4> DEFINE q == heap[curr_packet]
                 n == q.written + upload.room
      <4>1. heap'[curr_packet] = [q EXCEPT !.written = n]
        BY <1>3, <1>4, <2>1 DEF LInv, ListTypes
      <4>2. n > 0 /\ q \in Packets
        BY <2>1, <2>2, <3>1, <3>2 DEF Sent
      <4> HIDE DEF n, q
      <4>3. heap'[curr_packet].written = n
        BY <4>1, <4>2 DEF Packets
      <4> QED
        BY <3>2, <4>2, <4>3
    <3>3. CASE data_packets[k] # curr_packet
      BY <2>1, <2>2, <3>1, <3>3 DEF LInv, ListTypes, Sent
    <3> QED
      BY <3>2, <3>3
  <2> QED
    BY <1>1, <1>3, <1>4, <2>1, <2>2 DEF KInv, Sent
<1>5. CASE FinishPacket
  <2> DEFINE p == curr_packet
  <2>1. /\ heap' = [heap EXCEPT ![p] = Free]
        /\ data_packets' = IF heap[p].type = "PIECE" THEN Tail(data_packets) ELSE data_packets
        /\ p # Null
    BY <1>5 DEF FinishPacket, InLoop
  <2>2. \A b \in Addr \ {p} : heap'[b] = heap[b]
    BY <1>3, <1>5, <2>1 DEF LInv, ListTypes
  <2>3. ASSUME NEW k \in 1..Len(data_packets')
        PROVE  \E m \in 1..Len(data_packets) :
                  heap'[data_packets'[k]] = heap[data_packets[m]]
    <3>1. CASE heap[p].type = "PIECE"
      <4>1. Len(data_packets) > 0 /\ data_packets[1] = p /\ data_packets \in Seq(Addr)
        BY <2>1, <3>1 DEF LInv, ListTypes, FrontIsCurrent, ControlTypes
      <4>4. /\ Len(data_packets') = Len(data_packets) - 1
            /\ \A m \in 1..(Len(data_packets) - 1) :
                  data_packets'[m] = IF m < 1 THEN data_packets[m] ELSE data_packets[m + 1]
        BY <2>1, <3>1, <4>1, TailProperties DEF Without
      <4>2. k + 1 \in 1..Len(data_packets) /\ data_packets'[k] = data_packets[k + 1] /\ k + 1 # 1
        BY <2>3, <4>1, <4>4
      <4>3. data_packets[k + 1] # p /\ data_packets[k + 1] \in Addr
        BY <4>1, <4>2, ListElements DEF LInv, Owned
      <4> QED
        BY <2>2, <4>2, <4>3
    <3>2. CASE heap[p].type # "PIECE"
      <4>1. data_packets' = data_packets
        BY <2>1, <3>2
      <4>2. data_packets[k] # p /\ data_packets[k] \in Addr
        BY <2>3, <3>2, <4>1, ListElements
      <4> QED
        BY <2>2, <2>3, <4>1, <4>2
    <3> QED
      BY <3>1, <3>2
  <2>4. am_choked => main.pc \in Clearing \/ \A k \in 1..Len(data_packets') : Sent(k)'
    BY <2>3 DEF KInv, Sent
  <2> QED
    BY <1>1, <1>3, <1>5, <2>4 DEF KInv
<1> QED
  BY <1>2, <1>4, <1>5 DEF Upload

-----------------------------------------------------------------------------
(* What the peer is told of being choked *)

LEMMA AppendElements ==
    ASSUME NEW S, NEW s \in Seq(S), NEW a \in S
    PROVE  LET t == Append(s, a)
           IN  /\ \A k \in DOMAIN s : k \in DOMAIN t /\ t[k] = s[k]
               /\ \A k \in DOMAIN t : k \in DOMAIN s \/ t[k] = a
<1> DEFINE t == Append(s, a)
<1>1. Len(s) \in Nat /\ DOMAIN s = 1..Len(s)
  OBVIOUS
<1>2. /\ DOMAIN t = 1..(Len(s) + 1) /\ t[Len(s) + 1] = a
      /\ \A k \in 1..Len(s) : t[k] = s[k]
  BY AppendProperties
<1> HIDE DEF t
<1>3. \A k \in 1..(Len(s) + 1) : k \in 1..Len(s) \/ k = Len(s) + 1
  BY <1>1
<1> QED
  BY <1>1, <1>2, <1>3 DEF t

\* Whatever is queued that is not an announcement leaves them alone.
LEMMA AnnouncedSame ==
    ASSUME LInv, AnnouncedChokeState, control_packets' \in Seq(Addr),
           am_choked' = am_choked, told_choked' = told_choked,
           \A k \in 1..Len(control_packets) :
              heap'[control_packets[k]].type = heap[control_packets[k]].type,
           \/ control_packets' = control_packets
           \/ \E a \in Addr : /\ control_packets' = Append(control_packets, a)
                              /\ heap'[a].type \notin ChokeTypes
    PROVE  AnnouncedChokeState'
<1>1. control_packets \in Seq(Addr) /\ DOMAIN control_packets = 1..Len(control_packets)
  BY DEF LInv, ListTypes
<1>2. /\ \A k \in DOMAIN control_packets : /\ k \in DOMAIN control_packets'
                                           /\ control_packets'[k] = control_packets[k]
      /\ \A k \in DOMAIN control_packets' :
            k \in DOMAIN control_packets \/ heap'[control_packets'[k]].type \notin ChokeTypes
  <2>1. CASE control_packets' = control_packets
    BY <2>1
  <2>2. CASE control_packets' # control_packets
    <3>1. PICK a \in Addr : /\ control_packets' = Append(control_packets, a)
                            /\ heap'[a].type \notin ChokeTypes
      BY <2>2
    <3> DEFINE t == Append(control_packets, a)
    <3>2. /\ \A k \in DOMAIN control_packets : k \in DOMAIN t /\ t[k] = control_packets[k]
          /\ \A k \in DOMAIN t : k \in DOMAIN control_packets \/ t[k] = a
      BY <1>1, AppendElements, Zenon
    <3> HIDE DEF t
    <3>3. control_packets' = t
      BY <3>1 DEF t
    <3> QED
      BY <3>1, <3>2, <3>3
  <2> QED
    BY <2>1, <2>2
<1>3. \A k \in DOMAIN control_packets :
         heap'[control_packets'[k]].type = heap[control_packets[k]].type
  BY <1>1, <1>2
<1>4. Announcements' = Announcements
  BY <1>2, <1>3 DEF Announcements, ChokeTypes
<1> QED
  BY <1>3, <1>4 DEF AnnouncedChokeState, Announcements

\* Peer::choke and sendUnchoke
LEMMA Announces ==
    ASSUME LInv, NEW a \in Addr, NEW t \in ChokeTypes, queuePacket(a, t, NoRequest),
           am_choked' = (t = "CHOKE")
    PROVE  AnnouncedChokeState'
<1> DEFINE n == Len(control_packets)
<1>1. /\ control_packets \in Seq(Addr) /\ n \in Nat
      /\ control_packets' = Append(control_packets, a) /\ heap'[a].type = t
  BY QueueEffect DEF LInv, ListTypes, ChokeTypes, ControlTypes
<1>2. DOMAIN control_packets' = 1..(n + 1) /\ control_packets'[n + 1] = a
  BY <1>1, AppendProperties
<1>3. n + 1 \in Announcements' /\ \A k \in Announcements' : k <= n + 1
  BY <1>1, <1>2 DEF Announcements, ChokeTypes
<1>4. \A k \in Announcements' : (\A j \in Announcements' : j <= k) => k = n + 1
  BY <1>1, <1>2, <1>3 DEF Announcements
<1> QED
  BY <1>1, <1>2, <1>3, <1>4 DEF AnnouncedChokeState, ChokeTypes

LEMMA AnnouncedMain ==
    ASSUME LInv, CInv, AnnouncedChokeState, Main, LInv'
    PROVE  AnnouncedChokeState'
<1>1. CASE choke
  <2>1. PICK a \in Addr : queuePacket(a, "CHOKE", NoRequest)
    BY <1>1 DEF choke
  <2> QED
    BY <1>1, <2>1, Announces DEF choke, ChokeTypes
<1>2. CASE sendUnchoke
  <2>1. PICK a \in Addr : queuePacket(a, "UNCHOKE", NoRequest)
    BY <1>2 DEF sendUnchoke
  <2> QED
    BY <1>2, <2>1, Announces DEF sendUnchoke, ChokeTypes
<1>3. ASSUME ~choke, ~sendUnchoke
      PROVE  am_choked' = am_choked /\ told_choked' = told_choked
  BY <1>3 DEF Main, OnRequest, OnRequestWhileChoked, OnCancel, SendOther, EnterClearPieces,
     clearPieces, EraseLoop, RejectRequest, ClearRequests, removeRequest, EnterDoNotSendPiece,
     doNotSendPiece, EnterUpdate, Satisfy, Refuse, LeaveUpdate, MainLeaves
<1>4. control_packets' \in Seq(Addr) /\ control_packets \in Seq(Addr)
  BY DEF LInv, ListTypes
<1>5. CASE Queues /\ ~choke /\ ~sendUnchoke
  <2>1. PICK a \in Addr, t \in {"PIECE"} \cup ControlTypes, r \in Requests \cup {NoRequest} :
          queuePacket(a, t, r) /\ t \notin ChokeTypes
    BY <1>5 DEF Queues
  <2>2. /\ \A k \in 1..Len(control_packets) : heap'[control_packets[k]] = heap[control_packets[k]]
        /\ \/ control_packets' = control_packets
           \/ control_packets' = Append(control_packets, a) /\ heap'[a].type \notin ChokeTypes
    BY <2>1, QueueEffect
  <2> QED
    BY <1>3, <1>4, <1>5, <2>2, AnnouncedSame
<1>6. CASE Erases /\ ~choke /\ ~sendUnchoke
  <2>1. "REJECT" \notin ChokeTypes
    BY DEF ChokeTypes
  <2> QED
    BY <1>3, <1>4, <1>6, <2>1, EraseEffect, AnnouncedSame
<1>7. CASE LeavesPackets /\ ~choke /\ ~sendUnchoke
  BY <1>3, <1>4, <1>7, AnnouncedSame DEF LeavesPackets
<1> QED
  BY <1>1, <1>2, <1>5, <1>6, <1>7, MainSteps

\* What was announced is told when the packet is sent in full.
LEMMA AnnouncedUpload ==
    ASSUME LInv, CInv, AnnouncedChokeState, Upload, LInv'
    PROVE  AnnouncedChokeState'
<1>1. control_packets' \in Seq(Addr) /\ control_packets \in Seq(Addr) /\ am_choked' = am_choked
  BY DEF LInv, ListTypes, Upload, EnterOnReadyToWrite, FinishPacket, PutPartOfPacket,
         LeaveOnReadyToWrite
<1>2. CASE EnterOnReadyToWrite \/ LeaveOnReadyToWrite
  <2>1. UNCHANGED <<heap, control_packets, told_choked>>
    BY <1>2 DEF EnterOnReadyToWrite, LeaveOnReadyToWrite, writer
  <2> QED
    BY <1>1, <2>1, AnnouncedSame
<1>3. CASE PutPartOfPacket
  <2>1. /\ control_packets' = control_packets /\ told_choked' = told_choked
        /\ heap' = [heap EXCEPT ![curr_packet].written = @ + upload.room]
    BY <1>3 DEF PutPartOfPacket
  <2>2. \A a \in Addr : heap[a] # Free => heap'[a].type = heap[a].type
    BY <2>1, HeapTypes DEF LInv, ListTypes, Packets
  <2>3. \A k \in 1..Len(control_packets) :
           heap'[control_packets[k]].type = heap[control_packets[k]].type
    BY <2>2, ListElements DEF Free, ControlTypes
  <2> QED
    BY <1>1, <2>1, <2>3, AnnouncedSame
<1>4. CASE FinishPacket
  <2> DEFINE p == curr_packet
             n == Len(control_packets)
  <2>1. /\ heap' = [heap EXCEPT ![p] = Free] /\ p # Null /\ p \in Addr
        /\ control_packets' = IF heap[p].type = "PIECE" THEN control_packets
                              ELSE Tail(control_packets)
        /\ told_choked' = CASE heap[p].type = "CHOKE"   -> TRUE
                            [] heap[p].type = "UNCHOKE" -> FALSE
                            [] OTHER                    -> told_choked
    BY <1>4 DEF FinishPacket, InLoop, LInv, ListTypes
  <2>2. \A b \in Addr \ {p} : heap'[b] = heap[b]
    BY <2>1 DEF LInv, ListTypes
  <2>3. CASE heap[p].type = "PIECE"
    <3>1. \A k \in 1..n : heap'[control_packets[k]] = heap[control_packets[k]]
      BY <2>2, <2>3, ListElements DEF ControlTypes
    <3>2. control_packets' = control_packets /\ told_choked' = told_choked
      BY <2>1, <2>3
    <3> QED
      BY <1>1, <3>1, <3>2, AnnouncedSame
  <2>4. CASE heap[p].type # "PIECE"
    <3>1. n > 0 /\ n \in Nat /\ control_packets[1] = p
      BY <1>1, <2>1, <2>4 DEF LInv, FrontIsCurrent
    <3>2. /\ Len(control_packets') = n - 1
          /\ \A k \in 1..(n - 1) : control_packets'[k] = control_packets[k + 1]
      BY <1>1, <2>1, <2>4, <3>1, TailProperties DEF Without
    <3>3. \A k \in 1..(n - 1) : heap'[control_packets'[k]] = heap[control_packets[k + 1]]
      <4>1. \A k \in 1..(n - 1) : k + 1 \in 1..n /\ k + 1 # 1
        BY <3>1
      <4>2. \A k \in 1..(n - 1) : control_packets[k + 1] # p /\ control_packets[k + 1] \in Addr
        BY <3>1, <4>1, ListElements DEF LInv, Owned
      <4> QED
        BY <2>2, <3>2, <4>2
    <3>4. \A k \in 1..(n - 1) : k \in Announcements' <=> k + 1 \in Announcements
      BY <1>1, <3>1, <3>2, <3>3 DEF Announcements
    <3>5. /\ \A k \in Announcements : k \in 1..n
          /\ \A k \in Announcements' : k \in 1..(n - 1)
      BY <1>1, <3>2 DEF Announcements
    <3>6. ASSUME Announcements' = {}
          PROVE  am_choked = told_choked'
      <4>1. ASSUME NEW k \in Announcements, k # 1
            PROVE  FALSE
        <5>1. k - 1 \in 1..(n - 1) /\ (k - 1) + 1 = k
          BY <3>1, <3>5, <4>1
        <5> QED
          BY <3>4, <3>6, <4>1, <5>1
      <4>2. CASE 1 \in Announcements
        <5>1. am_choked = (heap[p].type = "CHOKE") /\ heap[p].type \in ChokeTypes
          BY <3>1, <4>1, <4>2 DEF AnnouncedChokeState, Announcements, ChokeTypes
        <5> QED
          BY <2>1, <5>1 DEF ChokeTypes
      <4>3. CASE 1 \notin Announcements
        <5>1. Announcements = {} /\ heap[p].type \notin ChokeTypes
          BY <1>1, <3>1, <4>1, <4>3 DEF Announcements, ChokeTypes
        <5> QED
          BY <2>1, <5>1 DEF AnnouncedChokeState, ChokeTypes
      <4> QED
        BY <4>2, <4>3
    <3>7. ASSUME NEW k \in Announcements', \A j \in Announcements' : j <= k
          PROVE  am_choked = (heap'[control_packets'[k]].type = "CHOKE")
      <4>1. k \in 1..(n - 1) /\ k + 1 \in Announcements
        BY <3>4, <3>5
      <4>2. ASSUME NEW j \in Announcements PROVE j <= k + 1
        <5>1. j \in 1..n
          BY <3>5
        <5>2. CASE j = 1
          BY <4>1, <5>2
        <5>3. CASE j # 1
          <6>1. j - 1 \in 1..(n - 1) /\ (j - 1) + 1 = j
            BY <3>1, <5>1, <5>3
          <6>2. j - 1 \in Announcements'
            BY <3>4, <6>1
          <6> QED
            BY <3>7, <4>1, <5>1, <6>2
        <5> QED
          BY <5>2, <5>3
      <4> QED
        BY <3>3, <4>1, <4>2 DEF AnnouncedChokeState
    <3> QED
      BY <1>1, <3>6, <3>7 DEF AnnouncedChokeState
  <2> QED
    BY <2>3, <2>4
<1> QED
  BY <1>2, <1>3, <1>4 DEF Upload

-----------------------------------------------------------------------------
(* Theorems *)

IInv == LInv /\ CInv /\ BInv /\ HInv /\ KInv /\ AnnouncedChokeState

\* Every reachable state satisfies IInv: the main thread's queueing, cancelling and
\* choking and the upload thread's onReadyToWrite (packetwriter.cpp:72-398) keep the
\* lists, the heap, curr_packet and the counts consistent in every interleaving.
THEOREM Invariance == Spec => []IInv
<1>1. Init => IInv
  <2> SUFFICES ASSUME Init PROVE IInv
    OBVIOUS
  <2>1. /\ \A a \in Addr : heap[a] = Free /\ heap[a].type = "FREE"
        /\ heap \in [Addr -> Packets \cup {Free}]
        /\ control_packets = <<>> /\ data_packets = <<>> /\ curr_packet = Null
    BY DEF Init, Free
  <2>2. LInv
    BY <2>1 DEF LInv, ListTypes, Owned, ControlTypes, FrontIsCurrent, PartiallySentIsCurrent
  <2>3. CInv
    BY DEF Init, CInv, Idle, MainPCs
  <2>4. BInv
    BY DEF Init, BInv, CurrIsPiece
  <2>5. HInv /\ KInv /\ AnnouncedChokeState
    BY DEF Init, Idle, HInv, KInv, Choking, Clearing, AnnouncedChokeState, Announcements
  <2> QED
    BY <2>2, <2>3, <2>4, <2>5 DEF IInv
<1>2. IInv /\ [Next]_vars => IInv'
  <2> SUFFICES ASSUME IInv, [Next]_vars PROVE IInv'
    OBVIOUS
  <2>1. LInv' /\ BInv' /\ HInv'
    BY LInvStep, BInvStep, HInvStep DEF IInv
  <2>2. CASE UNCHANGED vars
    <3>1. UNCHANGED <<heap, data_packets, control_packets, main, requests, am_choked, told_choked,
                      ctrl_packets_sent, mutex, upload>>
      BY <2>2 DEF vars, writer
    <3>2. CInv'
      BY <3>1 DEF CInv, IInv
    <3>3. KInv' /\ AnnouncedChokeState'
      BY <3>1 DEF IInv, KInv, Sent, AnnouncedChokeState, Announcements
    <3> QED
      BY <2>1, <3>2, <3>3 DEF IInv
  <2>3. CASE Main
    BY <2>1, <2>3, CInvMain, KInvMain, AnnouncedMain DEF IInv
  <2>4. CASE Upload
    BY <2>1, <2>4, CInvUpload, KInvUpload, AnnouncedUpload DEF IInv
  <2> QED
    BY <2>2, <2>3, <2>4 DEF Next
<1> QED
  BY <1>1, <1>2, PTL DEF Spec

\* Type correctness: list elements are packets, never null or a deleted packet's
\* leftovers, and onReadyToWrite never pops from an empty list.
THEOREM TypeCorrect == Spec => []TypeOK
<1>1. IInv => TypeOK
  BY DEF IInv, LInv, ListTypes, CInv, BInv, TypeOK
<1> QED
  BY Invariance, <1>1, PTL

\* The packet that onReadyToWrite pops and deletes is the one it sent, whatever
\* clearPieces and doNotSendPiece erased since it was selected.
THEOREM PopsWhatItSent == Spec => []CurrPacketIsFront
<1>1. IInv => CurrPacketIsFront
  <2> SUFFICES ASSUME IInv, curr_packet # Null PROVE CurrPacketIsFront
    BY DEF CurrPacketIsFront
  <2>1. /\ curr_packet \in Addr /\ ListTypes
        /\ data_packets \in Seq(Addr) /\ control_packets \in Seq(Addr)
        /\ FrontIsCurrent
    BY DEF IInv, LInv, ListTypes
  <2>2. heap[curr_packet].type # "FREE" /\ heap[curr_packet] # Free
    BY <2>1, HeapTypes DEF FrontIsCurrent, ControlTypes
  <2>3. CASE heap[curr_packet].type = "PIECE"
    <3>1. Len(data_packets) > 0 /\ data_packets[1] = curr_packet
      BY <2>1, <2>3 DEF FrontIsCurrent, ControlTypes
    <3> QED
      BY <3>1, <2>1, <2>2, <2>3 DEF CurrPacketIsFront
  <2>4. CASE heap[curr_packet].type # "PIECE"
    <3>1. Len(control_packets) > 0 /\ control_packets[1] = curr_packet
      BY <2>1, <2>4 DEF FrontIsCurrent
    <3> QED
      BY <3>1, <2>1, <2>2, <2>4 DEF CurrPacketIsFront
  <2> QED
    BY <2>3, <2>4
<1> QED
  BY Invariance, <1>1, PTL

\* Every live packet is in exactly one list, once: none is deleted twice, used after
\* its delete, or leaked.
THEOREM PacketsAreOwned == Spec => []ListsOwnPackets
<1>1. IInv => ListsOwnPackets
  <2> SUFFICES ASSUME IInv, NEW a \in Addr
               PROVE  /\ heap[a] = Free => a \notin Range(control_packets) \cup Range(data_packets)
                      /\ heap[a] # Free =>
                           /\ (heap[a].type = "PIECE") <=> (a \in Range(data_packets))
                           /\ (heap[a].type # "PIECE") <=> (a \in Range(control_packets))
                      /\ \A i, j \in Occurrences(a, data_packets) : i = j
                      /\ \A i, j \in Occurrences(a, control_packets) : i = j
    BY DEF ListsOwnPackets
  <2>1. /\ Owned(heap, data_packets, {"PIECE"}) /\ Owned(heap, control_packets, ControlTypes)
        /\ data_packets \in Seq(Addr) /\ control_packets \in Seq(Addr)
        /\ heap[a].type \in {"FREE", "PIECE"} \cup ControlTypes
        /\ heap[a] = Free <=> heap[a].type = "FREE"
        /\ "PIECE" \notin ControlTypes /\ "FREE" \notin ControlTypes
    BY HeapTypes DEF IInv, LInv, ListTypes, ControlTypes
  <2>2. a \in Range(data_packets) <=> \E i \in 1..Len(data_packets) : data_packets[i] = a
    BY <2>1, RangeEquality
  <2>3. a \in Range(control_packets) <=> \E i \in 1..Len(control_packets) : control_packets[i] = a
    BY <2>1, RangeEquality
  <2>4. a \in Range(data_packets) <=> heap[a].type = "PIECE"
    BY <2>1, <2>2 DEF Owned
  <2>5. a \in Range(control_packets) <=> heap[a].type \in ControlTypes
    BY <2>1, <2>3 DEF Owned
  <2>6. /\ \A i, j \in Occurrences(a, data_packets) : i = j
        /\ \A i, j \in Occurrences(a, control_packets) : i = j
    BY <2>1 DEF Occurrences, Owned
  <2> QED
    BY <2>1, <2>4, <2>5, <2>6
<1> QED
  BY Invariance, <1>1, PTL

\* Only curr_packet is ever partly sent, so packets never interleave on the wire.
THEOREM NoInterleaving == Spec => []PartiallySentIsCurrent
<1>1. IInv => PartiallySentIsCurrent
  BY DEF IInv, LInv
<1> QED
  BY Invariance, <1>1, PTL

\* At most three control packets overtake a waiting PIECE.
THEOREM UploadsAreNotStarved == Spec => []BoundedBypass
<1>1. IInv => BoundedBypass
  BY DEF IInv, BInv, BoundedBypass
<1> QED
  BY Invariance, <1>1, PTL

\* The peer knows, in the end, whether it is choked: what the packets that were sent and
\* those that wait tell it ends in am_choked; and once Peer::choke has returned, nothing
\* waits for a choked peer but the PIECE of which a part is out.
THEOREM ChokingIsKept == Spec => []ChokeIsKept
<1>1. IInv => ChokeIsKept
  <2> SUFFICES ASSUME IInv PROVE ChokedPeerGetsNoPieces
    BY DEF IInv, ChokeIsKept
  <2> SUFFICES ASSUME am_choked, main.pc = "idle"
               PROVE  /\ requests = <<>>
                      /\ \A a \in Range(data_packets) : heap[a].written > 0
    BY DEF ChokedPeerGetsNoPieces
  <2>1. /\ requests = <<>> /\ data_packets \in Seq(Addr)
        /\ \A k \in 1..Len(data_packets) : heap[data_packets[k]].written > 0
    BY DEF IInv, KInv, Choking, Clearing, Sent, LInv, ListTypes
  <2> QED
    BY <2>1, RangeEquality
<1> QED
  BY Invariance, <1>1, PTL

-----------------------------------------------------------------------------
(* Requests are answered: what is waiting for an answer is counted over the *)
(* requests that were not handled yet and the packets that answer one       *)

\* The live packets that answer r, and the places of r among the requests.
Live(h, r) == {a \in Addr : h[a].type \in {"PIECE", "REJECT"} /\ h[a].req = r}
Places(s, from, r) == {i \in from..Len(s) : s[i] = r}

\* The packets of both lists that answer r are all those there are, and finitely many.
LEMMA AnswersAreLive ==
    ASSUME NEW h, NEW d \in Seq(Addr), NEW c \in Seq(Addr),
           Owned(h, d, {"PIECE"}), Owned(h, c, ControlTypes), NEW r
    PROVE  /\ {a \in Range(d) \cup Range(c) :
                  h[a].type \in {"PIECE", "REJECT"} /\ h[a].req = r} = Live(h, r)
           /\ IsFiniteSet(Live(h, r))
<1>1. /\ Range(d) = {d[i] : i \in 1..Len(d)} /\ Range(c) = {c[i] : i \in 1..Len(c)}
      /\ \A i \in 1..Len(d) : d[i] \in Addr
      /\ \A i \in 1..Len(c) : c[i] \in Addr
  BY ElementOfSeq DEF Range
<1>2. Range(d) \cup Range(c) \subseteq Addr
  BY <1>1
<1>3. ASSUME NEW a \in Live(h, r) PROVE a \in Range(d) \cup Range(c)
  <2>1. a \in Addr /\ (h[a].type \in {"PIECE"} \/ h[a].type \in ControlTypes)
    BY DEF Live, ControlTypes
  <2>2. (\E i \in 1..Len(d) : d[i] = a) \/ (\E i \in 1..Len(c) : c[i] = a)
    BY <2>1 DEF Owned
  <2> QED
    BY <1>1, <2>2
<1>4. IsFiniteSet(Range(d)) /\ IsFiniteSet(Range(c))
  <2>1. ASSUME NEW s \in Seq(Addr) PROVE IsFiniteSet(Range(s))
    <3>1. IsFiniteSet(1..Len(s)) /\ s \in Surjection(1..Len(s), Range(s))
      <4>1. Len(s) \in Nat /\ s \in [1..Len(s) -> Addr] /\ DOMAIN s = 1..Len(s)
        BY LenProperties
      <4>2. IsFiniteSet(1..Len(s))
        BY <4>1, FS_Interval
      <4> QED
        BY <4>1, <4>2 DEF Surjection, Range
    <3> QED
      BY <3>1, FS_Surjection
  <2> QED
    BY <2>1
<1>5. IsFiniteSet(Range(d) \cup Range(c))
  BY <1>4, FS_Union
<1>6. Live(h, r) \subseteq Range(d) \cup Range(c)
  BY <1>3
<1>7. IsFiniteSet(Live(h, r))
  BY <1>5, <1>6, FS_Subset
<1>8. {a \in Range(d) \cup Range(c) : h[a].type \in {"PIECE", "REJECT"} /\ h[a].req = r} = Live(h, r)
  BY <1>2, <1>6, Zenon DEF Live
<1> QED
  BY <1>7, <1>8

\* There are finitely many places of a request,
LEMMA PlacesFinite ==
    ASSUME NEW s \in Seq(Requests), NEW from \in Nat, NEW r
    PROVE  IsFiniteSet(Places(s, from, r)) /\ Cardinality(Places(s, from, r)) \in Nat
<1>1. IsFiniteSet(from..Len(s))
  BY FS_Interval
<1>2. Places(s, from, r) \subseteq from..Len(s)
  BY DEF Places
<1> QED
  BY <1>1, <1>2, FS_Subset, FS_CardinalityType

\* one more at the end adds to them,
LEMMA PlacesAppend ==
    ASSUME NEW s \in Seq(Requests), NEW q \in Requests, NEW r
    PROVE  Cardinality(Places(Append(s, q), 1, r)) >= Cardinality(Places(s, 1, r))
<1> DEFINE t == Append(s, q)
<1>1. t \in Seq(Requests) /\ Len(t) = Len(s) + 1 /\ Len(s) \in Nat /\ \A i \in 1..Len(s) : t[i] = s[i]
  BY AppendProperties
<1> HIDE DEF t
<1>2. Places(s, 1, r) \subseteq Places(t, 1, r)
  BY <1>1 DEF Places
<1>3. Cardinality(Places(s, 1, r)) <= Cardinality(Places(t, 1, r))
  BY <1>1, <1>2, PlacesFinite, FS_Subset
<1>4. Cardinality(Places(s, 1, r)) \in Nat /\ Cardinality(Places(t, 1, r)) \in Nat
  BY <1>1, PlacesFinite
<1> HIDE DEF Places
<1> QED
  BY <1>3, <1>4 DEF t

One(q, r) == IF q = r THEN 1 ELSE 0

\* and one that is passed over, or taken off the front, is one less.
LEMMA PlacesPass ==
    ASSUME NEW s \in Seq(Requests), NEW from \in Nat, from <= Len(s), NEW r
    PROVE  Cardinality(Places(s, from, r)) = Cardinality(Places(s, from + 1, r)) + One(s[from], r)
<1> DEFINE S == Places(s, from + 1, r)
<1>1. IsFiniteSet(S) /\ Cardinality(S) \in Nat
  BY PlacesFinite
<1>2. from \notin S
  BY DEF Places
<1>3. CASE s[from] = r
  <2>1. Places(s, from, r) = S \cup {from}
    BY <1>3 DEF Places
  <2> HIDE DEF S
  <2>2. Cardinality(S \cup {from}) = Cardinality(S) + 1
    BY <1>1, <1>2, FS_AddElement
  <2> QED
    BY <1>3, <2>1, <2>2 DEF One, S
<1>4. CASE s[from] # r
  <2>1. Places(s, from, r) = S
    BY <1>4 DEF Places
  <2> QED
    BY <1>1, <1>4, <2>1 DEF One
<1> QED
  BY <1>3, <1>4

LEMMA PlacesTail ==
    ASSUME NEW s \in Seq(Requests), s # <<>>, NEW r
    PROVE  Cardinality(Places(s, 1, r)) = Cardinality(Places(Tail(s), 1, r)) + One(Head(s), r)
<1> DEFINE t == Tail(s)
<1>1. /\ t \in Seq(Requests) /\ Len(s) \in Nat /\ Len(s) >= 1 /\ Len(t) = Len(s) - 1
      /\ Head(s) = s[1] /\ \A i \in 1..Len(t) : t[i] = s[i + 1]
  BY HeadTailProperties
<1> HIDE DEF t
<1>2. Cardinality(Places(s, 1, r)) = Cardinality(Places(s, 1 + 1, r)) + One(s[1], r)
  BY <1>1, PlacesPass
<1>3. Cardinality(Places(s, 2, r)) = Cardinality(Places(t, 1, r))
  <2> DEFINE f == [i \in Places(t, 1, r) |-> i + 1]
  <2>1. f \in Bijection(Places(t, 1, r), Places(s, 2, r))
    <3>1. \A i \in Places(t, 1, r) : i \in Nat /\ i + 1 \in Places(s, 2, r)
      BY <1>1 DEF Places
    <3>2. \A j \in Places(s, 2, r) : j - 1 \in Places(t, 1, r) /\ (j - 1) + 1 = j
      <4> SUFFICES ASSUME NEW j \in Places(s, 2, r)
                   PROVE  j - 1 \in Places(t, 1, r) /\ (j - 1) + 1 = j
        OBVIOUS
      <4>1. j \in 2..Len(s) /\ s[j] = r
        BY DEF Places
      <4>2. j - 1 \in 1..Len(t) /\ (j - 1) + 1 = j
        BY <1>1, <4>1
      <4>3. t[j - 1] = r
        BY <1>1, <4>1, <4>2
      <4> QED
        BY <4>2, <4>3 DEF Places
    <3>3. f \in [Places(t, 1, r) -> Places(s, 2, r)]
      BY <3>1
    <3>4. \A i, j \in Places(t, 1, r) : f[i] = f[j] => i = j
      BY <3>1
    <3>5. \A j \in Places(s, 2, r) : \E i \in Places(t, 1, r) : f[i] = j
      BY <3>2
    <3> HIDE DEF f
    <3>6. f \in Injection(Places(t, 1, r), Places(s, 2, r))
      BY <3>3, <3>4 DEF Injection, IsInjective
    <3>7. f \in Surjection(Places(t, 1, r), Places(s, 2, r))
      BY <3>3, <3>5, Zenon DEF Surjection
    <3> QED
      BY <3>6, <3>7, Zenon DEF Bijection
  <2> HIDE DEF f
  <2>2. ExistsBijection(Places(t, 1, r), Places(s, 2, r))
    BY <2>1 DEF ExistsBijection
  <2> QED
    BY <1>1, <2>2, PlacesFinite, FS_Bijection
<1> QED
  BY <1>1, <1>2, <1>3 DEF t

\* The erase of another request leaves them.
LEMMA PlacesErase ==
    ASSUME NEW s \in Seq(Requests), NEW i \in 1..Len(s), NEW r, s[i] # r
    PROVE  Cardinality(Places(RemoveAt(s, i), 1, r)) >= Cardinality(Places(s, 1, r))
<1> DEFINE t == RemoveAt(s, i)
           f == [j \in Places(s, 1, r) |-> IF j < i THEN j ELSE j - 1]
<1>1. t \in Seq(Requests) /\ Without(t, s, i)
  BY RemoveAtProperties
<1> HIDE DEF t
<1>2. Len(s) \in Nat /\ i \in Nat /\ Len(t) = Len(s) - 1
  BY <1>1 DEF Without
<1>3. ASSUME NEW j \in Places(s, 1, r)
      PROVE  j \in Nat /\ j # i /\ (IF j < i THEN j ELSE j - 1) \in Places(t, 1, r)
  <2>1. j \in 1..Len(s) /\ s[j] = r /\ j # i
    BY DEF Places
  <2>2. CASE j < i
    <3>1. j \in 1..Len(t) /\ j \in 1..(Len(s) - 1)
      BY <1>2, <2>1, <2>2
    <3>2. t[j] = r
      BY <1>1, <2>1, <2>2, <3>1 DEF Without
    <3> QED
      BY <2>1, <2>2, <3>1, <3>2 DEF Places
  <2>3. CASE ~(j < i)
    <3>1. j - 1 \in 1..Len(t) /\ j - 1 \in 1..(Len(s) - 1) /\ ~(j - 1 < i) /\ (j - 1) + 1 = j
      BY <1>2, <2>1, <2>3
    <3>2. t[j - 1] = r
      BY <1>1, <2>1, <3>1 DEF Without
    <3> QED
      BY <2>1, <2>3, <3>1, <3>2 DEF Places
  <2> QED
    BY <2>2, <2>3
<1>4. f \in [Places(s, 1, r) -> Places(t, 1, r)]
  BY <1>3
<1>5. ASSUME NEW j \in Places(s, 1, r), NEW k \in Places(s, 1, r), f[j] = f[k]
      PROVE  j = k
  BY <1>2, <1>3, <1>5
<1> HIDE DEF f
<1>6. f \in Injection(Places(s, 1, r), Places(t, 1, r))
  BY <1>4, <1>5 DEF Injection, IsInjective
<1>7. Cardinality(Places(s, 1, r)) <= Cardinality(Places(t, 1, r))
  BY <1>1, <1>6, PlacesFinite, FS_Injection
<1>8. Cardinality(Places(s, 1, r)) \in Nat /\ Cardinality(Places(t, 1, r)) \in Nat
  BY <1>1, PlacesFinite
<1> HIDE DEF Places
<1> QED
  BY <1>7, <1>8 DEF t

\* A packet that is queued answers what it says.
LEMMA LiveQueued ==
    ASSUME ListTypes, NEW a \in Addr, NEW t \in {"PIECE"} \cup ControlTypes,
           NEW q \in Requests \cup {NoRequest}, queuePacket(a, t, q),
           NEW r, IsFiniteSet(Live(heap, r))
    PROVE  Cardinality(Live(heap', r)) = Cardinality(Live(heap, r))
                                           + IF t \in {"PIECE", "REJECT"} THEN One(q, r) ELSE 0
<1>1. /\ heap[a].type = "FREE" /\ heap'[a].type = t /\ heap'[a].req = q
      /\ \A b \in Addr \ {a} : heap'[b] = heap[b]
  BY DEF ListTypes, queuePacket, PacketOf, Free
<1>2. a \notin Live(heap, r) /\ Cardinality(Live(heap, r)) \in Nat
  BY <1>1, FS_CardinalityType DEF Live
<1>3. CASE t \in {"PIECE", "REJECT"} /\ q = r
  <2>1. Live(heap', r) = Live(heap, r) \cup {a}
    BY <1>1, <1>3 DEF Live
  <2>2. Cardinality(Live(heap, r) \cup {a}) = Cardinality(Live(heap, r)) + 1
    BY <1>2, FS_AddElement
  <2> QED
    BY <1>3, <2>1, <2>2 DEF One
<1>4. CASE ~(t \in {"PIECE", "REJECT"} /\ q = r)
  <2>1. Live(heap', r) = Live(heap, r)
    BY <1>1, <1>4 DEF Live
  <2> QED
    BY <1>2, <1>4, <2>1 DEF One
<1> QED
  BY <1>3, <1>4

\* What is waiting for an answer.
LEMMA WaitingCounts ==
    ASSUME LInv, CInv, NEW r
    PROVE  /\ Waiting(r) = Cardinality(Places(requests, NextRequest, r)) + Cardinality(Live(heap, r))
           /\ NextRequest \in Nat
           /\ Cardinality(Places(requests, NextRequest, r)) \in Nat
           /\ IsFiniteSet(Live(heap, r)) /\ Cardinality(Live(heap, r)) \in Nat
<1>1. NextRequest \in Nat /\ requests \in Seq(Requests)
  BY DEF CInv, NextRequest
<1>2. Answers(r) = Live(heap, r) /\ IsFiniteSet(Live(heap, r))
  BY AnswersAreLive DEF LInv, ListTypes, Answers
<1>3. Unanswered(r) = Places(requests, NextRequest, r)
  BY DEF Unanswered, Places
<1> QED
  BY <1>1, <1>2, <1>3, PlacesFinite, FS_CardinalityType DEF Waiting

LEMMA WaitingCountsNext ==
    ASSUME LInv', CInv', NEW r
    PROVE  /\ Waiting(r)' = Cardinality(Places(requests', NextRequest', r))
                              + Cardinality(Live(heap', r))
           /\ Cardinality(Places(requests', NextRequest', r)) \in Nat
           /\ Cardinality(Live(heap', r)) \in Nat
<1>1. NextRequest' \in Nat /\ requests' \in Seq(Requests)
  BY DEF CInv, NextRequest
<1>2. Answers(r)' = Live(heap', r) /\ IsFiniteSet(Live(heap', r))
  BY AnswersAreLive DEF LInv, ListTypes, Answers
<1>3. Unanswered(r)' = Places(requests', NextRequest', r)
  BY DEF Unanswered, Places
<1> QED
  BY <1>1, <1>2, <1>3, PlacesFinite, FS_CardinalityType DEF Waiting

\* No handler of the main thread loses a request, but the CANCEL of that request.
LEMMA MainAnswers ==
    ASSUME LInv, CInv, LInv', CInv', Main, FastExtensions, NEW r \in Requests,
           ~(main.pc = "remove_request" /\ main.req = r)
    PROVE  Waiting(r)' >= Waiting(r)
<1> DEFINE P == Cardinality(Places(requests, NextRequest, r))
           Q == Cardinality(Places(requests', NextRequest', r))
           A == Cardinality(Live(heap, r))
           B == Cardinality(Live(heap', r))
<1>1. /\ Waiting(r) = P + A /\ Waiting(r)' = Q + B
      /\ P \in Nat /\ Q \in Nat /\ A \in Nat /\ B \in Nat
      /\ IsFiniteSet(Live(heap, r)) /\ NextRequest \in Nat
  BY WaitingCounts, WaitingCountsNext
<1>2. ListTypes /\ requests \in Seq(Requests) /\ requests' \in Seq(Requests)
  BY DEF LInv, CInv
<1>3. SUFFICES Q + B >= P + A
  BY <1>1
<1> HIDE DEF P, Q, A, B
<1>4. ASSUME Q >= P, heap' = heap PROVE Q + B >= P + A
  BY <1>1, <1>4 DEF A, B
<1>5. ASSUME Q = P, B >= A PROVE Q + B >= P + A
  BY <1>1, <1>5
<1>6. ASSUME requests' = requests, NextRequest' = NextRequest PROVE Q = P
  BY <1>6 DEF P, Q
<1>7. ASSUME NEW a \in Addr, NEW t \in {"PIECE"} \cup ControlTypes,
             NEW q \in Requests \cup {NoRequest}, queuePacket(a, t, q)
      PROVE  B = A + IF t \in {"PIECE", "REJECT"} THEN One(q, r) ELSE 0
  BY <1>1, <1>2, <1>7, LiveQueued DEF A, B
<1>8. \A q : One(q, r) \in {0, 1}
  BY DEF One
<1>9. ASSUME NEW q \in Requests, OnRequest(q) PROVE Q + B >= P + A
  <2>1. heap' = heap /\ requests' = Append(requests, q) /\ NextRequest = 1 /\ NextRequest' = 1
    BY <1>9 DEF OnRequest, Ready, writer, NextRequest
  <2>2. Q >= P
    BY <1>2, <2>1, PlacesAppend DEF P, Q
  <2> QED
    BY <1>4, <2>1, <2>2
<1>10. ASSUME NEW a \in Addr, NEW t \in {"PIECE"} \cup ControlTypes,
              NEW q \in Requests \cup {NoRequest}, queuePacket(a, t, q),
              requests' = requests, NextRequest' = NextRequest
       PROVE  Q + B >= P + A
  <2>1. B >= A
    BY <1>1, <1>7, <1>8, <1>10
  <2> QED
    BY <1>5, <1>6, <1>10, <2>1
<1>11. ASSUME NEW q \in Requests, OnRequestWhileChoked(q) PROVE Q + B >= P + A
  <2>1. PICK a \in Addr : queuePacket(a, "REJECT", q)
    BY <1>11 DEF OnRequestWhileChoked
  <2>2. requests' = requests /\ NextRequest' = NextRequest
    BY <1>11 DEF OnRequestWhileChoked, NextRequest
  <2> QED
    BY <1>10, <2>1, <2>2 DEF ControlTypes
<1>12. CASE SendOther \/ sendUnchoke
  <2>1. PICK a \in Addr, t \in {"OTHER", "UNCHOKE"} : queuePacket(a, t, NoRequest)
    BY <1>12 DEF SendOther, sendUnchoke
  <2>2. requests' = requests /\ NextRequest' = NextRequest
    BY <1>12 DEF SendOther, sendUnchoke, NextRequest
  <2> QED
    BY <1>10, <2>1, <2>2 DEF ControlTypes
<1>13. CASE choke
  <2>1. PICK a \in Addr : queuePacket(a, "CHOKE", NoRequest)
    BY <1>13 DEF choke
  <2>2. requests' = requests /\ NextRequest' = NextRequest
    BY <1>13 DEF choke, Ready, At, NextRequest
  <2> QED
    BY <1>10, <2>1, <2>2 DEF ControlTypes
<1>14. CASE \/ EnterClearPieces \/ EnterDoNotSendPiece \/ EnterUpdate \/ LeaveUpdate
            \/ \E q \in Requests : OnCancel(q)
  <2>1. heap' = heap /\ requests' = requests /\ NextRequest' = NextRequest
    BY <1>14 DEF EnterClearPieces, EnterDoNotSendPiece, EnterUpdate, LeaveUpdate, OnCancel,
                 At, Idle, writer, NextRequest
  <2> QED
    BY <1>1, <1>4, <1>6, <2>1
<1>15. ASSUME NEW matching, NEW pc \in {"clearing", "cancelling"}, EraseLoop(pc, matching, FastExtensions)
       PROVE  Q + B >= P + A
  <2>1. requests' = requests /\ NextRequest' = NextRequest
    BY <1>2, <1>15 DEF EraseLoop, NextRequest, CInv
  <2>2. CASE heap' = heap
    BY <1>1, <1>4, <1>6, <2>1, <2>2
  <2>3. CASE heap' # heap
    <3> DEFINE p == data_packets[main.i]
    <3>1. PICK a \in Addr :
              heap[a] = Free /\ heap' = [heap EXCEPT ![a] = PacketOf("REJECT", heap[p].req), ![p] = Free]
      BY <1>15, <2>3 DEF EraseLoop, Erase
    <3>2. main.i \in 1..Len(data_packets)
      BY <1>15 DEF EraseLoop, CInv, LInv, ListTypes
    <3>3. p \in Addr /\ heap[p].type = "PIECE" /\ heap[a].type = "FREE"
      BY <3>1, <3>2, ListElements DEF Free
    <3> HIDE DEF p
    <3>4. /\ a # p /\ heap'[p].type = "FREE"
          /\ heap'[a].type = "REJECT" /\ heap'[a].req = heap[p].req
          /\ \A b \in Addr \ {a, p} : heap'[b] = heap[b]
      BY <1>2, <3>1, <3>3 DEF ListTypes, PacketOf, Free
    <3>5. CASE heap[p].req = r
      <4>1. Live(heap', r) = (Live(heap, r) \ {p}) \cup {a}
        BY <3>3, <3>4, <3>5 DEF Live
      <4>2. p \in Live(heap, r) /\ a \notin Live(heap, r) \ {p}
        BY <3>3, <3>5 DEF Live
      <4>3. /\ IsFiniteSet(Live(heap, r) \ {p})
            /\ Cardinality(Live(heap, r) \ {p}) = A - 1
        BY <1>1, <4>2, FS_RemoveElement DEF A
      <4>4. B = (A - 1) + 1
        BY <4>1, <4>2, <4>3, FS_AddElement DEF B
      <4> QED
        BY <1>1, <1>5, <1>6, <2>1, <4>4
    <3>6. CASE heap[p].req # r
      <4>1. Live(heap', r) = Live(heap, r)
        BY <3>3, <3>4, <3>6 DEF Live
      <4> QED
        BY <1>1, <1>5, <1>6, <2>1, <4>1 DEF A, B
    <3> QED
      BY <3>5, <3>6
  <2> QED
    BY <2>2, <2>3
<1>16. CASE clearPieces
  <2>1. CASE EraseLoop("clearing", {p \in Addr : heap[p].type = "PIECE"}, FastExtensions)
    BY <1>15, <2>1
  <2>2. CASE ~EraseLoop("clearing", {p \in Addr : heap[p].type = "PIECE"}, FastExtensions)
    <3>0. /\ main.pc = "clearing" /\ main' = At("reject_requests", 1, NoRequest)
          /\ UNCHANGED <<MainLeaves, heap, control_packets, data_packets, requests, am_choked>>
      BY <1>16, <2>2, Zenon DEF clearPieces, EraseDone
    <3>1. heap' = heap /\ requests' = requests /\ NextRequest' = NextRequest
      BY <3>0 DEF At, NextRequest
    <3> QED
      BY <1>1, <1>4, <1>6, <3>1
  <2> QED
    BY <2>1, <2>2
<1>17. CASE doNotSendPiece
  <2>1. CASE EraseLoop("cancelling", {p \in Addr : isPiece(p, main.req)}, FastExtensions)
    BY <1>15, <2>1
  <2>2. CASE ~EraseLoop("cancelling", {p \in Addr : isPiece(p, main.req)}, FastExtensions)
    <3>0. /\ main.pc = "cancelling" /\ main' = Idle
          /\ UNCHANGED <<MainLeaves, heap, control_packets, data_packets, requests, am_choked>>
      BY <1>17, <2>2, Zenon DEF doNotSendPiece, EraseDone
    <3>1. heap' = heap /\ requests' = requests /\ NextRequest' = NextRequest
      BY <3>0 DEF Idle, NextRequest
    <3> QED
      BY <1>1, <1>4, <1>6, <3>1
  <2> QED
    BY <2>1, <2>2
<1>18. CASE RejectRequest
  <2> DEFINE q == requests[main.i]
  <2>1. /\ main.pc = "reject_requests" /\ main.i <= Len(requests) /\ main.i \in Nat /\ main.i > 0
        /\ NextRequest = main.i /\ NextRequest' = main.i + 1 /\ requests' = requests
    BY <1>18 DEF RejectRequest, CInv, NextRequest
  <2>2. q \in Requests
    BY <1>2, <2>1, ElementOfSeq
  <2>3. PICK a \in Addr : queuePacket(a, "REJECT", q)
    BY <1>18 DEF RejectRequest
  <2> HIDE DEF q
  <2>4. B = A + One(q, r)
    BY <1>7, <2>2, <2>3 DEF ControlTypes
  <2>5. P = Q + One(q, r)
    BY <1>2, <2>1, PlacesPass DEF P, Q, q
  <2> QED
    BY <1>1, <1>8, <2>4, <2>5
<1>19. CASE ClearRequests
  <2>1. heap' = heap /\ NextRequest = main.i /\ main.i > Len(requests) /\ main.i \in Nat
    BY <1>19 DEF ClearRequests, writer, NextRequest, CInv
  <2>2. Places(requests, NextRequest, r) = {}
    BY <1>2, <2>1 DEF Places
  <2>3. P = 0
    BY <2>2, FS_EmptySet DEF P
  <2> QED
    BY <1>1, <1>4, <2>1, <2>3
<1>20. CASE removeRequest
  <2>1. /\ heap' = heap /\ main.pc = "remove_request" /\ main.req # r
        /\ NextRequest = 1 /\ NextRequest' = 1
    BY <1>20 DEF removeRequest, writer, At, NextRequest, CInv
  <2>2. CASE requests' = requests
    BY <1>1, <1>4, <1>6, <2>1, <2>2
  <2>3. CASE requests' # requests
    <3>1. /\ main.i \in 1..Len(requests) /\ requests[main.i] # r
          /\ requests' = RemoveAt(requests, main.i)
      BY <1>2, <1>20, <2>1, <2>3 DEF removeRequest, CInv
    <3>2. Q >= P
      BY <1>2, <2>1, <3>1, PlacesErase DEF P, Q
    <3> QED
      BY <1>4, <2>1, <3>2
  <2> QED
    BY <2>2, <2>3
<1>21. CASE Satisfy \/ Refuse
  <2>1. /\ requests # <<>> /\ requests' = Tail(requests)
        /\ NextRequest = 1 /\ NextRequest' = 1
    BY <1>21 DEF Satisfy, Refuse, NextRequest
  <2>2. PICK a \in Addr, t \in {"PIECE", "REJECT"} : queuePacket(a, t, Head(requests))
    BY <1>21 DEF Satisfy, Refuse
  <2>3. Head(requests) \in Requests
    BY <1>2, <2>1, HeadTailProperties
  <2>4. B = A + One(Head(requests), r)
    BY <1>7, <2>2, <2>3 DEF ControlTypes
  <2>5. P = Q + One(Head(requests), r)
    BY <1>2, <2>1, PlacesTail DEF P, Q
  <2> QED
    BY <1>1, <1>8, <2>4, <2>5
<1> QED
  BY <1>9, <1>11, <1>12, <1>13, <1>14, <1>16, <1>17, <1>18, <1>19, <1>20, <1>21, Zenon DEF Main

\* Sending takes a request off the lists only by sending its answer to the end.
LEMMA UploadAnswers ==
    ASSUME LInv, CInv, LInv', CInv', Upload, NEW r \in Requests,
           ~(/\ curr_packet # Null /\ heap[curr_packet].req = r
             /\ heap'[curr_packet] = Free
             /\ upload.pc = "loop")
    PROVE  Waiting(r)' >= Waiting(r)
<1>1. /\ Waiting(r) = Cardinality(Places(requests, NextRequest, r)) + Cardinality(Live(heap, r))
      /\ Waiting(r)' = Cardinality(Places(requests', NextRequest', r)) + Cardinality(Live(heap', r))
      /\ Cardinality(Places(requests, NextRequest, r)) \in Nat /\ Cardinality(Live(heap, r)) \in Nat
  BY WaitingCounts, WaitingCountsNext
<1>2. requests' = requests /\ NextRequest' = NextRequest
  BY DEF Upload, EnterOnReadyToWrite, FinishPacket, PutPartOfPacket, LeaveOnReadyToWrite, NextRequest
<1>3. SUFFICES Live(heap', r) = Live(heap, r)
  BY <1>1, <1>2
<1>4. CASE EnterOnReadyToWrite \/ LeaveOnReadyToWrite
  BY <1>4 DEF EnterOnReadyToWrite, LeaveOnReadyToWrite, writer
<1>5. CASE FinishPacket
  <2>1. /\ curr_packet \in Addr /\ curr_packet # Null /\ upload.pc = "loop"
        /\ heap' = [heap EXCEPT ![curr_packet] = Free]
    BY <1>5 DEF FinishPacket, InLoop, LInv, ListTypes
  <2>2. /\ heap'[curr_packet] = Free /\ heap'[curr_packet].type = "FREE"
        /\ \A b \in Addr \ {curr_packet} : heap'[b] = heap[b]
    BY <2>1 DEF LInv, ListTypes, Free
  <2>3. heap[curr_packet].req # r
    BY <2>1, <2>2
  <2> QED
    BY <2>1, <2>2, <2>3 DEF Live
<1>6. CASE PutPartOfPacket
  <2>1. /\ curr_packet \in Addr /\ heap[curr_packet] \in Packets
        /\ heap' = [heap EXCEPT ![curr_packet].written = @ + upload.room]
    BY <1>6, HeapTypes DEF PutPartOfPacket, InLoop, LInv, ListTypes, FrontIsCurrent, ControlTypes
  <2>2. \A b \in Addr : heap'[b].type = heap[b].type /\ heap'[b].req = heap[b].req
    BY <2>1 DEF LInv, ListTypes, Packets
  <2> QED
    BY <2>2 DEF Live
<1> QED
  BY <1>4, <1>5, <1>6 DEF Upload

\* A fast peer is answered: under every interleaving of the handlers of choke, cancel
\* and update with onReadyToWrite, a request leaves the queues only when a PIECE or a
\* reject for it is sent in full, or in the handler of its own CANCEL.
THEOREM EveryRequestIsAnswered == Spec => RequestsAreAnswered
<1> DEFINE Answered == FastExtensions =>
             \A r \in Requests :
                Waiting(r)' < Waiting(r) =>
                   \/ /\ curr_packet # Null /\ heap[curr_packet].req = r
                      /\ heap'[curr_packet] = Free
                      /\ upload.pc = "loop"
                   \/ main.pc = "remove_request" /\ main.req = r
<1>1. IInv /\ IInv' /\ [Next]_vars => [Answered]_vars
  <2> SUFFICES ASSUME IInv, IInv', Next, FastExtensions, NEW r \in Requests,
                      Waiting(r)' < Waiting(r)
               PROVE  \/ /\ curr_packet # Null /\ heap[curr_packet].req = r
                         /\ heap'[curr_packet] = Free
                         /\ upload.pc = "loop"
                      \/ main.pc = "remove_request" /\ main.req = r
    OBVIOUS
  <2>1. LInv /\ CInv /\ LInv' /\ CInv'
    BY DEF IInv
  <2>2. Waiting(r) \in Nat /\ Waiting(r)' \in Nat
    <3>1. Waiting(r) \in Nat
      BY <2>1, WaitingCounts
    <3>2. Waiting(r)' \in Nat
      BY <2>1, WaitingCountsNext
    <3> QED
      BY <3>1, <3>2
  <2>3. ~(Waiting(r)' >= Waiting(r))
    BY <2>2
  <2>4. CASE Main
    BY <2>1, <2>3, <2>4, MainAnswers
  <2>5. CASE Upload
    BY <2>1, <2>3, <2>5, UploadAnswers
  <2> QED
    BY <2>4, <2>5 DEF Next
<1> QED
  BY Invariance, <1>1, PTL DEF Spec, RequestsAreAnswered
=============================================================================
