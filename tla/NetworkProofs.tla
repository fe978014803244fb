--------------------------- MODULE NetworkProofs ---------------------------
(***************************************************************************)
(* Proofs about BufferedSocket, for every buffer size, every set of limits *)
(* and a kernel that may cut any send short; and about SocketMonitor, for  *)
(* any set of connections and any number of restarts of the threads.       *)
(***************************************************************************)
EXTENDS BufferedSocket, SocketMonitor, SequenceTheorems, TLAPS

\* The bytes on the wire come from buffers filled so far, and while the current
\* buffer is not empty they end where its unsent part begins.
WireBehindBuffer ==
    \A i \in 1..Len(wire) :
        /\ wire[i] <= first + filled
        /\ bytes_in_output_buffer > 0 => wire[i] <= first + bytes_sent

IInv ==
    /\ TypeOK
    /\ ReadsWhatWasWritten
    /\ WithinLimit
    /\ WireBehindBuffer
    /\ BytesInOrder

-----------------------------------------------------------------------------
\* Limits are numbers, the "no limit" of a call among them.
LEMMA LimitsAreNumbers == \A m \in Limits \cup {0} : m \in Nat
BY LimitsAssumption

\* A send is never offered more than is left in the buffer, nor more than the
\* limit of the call still allows.
LEMMA OfferedIsBounded ==
    ASSUME TypeOK
    PROVE  /\ Offered <= bytes_in_output_buffer
           /\ call.max > 0 => call.bw + Offered <= call.max
           /\ Offered \in Int
<1>1. call.max \in Nat /\ call.bw \in Nat /\ bytes_in_output_buffer \in Nat
  BY LimitsAreNumbers, SizeAssumption DEF TypeOK
<1> QED
  BY <1>1 DEF Offered, Unlimited, Allowed

\* The bytes of one send, as a sequence.
LEMMA TakenIsASequence ==
    ASSUME TypeOK, NEW n \in Nat
    PROVE  /\ Taken(n) \in Seq(Nat \ {0})
           /\ Len(Taken(n)) = n
           /\ \A k \in 1..n : Taken(n)[k] = first + bytes_sent + k
<1>1. \A k \in 1..n : first + bytes_sent + k \in Nat \ {0}
  BY SizeAssumption DEF TypeOK
<1>2. Taken(n) \in [1..n -> Nat \ {0}]
  BY <1>1 DEF Taken
<1> QED
  BY <1>2 DEF Taken

\* What a send of n bytes makes of the wire and of the counters.
LEMMA SendStep ==
    ASSUME IInv, NEW n \in 1..OutputBufferSize, Send(n)
    PROVE  IInv'
<1> USE SizeAssumption, LimitsAreNumbers
<1>1. /\ n \in Nat \ {0} /\ n <= bytes_in_output_buffer
      /\ call.max > 0 => call.bw + n <= call.max
  <2>1. /\ Offered <= bytes_in_output_buffer
        /\ call.max > 0 => call.bw + Offered <= call.max
        /\ Offered \in Int
    BY OfferedIsBounded DEF IInv
  <2>2. n <= Offered
    BY DEF Send
  <2>3. call.max \in Nat /\ call.bw \in Nat /\ bytes_in_output_buffer \in Nat
    BY DEF IInv, TypeOK
  <2> QED
    BY <2>1, <2>2, <2>3
<1>2. /\ Taken(n) \in Seq(Nat \ {0})
      /\ Len(Taken(n)) = n
      /\ \A k \in 1..n : Taken(n)[k] = first + bytes_sent + k
  BY <1>1, TakenIsASequence DEF IInv
<1>3. /\ wire' \in Seq(Nat \ {0})
      /\ Len(wire') = Len(wire) + n
      /\ \A i \in 1..Len(wire) : wire'[i] = wire[i]
      /\ \A i \in (Len(wire) + 1)..(Len(wire) + n) :
            wire'[i] = first + bytes_sent + (i - Len(wire))
  <2>1. wire' = wire \o Taken(n) /\ wire \in Seq(Nat \ {0}) /\ Len(wire) \in Nat
    BY DEF Send, IInv, TypeOK
  <2>2. /\ wire' \in Seq(Nat \ {0})
        /\ Len(wire') = Len(wire) + Len(Taken(n))
        /\ \A i \in 1..(Len(wire) + Len(Taken(n))) :
              wire'[i] = IF i <= Len(wire) THEN wire[i] ELSE Taken(n)[i - Len(wire)]
    BY <1>2, <2>1, ConcatProperties
  <2> QED
    BY <1>1, <1>2, <2>1, <2>2
<1>4. /\ bytes_in_output_buffer' \in {0, bytes_in_output_buffer - n}
      /\ bytes_in_output_buffer' > 0 => bytes_sent' = bytes_sent + n
      /\ bytes_sent' \in {0, bytes_sent + n}
  BY <1>1 DEF Send, Counts, IInv, TypeOK
<1>5. bytes_sent + bytes_in_output_buffer = filled
  BY <1>1 DEF IInv, TypeOK, ReadsWhatWasWritten
<1>6. /\ call'.max = call.max /\ call'.bw = call.bw + n
      /\ call' \in [pc : {"idle", "rest", "fill", "send"}, max : Limits \cup {0}, bw : Nat]
  <2>1. call \in [pc : {"idle", "rest", "fill", "send"}, max : Limits \cup {0}, bw : Nat]
    BY DEF IInv, TypeOK
  <2>2. PICK in : call' = After(in, call.bw + n)
    BY DEF Send
  <2>3. call.bw + n \in Nat
    BY <1>1, <2>1
  <2> QED
    BY <2>1, <2>2, <2>3 DEF After
<1>7. /\ first \in Nat /\ filled \in Nat /\ bytes_sent \in Nat
      /\ bytes_in_output_buffer \in Nat /\ Len(wire) \in Nat /\ n \in Nat
      /\ first' = first /\ filled' = filled /\ open' = open
      /\ \A i \in 1..Len(wire) : wire[i] \in Nat
  BY <1>1, ElementOfSeq DEF Send, IInv, TypeOK
<1>8. TypeOK'
  BY <1>1, <1>3, <1>4, <1>5, <1>6, <1>7 DEF IInv, TypeOK
<1>9. ReadsWhatWasWritten'
  <2> SUFFICES ASSUME bytes_in_output_buffer' > 0
               PROVE  bytes_sent' + bytes_in_output_buffer' = filled'
    BY DEF ReadsWhatWasWritten
  <2>1. bytes_in_output_buffer' = bytes_in_output_buffer - n /\ bytes_sent' = bytes_sent + n
    BY <1>4
  <2> QED
    BY <2>1, <1>5, <1>7
<1>10. WithinLimit'
  BY <1>1, <1>6 DEF WithinLimit
<1>11. \A i \in 1..Len(wire) : wire[i] <= first + bytes_sent /\ wire[i] <= first + filled
  BY <1>1, <1>7 DEF IInv, WireBehindBuffer
<1>12. WireBehindBuffer'
  <2> SUFFICES ASSUME NEW i \in 1..Len(wire')
               PROVE  /\ wire'[i] <= first + filled
                      /\ bytes_in_output_buffer' > 0 => wire'[i] <= first + bytes_sent'
    BY <1>7 DEF WireBehindBuffer
  <2>1. CASE i \in 1..Len(wire)
    BY <2>1, <1>3, <1>4, <1>7, <1>11, SMTT(30)
  <2>2. CASE i \in (Len(wire) + 1)..(Len(wire) + n)
    BY <2>2, <1>1, <1>3, <1>4, <1>5, <1>7, SMTT(30)
  <2> QED
    BY <2>1, <2>2, <1>3, <1>7
<1>13. BytesInOrder'
  <2> SUFFICES ASSUME NEW i \in 1..Len(wire'), NEW j \in 1..Len(wire'), i < j
               PROVE  wire'[i] < wire'[j]
    BY DEF BytesInOrder
  <2>1. CASE j \in 1..Len(wire)
    BY <2>1, <1>3, <1>7, SMTT(30) DEF IInv, BytesInOrder
  <2>2. /\ i \in Nat /\ j \in Nat /\ Len(wire) \in Nat
        /\ i > Len(wire) => i \in (Len(wire) + 1)..(Len(wire) + n)
        /\ j > Len(wire) => j \in (Len(wire) + 1)..(Len(wire) + n)
    BY <1>3, <1>7
  <2>3. CASE i \in 1..Len(wire) /\ j > Len(wire)
    <3>1. wire'[i] = wire[i] /\ wire[i] <= first + bytes_sent /\ wire[i] \in Nat
      BY <2>3, <1>3, <1>7, <1>11
    <3>2. wire'[j] = first + bytes_sent + (j - Len(wire))
      BY <2>2, <2>3, <1>3
    <3> QED
      BY <3>1, <3>2, <2>2, <2>3, <1>7
  <2>4. CASE i > Len(wire) /\ j > Len(wire)
    <3>1. /\ wire'[i] = first + bytes_sent + (i - Len(wire))
          /\ wire'[j] = first + bytes_sent + (j - Len(wire))
      BY <2>2, <2>4, <1>3
    <3> QED
      BY <3>1, <2>2, <1>7
  <2> QED
    BY <2>1, <2>2, <2>3, <2>4
<1> QED
  BY <1>8, <1>9, <1>10, <1>12, <1>13 DEF IInv

\* The steps that leave the wire alone.
LEMMA OtherSteps ==
    ASSUME IInv,
           \/ \E max \in Limits : Call(max)
           \/ SendNothing
           \/ \E n \in 0..OutputBufferSize : Fill(n)
           \/ UNCHANGED vars
    PROVE  IInv'
<1> USE SizeAssumption, LimitsAreNumbers DEF IInv, TypeOK, ReadsWhatWasWritten, WithinLimit,
                                             WireBehindBuffer, BytesInOrder
<1>1. ASSUME NEW max \in Limits, Call(max)
      PROVE  IInv'
  BY <1>1 DEF Call
<1>2. CASE SendNothing
  BY <1>2 DEF SendNothing
<1>3. ASSUME NEW n \in 0..OutputBufferSize, Fill(n)
      PROVE  IInv'
  <2>1. /\ n \in Nat /\ first \in Nat /\ filled \in Nat
        /\ bytes_in_output_buffer' = n /\ bytes_sent' = 0
        /\ first' = first + filled /\ filled' = n /\ wire' = wire /\ open' = open
    BY <1>3 DEF Fill
  <2>2. /\ call' \in [pc : {"idle", "rest", "fill", "send"}, max : Limits \cup {0}, bw : Nat]
        /\ call'.max = call.max /\ call'.bw = call.bw
    BY <1>3 DEF Fill
  <2>3. TypeOK'
    BY <2>1, <2>2
  <2>4. ReadsWhatWasWritten' /\ WithinLimit' /\ BytesInOrder'
    BY <2>1, <2>2
  <2>5. WireBehindBuffer'
    BY <2>1, ElementOfSeq
  <2> QED
    BY <2>3, <2>4, <2>5
<1>4. CASE UNCHANGED vars
  BY <1>4 DEF vars
<1> QED
  BY <1>1, <1>2, <1>3, <1>4

\* Every reachable state satisfies IInv: whatever the kernel takes of each send and
\* whatever the limits, writeBuffered and sendOutputBuffer (bufferedsocket.cpp:124-210)
\* keep the counters inside the buffer and the wire behind it.
THEOREM Invariance == Spec => []IInv
<1>1. Init => IInv
  BY SizeAssumption, LimitsAreNumbers
     DEF Init, IInv, TypeOK, NoCall, ReadsWhatWasWritten, WithinLimit, WireBehindBuffer, BytesInOrder
<1>2. IInv /\ [Next]_vars => IInv'
  <2> SUFFICES ASSUME IInv, [Next]_vars PROVE IInv'
    OBVIOUS
  <2>1. CASE \E n \in 1..OutputBufferSize : Send(n)
    BY <2>1, SendStep
  <2>2. CASE ~\E n \in 1..OutputBufferSize : Send(n)
    BY <2>2, OtherSteps DEF Next
  <2> QED
    BY <2>1, <2>2
<1> QED
  BY <1>1, <1>2, PTL DEF Spec

\* The counters and the call keep their types.
THEOREM TypeCorrect == Spec => []TypeOK
<1>1. IInv => TypeOK
  BY DEF IInv
<1> QED
  BY Invariance, <1>1, PTL

\* sendOutputBuffer only reads bytes that onReadyToWrite put into the buffer.
THEOREM NoStrayRead == Spec => []ReadsWhatWasWritten
<1>1. IInv => ReadsWhatWasWritten
  BY DEF IInv
<1> QED
  BY Invariance, <1>1, PTL

\* No byte is sent twice and none overtakes another, however sends are cut short.
THEOREM WireIsOrdered == Spec => []BytesInOrder
<1>1. IInv => BytesInOrder
  BY DEF IInv
<1> QED
  BY Invariance, <1>1, PTL

\* A call of writeBuffered never sends more than its limit.
THEOREM LimitIsKept == Spec => []WithinLimit
<1>1. IInv => WithinLimit
  BY DEF IInv
<1> QED
  BY Invariance, <1>1, PTL

-----------------------------------------------------------------------------
(* SocketMonitor: the inductive invariant *)

\* A thread that will go on looping: it runs, or was started and has not set its
\* flag yet
Alive(t) == thread[t] # "none" /\ (running[t] \/ thread[t] = "born")

\* The flag is only set while the thread lives, and not before it runs.  This is what
\* makes it safe for add() to believe isRunning().
FlagIsHonest == \A t \in Threads : running[t] => thread[t] \notin {"none", "born"}

\* Inside add(): the list is not empty, and the threads passed so far are up
Starting ==
    /\ main \in {"start_down", "start_up"} => smap # {}
    /\ main = "start_up" => Alive("down")
    /\ main \in {"idle", "signal"} /\ smap # {} => Alive("up") /\ Alive("down")

MonitorInv == MonitorTypeOK /\ LockHolder /\ FlagIsHonest /\ Starting

-----------------------------------------------------------------------------
(* Each step *)

\* add() and the two calls of start(): the lock is held from the first to the last
LEMMA StartSteps ==
    ASSUME MonitorInv, (\E s \in Sockets : add(s)) \/ StartDownload \/ StartUpload
    PROVE  MonitorInv'
<1>1. CASE \E s \in Sockets : add(s)
  BY <1>1, BoundAssumption
     DEF add, Idle, MonitorInv, MonitorTypeOK, LockHolder, FlagIsHonest, Starting, Alive, Threads, PCs, Unlocked
<1>2. CASE StartDownload
  BY <1>2
     DEF StartDownload, Start, MonitorInv, MonitorTypeOK, LockHolder, FlagIsHonest, Starting, Alive, Threads,
         PCs, Unlocked
<1>3. CASE StartUpload
  BY <1>3
     DEF StartUpload, Start, MonitorInv, MonitorTypeOK, LockHolder, FlagIsHonest, Starting, Alive, Threads,
         PCs, Unlocked
<1> QED
  BY <1>1, <1>2, <1>3

\* The other calls of the main thread: removing a socket, queueing a packet
LEMMA OtherMainSteps ==
    ASSUME MonitorInv,
           (\E s \in Sockets : remove(s) \/ queuePacket(s)) \/ signalPacketReady
    PROVE  MonitorInv'
<1>1. ASSUME NEW s \in Sockets, remove(s) PROVE MonitorInv'
  <2>1. /\ smap' = smap \ {s} /\ has_bytes' = has_bytes \ {s}
        /\ main = "idle" /\ mutex = "free" /\ UNCHANGED <<mutex, main, adds>>
    BY <1>1 DEF remove, Idle
  <2>2. \/ thread' = thread
        \/ /\ thread["up"] = "wait"
           /\ thread' = [thread EXCEPT !["up"] = "test"]
    BY <1>1 DEF remove, wakeOne
  <2>3. IF smap' = {} THEN running' = [t \in Threads |-> FALSE]
                      ELSE UNCHANGED <<running, thread>>
    BY <1>1 DEF remove
  <2>4. MonitorTypeOK'
    <3>1. DOMAIN thread' = Threads /\ \A t \in Threads : thread'[t] \in PCs[t]
      BY <2>2 DEF MonitorInv, MonitorTypeOK, Threads, PCs, Unlocked
    <3>2. running' \in [Threads -> BOOLEAN]
      BY <2>3 DEF MonitorInv, MonitorTypeOK
    <3>3. smap' \subseteq Sockets /\ has_bytes' \subseteq smap'
      BY <2>1 DEF MonitorInv, MonitorTypeOK
    <3> QED
      BY <2>1, <3>1, <3>2, <3>3 DEF MonitorInv, MonitorTypeOK
  <2>5. LockHolder'
    BY <2>1, <2>2 DEF MonitorInv, MonitorTypeOK, LockHolder, Threads, PCs, Unlocked
  <2>6. FlagIsHonest' /\ Starting'
    BY <2>1, <2>3 DEF MonitorInv, FlagIsHonest, Starting, Alive, Threads
  <2> QED
    BY <2>4, <2>5, <2>6 DEF MonitorInv
<1>2. ASSUME NEW s \in Sockets, queuePacket(s) PROVE MonitorInv'
  BY <1>2
     DEF queuePacket, Idle, MonitorInv, MonitorTypeOK, LockHolder, FlagIsHonest, Starting, Alive, Threads
<1>3. CASE signalPacketReady
  BY <1>3
     DEF signalPacketReady, wakeOne, MonitorInv, MonitorTypeOK, LockHolder, FlagIsHonest, Starting, Alive,
         Threads, PCs, Unlocked
<1> QED
  BY <1>1, <1>2, <1>3

\* What both threads do outside update(), and asking for the lock
LEMMA ThreadSteps ==
    ASSUME MonitorInv, NEW t \in Threads, ThreadStep(t)
    PROVE  MonitorInv'
<1>1. CASE Run(t)
  BY <1>1
     DEF Run, Goto, MonitorInv, MonitorTypeOK, LockHolder, FlagIsHonest, Starting, Alive, Threads, PCs, Unlocked
<1>2. CASE Loop(t)
  BY <1>2
     DEF Loop, Goto, MonitorInv, MonitorTypeOK, LockHolder, FlagIsHonest, Starting, Alive, Threads, PCs, Unlocked
<1>3. CASE Lock(t)
  BY <1>3
     DEF Lock, Goto, MonitorInv, MonitorTypeOK, LockHolder, FlagIsHonest, Starting, Alive, Threads, PCs, Unlocked
<1>4. CASE Rest(t)
  BY <1>4
     DEF Rest, Goto, MonitorInv, MonitorTypeOK, LockHolder, FlagIsHonest, Starting, Alive, Threads, PCs, Unlocked
<1> QED
  BY <1>1, <1>2, <1>3, <1>4 DEF ThreadStep

\* The parts of the two update()s
LEMMA UpdateSteps ==
    ASSUME MonitorInv,
           (\E sent \in SUBSET has_bytes : Upload(sent)) \/ Wait \/ FillPollVector \/ Poll \/ Read
    PROVE  MonitorInv'
<1>1. CASE \E sent \in SUBSET has_bytes : Upload(sent)
  BY <1>1
     DEF Upload, Goto, MonitorInv, MonitorTypeOK, LockHolder, FlagIsHonest, Starting, Alive, Threads, PCs, Unlocked
<1>2. CASE Wait
  BY <1>2
     DEF Wait, Goto, MonitorInv, MonitorTypeOK, LockHolder, FlagIsHonest, Starting, Alive, Threads, PCs, Unlocked
<1>3. CASE FillPollVector
  BY <1>3
     DEF FillPollVector, Goto, MonitorInv, MonitorTypeOK, LockHolder, FlagIsHonest, Starting, Alive, Threads,
         PCs, Unlocked
<1>4. CASE Poll
  BY <1>4
     DEF Poll, Goto, MonitorInv, MonitorTypeOK, LockHolder, FlagIsHonest, Starting, Alive, Threads, PCs, Unlocked
<1>5. CASE Read
  BY <1>5
     DEF Read, Goto, MonitorInv, MonitorTypeOK, LockHolder, FlagIsHonest, Starting, Alive, Threads, PCs, Unlocked
<1> QED
  BY <1>1, <1>2, <1>3, <1>4, <1>5

-----------------------------------------------------------------------------
(* Theorems *)

\* Every reachable state satisfies MonitorInv: add, remove, start, run and update of the two
\* threads keep the lock, the flags and the list of sockets consistent.
THEOREM MonitorInvariance == MonitorSpec => []MonitorInv
<1>1. MonitorInit => MonitorInv
  BY BoundAssumption
     DEF MonitorInit, MonitorInv, MonitorTypeOK, LockHolder, FlagIsHonest, Starting, Threads, PCs, Unlocked
<1>2. MonitorInv /\ [MonitorNext]_monitorVars => MonitorInv'
  <2> SUFFICES ASSUME MonitorInv, [MonitorNext]_monitorVars PROVE MonitorInv'
    OBVIOUS
  <2>1. CASE Main
    BY <2>1, StartSteps, OtherMainSteps DEF Main
  <2>2. CASE UploadStep \/ DownloadStep
    BY <2>2, ThreadSteps, UpdateSteps DEF UploadStep, DownloadStep, Threads
  <2>3. CASE UNCHANGED monitorVars
    BY <2>3 DEF monitorVars, MonitorInv, MonitorTypeOK, LockHolder, FlagIsHonest, Starting, Alive
  <2> QED
    BY <2>1, <2>2, <2>3 DEF MonitorNext
<1> QED
  BY <1>1, <1>2, PTL DEF MonitorSpec

\* While there are connections and add() has returned, both network threads are up and
\* go on looping, and nobody walks the list of sockets while it changes.
THEOREM ThreadsServe == MonitorSpec => []SocketsAreServed
<1>1. MonitorInv => SocketsAreServed
  BY DEF MonitorInv, SocketsAreServed, ThreadsLive, Starting, Alive, MonitorTypeOK, Threads
<1> QED
  BY MonitorInvariance, <1>1, PTL
=============================================================================
