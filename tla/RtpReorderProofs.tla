-------------------------- MODULE RtpReorderProofs --------------------------
(* Theorems about RtpReorder, for every size of the first batch and of the *)
(* queue, every range of numbers and every number of arrivals; and about   *)
(* RtpStream, which implements OrderedOutput.                              *)
EXTENDS RtpStream, FiniteSetTheorems, TLAPS

\* What Append does to the sequence of forwarded packets.
LEMMA Appended ==
  ASSUME NEW s \in Seq(Packet), NEW p \in Packet
  PROVE  /\ Append(s, p) \in Seq(Packet)
         /\ Len(Append(s, p)) = Len(s) + 1
         /\ \A i \in 1 .. Len(s) : Append(s, p)[i] = s[i]
         /\ Append(s, p)[Len(s) + 1] = p
  OBVIOUS

-----------------------------------------------------------------------------
(* Type correctness.                                                       *)

LEMMA TypeInit == Init => TypeOK
<1>1. Init => sent \in Seq(Packet)
  BY DEF Init
<1>2. Init => arrived \in 0 .. MaxArrivals
  BY MaxArrivalsAssumption DEF Init
<1> QED
  BY <1>1, <1>2 DEF Init, TypeOK

LEMMA TypeStep == TypeOK /\ [Next]_vars => TypeOK'
<1> SUFFICES ASSUME TypeOK, [Next]_vars PROVE TypeOK'
  OBVIOUS
<1> USE SNMaxAssumption, MaxArrivalsAssumption DEF TypeOK, SN, NotSet
<1>1. ASSUME NEW sn \in SN, Receive(sn) PROVE TypeOK'
  <2>1. PacketArray' \subseteq Packet
    BY <1>1 DEF Receive, Packet
  <2> QED
    BY <1>1, <2>1 DEF Receive
<1>2. CASE Forward
  <2>1. PICK p \in PacketArray :
          sent' = Append(sent, p) /\ PacketArray' = PacketArray \ {p}
    BY <1>2 DEF Forward
  <2>2. sent' \in Seq(Packet)
    BY <2>1, Appended
  <2>3. minSN' \in SN \union {SNMax + 1}
    BY <1>2 DEF Forward
  <2> QED
    BY <1>2, <2>1, <2>2, <2>3 DEF Forward
<1>3. CASE DrainDone
  BY <1>3 DEF DrainDone
<1>4. CASE Leave
  BY <1>4 DEF Leave
<1>5. CASE Stop
  BY <1>5 DEF Stop
<1>6. CASE UNCHANGED vars
  BY <1>6 DEF vars
<1> QED
  BY <1>1, <1>2, <1>3, <1>4, <1>5, <1>6 DEF Next, Loop, Ended

\* The type invariant of the receiver.
THEOREM TypeCorrect == Spec => []TypeOK
  BY TypeInit, TypeStep, PTL DEF Spec

-----------------------------------------------------------------------------
(* The queue is bounded.                                                   *)

\* A full queue is about to give a packet up, or the thread to end.
BoundInv ==
  /\ IsFiniteSet(PacketArray)
  /\ firstFlag => Cardinality(PacketArray) <= FirstBatch
  /\ BoundedQueue
  /\ Cardinality(PacketArray) = MaxQueueSize =>
       \/ m_bExitThread
       \/ /\ pc = "drain"
          /\ minSN <= maxSN
          /\ \E p \in PacketArray : p.sn = minSN

LEMMA BoundInit == Init => BoundInv
  BY FS_EmptySet, MaxQueueSizeAssumption, FirstBatchAssumption
  DEF Init, BoundInv, BoundedQueue

LEMMA BoundStep == TypeOK /\ BoundInv /\ [Next]_vars => BoundInv'
<1> SUFFICES ASSUME TypeOK, BoundInv, [Next]_vars PROVE BoundInv'
  OBVIOUS
<1> USE MaxQueueSizeAssumption, FirstBatchAssumption DEF BoundInv, BoundedQueue
<1>1. Cardinality(PacketArray) \in Nat
  BY FS_CardinalityType
<1>2. ASSUME NEW sn \in SN, Receive(sn) PROVE BoundInv'
  <2> DEFINE new == [sn |-> sn, n |-> arrived + 1]
  <2>1. PacketArray' = PacketArray \union {new}
    BY <1>2 DEF Receive
  <2>2. /\ IsFiniteSet(PacketArray')
        /\ Cardinality(PacketArray') \in Nat
        /\ Cardinality(PacketArray') <= Cardinality(PacketArray) + 1
    <3> HIDE DEF new
    <3>1. IsFiniteSet(PacketArray)
      OBVIOUS
    <3>2. /\ IsFiniteSet(PacketArray \union {new})
          /\ Cardinality(PacketArray \union {new}) =
               IF new \in PacketArray THEN Cardinality(PacketArray)
                                     ELSE Cardinality(PacketArray) + 1
      BY <3>1, FS_AddElement
    <3> QED
      BY <1>1, <2>1, <3>2
  <2>3. Cardinality(PacketArray') <= MaxQueueSize
    BY <1>1, <1>2, <2>2 DEF Receive
  <2>4. CASE firstFlag'
    <3>1. Cardinality(PacketArray') <= FirstBatch
      BY <1>2, <2>4 DEF Receive, TypeOK
    <3> QED
      BY <2>2, <2>4, <3>1
  <2>5. CASE ~ firstFlag'
    <3>1. pc' = "drain"
      BY <1>2, <2>5 DEF Receive
    <3>2. ASSUME Cardinality(PacketArray') = MaxQueueSize
          PROVE  minSN' <= maxSN' /\ \E p \in PacketArray' : p.sn = minSN'
      <4>1. Extremes(PacketArray', minSN', maxSN')
        BY <1>2, <2>5, <3>2 DEF Receive, Full
      <4> QED
        BY <4>1 DEF Extremes
    <3> QED
      BY <2>2, <2>3, <2>5, <3>1, <3>2
  <2> QED
    BY <2>4, <2>5
<1>3. CASE Forward
  <2>1. PICK p \in PacketArray : PacketArray' = PacketArray \ {p}
    BY <1>3 DEF Forward
  <2>2. /\ IsFiniteSet(PacketArray')
        /\ Cardinality(PacketArray') = Cardinality(PacketArray) - 1
    BY <2>1, FS_RemoveElement
  <2> QED
    BY <1>1, <1>3, <2>2 DEF Forward
<1>4. CASE DrainDone
  BY <1>1, <1>4 DEF DrainDone, TypeOK, SN, NotSet
<1>5. CASE Leave
  BY <1>1, <1>5 DEF Leave
<1>6. CASE Stop
  BY <1>6 DEF Stop
<1>7. CASE UNCHANGED vars
  BY <1>7 DEF vars
<1> QED
  BY <1>2, <1>3, <1>4, <1>5, <1>6, <1>7 DEF Next, Loop, Ended

\* The memory of the receiver is bounded whatever the network delivers.
THEOREM BoundedQueueCorrect == Spec => []BoundedQueue
<1>1. BoundInv => BoundedQueue
  BY DEF BoundInv
<1> QED
  BY <1>1, BoundInit, BoundStep, TypeCorrect, PTL DEF Spec

-----------------------------------------------------------------------------
(* How long the thread is away from the network, and what a stop leaves it to *)
(* do.                                                                     *)

Queued == Cardinality(PacketArray)

\* The forwarding loop ends, whatever the numbers are that it goes through: each
\* turn of it either is the last or gives up one packet of those that were there
\* when it began, and BoundedQueue has how many those are.
LoopGivesUp ==
  [][pc = "drain" =>
       \/ UNCHANGED PacketArray /\ pc' \in {"drain", "recv"} /\ UNCHANGED sent
       \/ pc' = "drain" /\ Queued' < Queued /\ Len(sent') = Len(sent) + 1]_vars

\* At most so many steps are left of the thread once it has been stopped.
Left == [drain |-> 2, recv |-> 1, done |-> 0]

\* A stop is final: nothing more is taken in or forwarded, and every step brings
\* the thread nearer to its end.
StopIsFinal ==
  [][m_bExitThread =>
       /\ m_bExitThread' /\ UNCHANGED <<PacketArray, arrived, sent>>
       /\ pc' = pc \/ Left[pc'] < Left[pc]]_vars

LEMMA LoopGivesUpStep ==
  ASSUME TypeOK, BoundInv, [Next]_vars, pc = "drain"
  PROVE  \/ UNCHANGED PacketArray /\ pc' \in {"drain", "recv"} /\ UNCHANGED sent
         \/ pc' = "drain" /\ Queued' < Queued /\ Len(sent') = Len(sent) + 1
<1>1. CASE Forward
  <2>1. PICK p \in PacketArray : PacketArray' = PacketArray \ {p} /\ sent' = Append(sent, p)
    BY <1>1 DEF Forward
  <2>2. Queued \in Nat /\ Queued' = Queued - 1
    BY <2>1, FS_RemoveElement, FS_CardinalityType DEF Queued, BoundInv
  <2>3. Len(sent') = Len(sent) + 1
    BY <2>1, Appended DEF TypeOK
  <2> QED
    BY <1>1, <2>2, <2>3 DEF Forward
<1>2. CASE DrainDone
  BY <1>2 DEF DrainDone
<1>3. CASE Stop
  BY <1>3 DEF Stop
<1>4. CASE UNCHANGED vars
  BY <1>4 DEF vars
<1>5. ~ Leave /\ ~ Ended /\ \A sn \in SN : ~ Receive(sn)
  BY DEF Leave, Ended, Receive
<1> QED
  BY <1>1, <1>2, <1>3, <1>4, <1>5 DEF Next, Loop

LEMMA StopIsFinalStep ==
  ASSUME [Next]_vars, m_bExitThread
  PROVE  /\ m_bExitThread' /\ UNCHANGED <<PacketArray, arrived, sent>>
         /\ pc' = pc \/ Left[pc'] < Left[pc]
<1>1. ~ Forward /\ ~ Stop /\ \A sn \in SN : ~ Receive(sn)
  BY DEF Forward, Stop, Receive
<1>2. CASE DrainDone \/ Leave
  <2>1. m_bExitThread' = m_bExitThread /\ UNCHANGED <<PacketArray, arrived, sent>>
    BY <1>2 DEF DrainDone, Leave
  <2>2. (pc = "drain" /\ pc' = "recv") \/ (pc = "recv" /\ pc' = "done")
    BY <1>2 DEF DrainDone, Leave
  <2>3. Left[pc'] < Left[pc]
    BY <2>2 DEF Left
  <2> QED
    BY <2>1, <2>3
<1>3. CASE UNCHANGED vars
  BY <1>3 DEF vars
<1> QED
  BY <1>1, <1>2, <1>3 DEF Next, Loop, Ended

\* The thread comes back to recvfrom after as many turns as the queue is long.
THEOREM LoopGivesUpCorrect == Spec => LoopGivesUp
<1>1. TypeOK /\ BoundInv /\ [Next]_vars =>
        [pc = "drain" =>
           \/ UNCHANGED PacketArray /\ pc' \in {"drain", "recv"} /\ UNCHANGED sent
           \/ pc' = "drain" /\ Queued' < Queued /\ Len(sent') = Len(sent) + 1]_vars
  BY LoopGivesUpStep
<1> QED
  BY <1>1, BoundInit, BoundStep, TypeCorrect, PTL DEF Spec, LoopGivesUp

\* What StopIsHeeded adds to it is that the thread takes the steps that are left.
THEOREM StopIsFinalCorrect == Spec => StopIsFinal
<1>1. [Next]_vars =>
        [m_bExitThread =>
           /\ m_bExitThread' /\ UNCHANGED <<PacketArray, arrived, sent>>
           /\ pc' = pc \/ Left[pc'] < Left[pc]]_vars
  BY StopIsFinalStep
<1> QED
  BY <1>1, PTL DEF Spec, StopIsFinal

-----------------------------------------------------------------------------
(* What the loop passes over, and what stalls it.                          *)

\* The loop looks far enough, and looks for nothing before the first packet.
LoopInv ==
  /\ \A p \in PacketArray : p.sn <= maxSN
  /\ minSN = NotSet => PacketArray = {}
  /\ pc = "drain" => minSN # NotSet
  /\ OnlyDuplicatesLeftBehind
  /\ StallIsForMissing

LEMMA LoopInit == Init => LoopInv
  BY DEF Init, LoopInv, OnlyDuplicatesLeftBehind, StallIsForMissing

LEMMA LoopStep == TypeOK /\ TypeOK' /\ LoopInv /\ [Next]_vars => LoopInv'
<1> SUFFICES ASSUME TypeOK, TypeOK', LoopInv, [Next]_vars PROVE LoopInv'
  OBVIOUS
<1> USE SNMaxAssumption DEF LoopInv, OnlyDuplicatesLeftBehind, StallIsForMissing
<1>1. ASSUME NEW sn \in SN, Receive(sn) PROVE LoopInv'
  <2> DEFINE new == [sn |-> sn, n |-> arrived + 1]
  <2>1. PacketArray' = PacketArray \union {new} /\ new.sn = sn
    BY <1>1 DEF Receive
  <2>2. /\ PacketArray \subseteq Packet /\ PacketArray' \subseteq Packet
        /\ minSN \in Int /\ maxSN \in Int /\ minSN' \in SN /\ maxSN' \in SN
        /\ \A p \in Packet : p.sn \in Nat
    BY <1>1 DEF Receive, TypeOK, NotSet, SN, Packet
  <2>3. /\ \A p \in PacketArray' : p.sn <= maxSN'
        /\ \A p \in PacketArray' : p.sn < minSN' => p \in PacketArray /\ p.sn < minSN
    <3>1. CASE Extremes(PacketArray', minSN', maxSN')
      BY <2>2, <3>1 DEF Extremes, SN
    <3>2. CASE Extended(sn, minSN', maxSN')
      BY <2>1, <2>2, <3>2 DEF Extended, SN
    <3> QED
      BY <1>1, <3>1, <3>2 DEF Receive
  <2>4. \A p \in PacketArray' :
          p.sn < minSN' => \E i \in 1 .. Len(sent') : sent'[i].sn = p.sn
    BY <1>1, <2>3 DEF Receive
  <2>5. minSN' # NotSet
    BY <2>2 DEF NotSet, SN
  <2>6. pc' = "recv" => firstFlag'
    BY <1>1 DEF Receive
  <2> QED
    BY <2>3, <2>4, <2>5, <2>6
<1>2. CASE Forward
  <2>1. PICK p \in PacketArray :
          /\ p.sn = minSN
          /\ sent' = Append(sent, p)
          /\ PacketArray' = PacketArray \ {p}
    BY <1>2 DEF Forward, Found
  <2>2. /\ minSN' = minSN + 1 /\ maxSN' = maxSN /\ pc' = "drain"
        /\ minSN \in Nat /\ p \in Packet
        /\ \A q \in PacketArray : q.sn \in Nat
    BY <1>2 DEF Forward, TypeOK, NotSet, SN, Packet
  <2>3. /\ Len(sent') = Len(sent) + 1
        /\ \A i \in 1 .. Len(sent) : sent'[i] = sent[i]
        /\ sent'[Len(sent) + 1] = p
        /\ Len(sent) \in Nat
    BY <2>1, <2>2, Appended DEF TypeOK
  <2>4. ASSUME NEW q \in PacketArray', q.sn < minSN'
        PROVE  \E i \in 1 .. Len(sent') : sent'[i].sn = q.sn
    <3>1. CASE q.sn = minSN
      BY <2>1, <2>3, <3>1
    <3>2. CASE q.sn < minSN
      BY <2>1, <2>3, <3>2
    <3> QED
      BY <2>1, <2>2, <2>4, <3>1, <3>2
  <2> QED
    BY <2>1, <2>2, <2>4 DEF NotSet
<1>3. CASE DrainDone
  <2>1. PacketArray \subseteq Packet /\ minSN \in Int /\ maxSN \in Int
    BY DEF TypeOK, NotSet, SN
  <2>2. \A p \in Packet : p.sn \in Int
    BY DEF Packet, SN
  <2> QED
    BY <1>3, <2>1, <2>2 DEF DrainDone
<1>4. CASE Leave
  BY <1>4 DEF Leave
<1>5. CASE Stop
  BY <1>5 DEF Stop
<1>6. CASE UNCHANGED vars
  BY <1>6 DEF vars
<1> QED
  BY <1>1, <1>2, <1>3, <1>4, <1>5, <1>6 DEF Next, Loop, Ended

LEMMA LoopCorrect == Spec => []LoopInv
  BY LoopInit, LoopStep, TypeCorrect, PTL DEF Spec

\* The loop passes over duplicates only.
THEOREM OnlyDuplicatesCorrect == Spec => []OnlyDuplicatesLeftBehind
<1>1. LoopInv => OnlyDuplicatesLeftBehind
  BY DEF LoopInv
<1> QED
  BY <1>1, LoopCorrect, PTL

\* The output stalls only for a number that is not in the queue.
THEOREM StallIsForMissingCorrect == Spec => []StallIsForMissing
<1>1. LoopInv => StallIsForMissing
  BY DEF LoopInv
<1> QED
  BY <1>1, LoopCorrect, PTL
-----------------------------------------------------------------------------
(* No packet is lost and none is forwarded twice.                          *)

\* The ranks of arrival identify the packets.
OnceInv ==
  /\ \A p \in PacketArray : p.n \in 1 .. arrived
  /\ \A p, q \in PacketArray : p.n = q.n => p = q
  /\ \A i \in 1 .. Len(sent) : sent[i].n \in 1 .. arrived
  /\ EachPacketOnce

LEMMA OnceInit == Init => OnceInv
  BY DEF Init, OnceInv, EachPacketOnce

LEMMA OnceStep == TypeOK /\ OnceInv /\ [Next]_vars => OnceInv'
<1> SUFFICES ASSUME TypeOK, OnceInv, [Next]_vars PROVE OnceInv'
  OBVIOUS
<1>1. arrived \in Nat /\ Len(sent) \in Nat
  BY MaxArrivalsAssumption DEF TypeOK
<1>2. ASSUME NEW sn \in SN, Receive(sn) PROVE OnceInv'
  <2> DEFINE new == [sn |-> sn, n |-> arrived + 1]
  <2>1. /\ PacketArray' = PacketArray \union {new} /\ new.n = arrived + 1
        /\ sent' = sent /\ arrived' = arrived + 1
    BY <1>2 DEF Receive
  <2> HIDE DEF new
  <2>2. \A p \in PacketArray : p.n # new.n
    BY <1>1, <2>1 DEF OnceInv
  <2>3. \A p \in PacketArray' : p.n \in 1 .. arrived'
    BY <1>1, <2>1 DEF OnceInv
  <2>4. \A p, q \in PacketArray' : p.n = q.n => p = q
    BY <2>1, <2>2 DEF OnceInv
  <2>5. \A i \in 1 .. Len(sent') : sent'[i].n \in 1 .. arrived'
    BY <1>1, <2>1 DEF OnceInv
  <2>6. ASSUME NEW n \in 1 .. arrived'
        PROVE  \/ /\ \E p \in PacketArray' : p.n = n
                  /\ \A i \in 1 .. Len(sent') : sent'[i].n # n
               \/ /\ \A p \in PacketArray' : p.n # n
                  /\ \E i \in 1 .. Len(sent') :
                       /\ sent'[i].n = n
                       /\ \A j \in 1 .. Len(sent') : sent'[j].n = n => j = i
    <3>1. CASE n = arrived + 1
      BY <1>1, <2>1, <3>1 DEF OnceInv
    <3>2. CASE n \in 1 .. arrived
      BY <1>1, <2>1, <3>2 DEF OnceInv, EachPacketOnce
    <3>3. n = arrived + 1 \/ n \in 1 .. arrived
      BY ONLY <1>1, <2>1, n \in 1 .. arrived'
    <3> QED
      BY <3>1, <3>2, <3>3
  <2> QED
    BY <2>3, <2>4, <2>5, <2>6 DEF OnceInv, EachPacketOnce
<1>3. CASE Forward
  <2>1. PICK p \in PacketArray :
          sent' = Append(sent, p) /\ PacketArray' = PacketArray \ {p}
    BY <1>3 DEF Forward
  <2>2. /\ Len(sent') = Len(sent) + 1
        /\ \A i \in 1 .. Len(sent) : sent'[i] = sent[i]
        /\ sent'[Len(sent) + 1] = p
    BY <2>1, Appended DEF TypeOK
  <2>3. arrived' = arrived
    BY <1>3 DEF Forward
  <2>4. \A i \in 1 .. Len(sent') : i \in 1 .. Len(sent) \/ i = Len(sent) + 1
    BY <1>1, <2>2
  <2>5. \A i \in 1 .. Len(sent') : sent'[i].n \in 1 .. arrived'
    BY <2>2, <2>3, <2>4 DEF OnceInv
  <2>6. ASSUME NEW n \in 1 .. arrived'
        PROVE  \/ /\ \E q \in PacketArray' : q.n = n
                  /\ \A i \in 1 .. Len(sent') : sent'[i].n # n
               \/ /\ \A q \in PacketArray' : q.n # n
                  /\ \E i \in 1 .. Len(sent') :
                       /\ sent'[i].n = n
                       /\ \A j \in 1 .. Len(sent') : sent'[j].n = n => j = i
    <3>1. CASE n = p.n
      <4>1. \A i \in 1 .. Len(sent) : sent[i].n # n
        BY <2>3, <3>1 DEF OnceInv, EachPacketOnce
      <4>2. \A q \in PacketArray' : q.n # n
        BY <2>1, <3>1 DEF OnceInv
      <4>3. Len(sent) + 1 \in 1 .. Len(sent')
        BY <1>1, <2>2
      <4>4. \A j \in 1 .. Len(sent') : sent'[j].n = n => j = Len(sent) + 1
        BY <2>2, <2>4, <4>1
      <4> QED
        BY <2>2, <3>1, <4>2, <4>3, <4>4
    <3>2. CASE n # p.n /\ \E q \in PacketArray : q.n = n
      <4>1. \A i \in 1 .. Len(sent) : sent[i].n # n
        BY <2>3, <3>2 DEF OnceInv, EachPacketOnce
      <4> QED
        BY <2>1, <2>2, <2>4, <3>2, <4>1
    <3>3. CASE n # p.n /\ \A q \in PacketArray : q.n # n
      <4>1. PICK i \in 1 .. Len(sent) :
              /\ sent[i].n = n
              /\ \A j \in 1 .. Len(sent) : sent[j].n = n => j = i
        BY <2>3, <3>3 DEF OnceInv, EachPacketOnce
      <4>2. i \in 1 .. Len(sent') /\ sent'[i].n = n
        BY <1>1, <2>2, <4>1
      <4>3. \A j \in 1 .. Len(sent') : sent'[j].n = n => j = i
        BY <2>2, <2>4, <3>3, <4>1
      <4> QED
        BY <2>1, <3>3, <4>2, <4>3
    <3> QED
      BY <3>1, <3>2, <3>3
  <2> QED
    BY <2>1, <2>3, <2>5, <2>6 DEF OnceInv, EachPacketOnce
<1>4. CASE UNCHANGED <<PacketArray, arrived, sent>>
  BY <1>4 DEF OnceInv, EachPacketOnce
<1> QED
  BY <1>2, <1>3, <1>4 DEF Next, Loop, DrainDone, Leave, Stop, Ended, vars

\* Each packet received is either queued or has been forwarded, once.
THEOREM EachPacketOnceCorrect == Spec => []EachPacketOnce
<1>1. OnceInv => EachPacketOnce
  BY DEF OnceInv
<1> QED
  BY <1>1, OnceInit, OnceStep, TypeCorrect, PTL DEF Spec

-----------------------------------------------------------------------------
(* RtpStream: the receiver behind a timely network.                        *)

LEMMA StreamImpliesSpec == StreamSpec => Spec
<1>1. [StreamNext]_streamVars => [Next]_vars
  BY DEF StreamNext, Next, Arrival, streamVars
<1>2. StreamInit => Init
  BY DEF StreamInit
<1> QED
  BY <1>1, <1>2, PTL DEF StreamSpec, Spec

-----------------------------------------------------------------------------
(* The inductive invariant.                                                *)

\* What is queued does not lie below minSN, and no number is queued twice.
\* Nothing is out while the first batch is being collected.
StreamInv ==
  /\ NothingLeftBehind
  /\ minSN = NotSet => PacketArray = {} /\ sent = <<>>
  /\ \A p, q \in PacketArray : p.sn = q.sn => p = q
  /\ firstFlag => sent = <<>> /\ pc # "drain"

LEMMA StreamInvInit == StreamInit => StreamInv
  BY DEF StreamInit, Init, StreamInv, NothingLeftBehind

LEMMA StreamStep == TypeOK /\ TypeOK' /\ StreamInv /\ [StreamNext]_streamVars => StreamInv'
<1> SUFFICES ASSUME TypeOK, TypeOK', StreamInv, [StreamNext]_streamVars PROVE StreamInv'
  OBVIOUS
<1> USE DEF StreamInv, NothingLeftBehind
<1>1. /\ \A p \in PacketArray : p.sn \in Nat
      /\ \A p \in PacketArray' : p.sn \in Nat
      /\ minSN \in Int /\ minSN' \in Int
  <2>1. \A p \in Packet : p.sn \in Nat
    BY DEF Packet, SN
  <2> QED
    BY <2>1, SNMaxAssumption DEF TypeOK, SN, NotSet
<1>2. ASSUME NEW sn \in SN, Arrival(sn) PROVE StreamInv'
  <2> DEFINE new == [sn |-> sn, n |-> arrived + 1]
  <2>1. /\ PacketArray' = PacketArray \union {new} /\ new.sn = sn /\ sent' = sent
        /\ sn \in Nat
    BY <1>2 DEF Arrival, Receive, SN
  <2>2. \A p \in PacketArray' : p.sn >= minSN'
    <3>1. CASE Extremes(PacketArray', minSN', maxSN')
      BY <1>1, <3>1 DEF Extremes
    <3>2. CASE Extended(sn, minSN', maxSN')
      BY <1>1, <2>1, <3>2 DEF Extended, NotSet
    <3> QED
      BY <1>2, <3>1, <3>2 DEF Arrival, Receive
  <2>3. \A p, q \in PacketArray' : p.sn = q.sn => p = q
    BY <1>2, <2>1 DEF Arrival, NotQueued
  <2>4. firstFlag' => sent' = <<>> /\ pc' # "drain"
    BY <1>2 DEF Arrival, Receive, TypeOK
  <2>5. minSN' # NotSet
    BY <1>2 DEF Arrival, Receive, SN, NotSet
  <2> QED
    BY <2>2, <2>3, <2>4, <2>5
<1>3. CASE Forward
  <2>1. PICK p \in PacketArray :
          /\ p.sn = minSN
          /\ sent' = Append(sent, p)
          /\ PacketArray' = PacketArray \ {p}
    BY <1>3 DEF Forward, Found
  <2>2. minSN' = minSN + 1 /\ pc = "drain" /\ firstFlag' = firstFlag
    BY <1>3 DEF Forward
  <2>3. \A q \in PacketArray' : q.sn >= minSN'
    <3> SUFFICES ASSUME NEW q \in PacketArray' PROVE q.sn >= minSN'
      OBVIOUS
    <3>1. q.sn # minSN /\ q.sn >= minSN
      BY <2>1
    <3> QED
      BY <1>1, <2>2, <3>1
  <2>4. minSN' # NotSet
    BY <1>1, <2>1, <2>2 DEF NotSet
  <2> QED
    BY <2>1, <2>2, <2>3, <2>4
<1>4. CASE UNCHANGED <<PacketArray, minSN, sent, firstFlag>> /\ (pc' = pc \/ pc' # "drain")
  BY <1>4
<1> QED
  BY <1>2, <1>3, <1>4 DEF StreamNext, Loop, DrainDone, Leave, Stop, Ended, vars, streamVars

\* The positions: what is queued belongs to the current round; what is out lies
\* before number minSN of that round.
PositionInv ==
  /\ base \in Nat /\ base <= LastRound
  /\ position \in Seq(Nat) /\ Len(position) = arrived
  /\ \A p \in PacketArray : p.n \in 1 .. arrived /\ position[p.n] = base + p.sn
  /\ \A i \in 1 .. Len(sent) :
       sent[i].n \in 1 .. arrived /\ position[sent[i].n] < base + minSN

LEMMA PositionInit == StreamInit => PositionInv
  BY LastRoundAssumption DEF StreamInit, Init, PositionInv

LEMMA PositionAppended ==
  ASSUME NEW s \in Seq(Nat), NEW x \in Nat
  PROVE  /\ Append(s, x) \in Seq(Nat)
         /\ Len(Append(s, x)) = Len(s) + 1
         /\ \A i \in 1 .. Len(s) : Append(s, x)[i] = s[i] /\ s[i] \in Nat
         /\ Append(s, x)[Len(s) + 1] = x
  OBVIOUS

\* A packet of the current round does not pull minSN back.
LEMMA MinGrows ==
  ASSUME TypeOK, TypeOK', NothingLeftBehind, NEW sn \in SN, sn >= minSN, Receive(sn),
         minSN # NotSet
  PROVE  minSN' >= minSN
<1>1. /\ \A p \in PacketArray' : p.sn >= minSN
      /\ sn \in Nat /\ minSN \in Int
  BY SNMaxAssumption DEF Receive, NothingLeftBehind, TypeOK, SN, NotSet
<1>2. CASE Extremes(PacketArray', minSN', maxSN')
  BY <1>1, <1>2 DEF Extremes
<1>3. CASE Extended(sn, minSN', maxSN')
  BY <1>1, <1>3 DEF Extended
<1> QED
  BY <1>2, <1>3 DEF Receive

LEMMA SumIsNat ==
  ASSUME NEW a \in Nat, NEW b \in Nat
  PROVE  a + b \in Nat
OBVIOUS

LEMMA PositionStep ==
  TypeOK /\ TypeOK' /\ StreamInv /\ PositionInv /\ [StreamNext]_streamVars => PositionInv'
<1> SUFFICES ASSUME TypeOK, TypeOK', StreamInv, PositionInv, [StreamNext]_streamVars
             PROVE  PositionInv'
  OBVIOUS
<1>1. /\ minSN \in Int /\ minSN <= SNMax + 1 /\ arrived \in Nat /\ SNMax \in Nat
      /\ \A p \in PacketArray : p \in Packet /\ p.sn \in Nat
  BY SNMaxAssumption, MaxArrivalsAssumption DEF TypeOK, SN, NotSet, Packet
<1>2. ASSUME NEW sn \in SN, Arrival(sn) PROVE PositionInv'
  <2> DEFINE new == [sn |-> sn, n |-> arrived + 1]
  <2>1. /\ PacketArray' = PacketArray \union {new} /\ sent' = sent
        /\ arrived' = arrived + 1 /\ minSN' \in Nat /\ sn \in Nat
    BY <1>2 DEF Arrival, Receive, SN
  <2>2. base' \in Nat /\ base' <= LastRound
    BY <1>1, <1>2 DEF Arrival, PositionInv
  <2>3. /\ position' \in Seq(Nat) /\ Len(position') = arrived'
        /\ \A n \in 1 .. arrived : position'[n] = position[n] /\ position[n] \in Nat
        /\ position'[arrived + 1] = base' + sn
    <3> DEFINE x == base' + sn
    <3>1. x \in Nat
      BY <2>1, <2>2, SumIsNat
    <3>2. /\ position \in Seq(Nat) /\ Len(position) = arrived
          /\ position' = Append(position, x)
      BY <1>2 DEF Arrival, PositionInv
    <3> HIDE DEF x
    <3>3. /\ position' \in Seq(Nat) /\ Len(position') = arrived'
          /\ \A n \in 1 .. arrived : position'[n] = position[n] /\ position[n] \in Nat
          /\ position'[arrived + 1] = x
      BY <2>1, <3>1, <3>2, PositionAppended
    <3> QED
      BY <3>3 DEF x
  <2>4. \A p \in PacketArray' : p.n \in 1 .. arrived' /\ position'[p.n] = base' + p.sn
    <3>1. new.n \in 1 .. arrived' /\ position'[new.n] = base' + new.sn
      BY <1>1, <2>1, <2>3
    <3>2. ASSUME NEW p \in PacketArray
          PROVE  p.n \in 1 .. arrived' /\ position'[p.n] = base' + p.sn
      <4>1. base' = base
        BY <1>2, <3>2 DEF Arrival, NewRound
      <4> QED
        BY <1>1, <2>1, <2>3, <3>2, <4>1 DEF PositionInv
    <3> QED
      BY <2>1, <3>1, <3>2
  <2>5. ASSUME NEW i \in 1 .. Len(sent)
        PROVE  sent[i].n \in 1 .. arrived' /\ position'[sent[i].n] < base' + minSN'
    <3>1. ~ firstFlag /\ minSN # NotSet
      <4>1. sent # <<>>
        BY <2>5
      <4> QED
        BY <4>1 DEF StreamInv
    <3>2. /\ sent[i].n \in 1 .. arrived
          /\ position'[sent[i].n] < base + minSN
          /\ position'[sent[i].n] \in Nat
      BY <2>3, <2>5 DEF PositionInv
    <3>3. base \in Nat
      BY DEF PositionInv
    <3>4. CASE sn >= minSN /\ base' = base
      <4>1. minSN' >= minSN
        BY <1>2, <3>1, <3>4, MinGrows DEF StreamInv, Arrival
      <4> QED
        BY ONLY <1>1, <2>1, <3>2, <3>3, <3>4, <4>1
    <3>5. CASE base' = base + SNMax + 1
      BY ONLY <1>1, <2>1, <3>2, <3>3, <3>5
    <3> QED
      BY <1>1, <1>2, <2>1, <3>1, <3>2, <3>4, <3>5 DEF Arrival, OnTime
  <2> QED
    BY <2>1, <2>2, <2>3, <2>4, <2>5 DEF PositionInv
<1>3. CASE Forward /\ UNCHANGED <<base, position>>
  <2>1. PICK p \in PacketArray :
          /\ p.sn = minSN
          /\ sent' = Append(sent, p)
          /\ PacketArray' = PacketArray \ {p}
    BY <1>3 DEF Forward, Found
  <2>2. minSN' = minSN + 1 /\ arrived' = arrived /\ base' = base /\ position' = position
    BY <1>3 DEF Forward
  <2>3. /\ Len(sent) \in Nat
        /\ Len(sent') = Len(sent) + 1
        /\ \A i \in 1 .. Len(sent) : sent'[i] = sent[i]
        /\ sent'[Len(sent) + 1] = p
    BY <1>1, <2>1, Appended DEF TypeOK
  <2>4. ASSUME NEW i \in 1 .. Len(sent')
        PROVE  sent'[i].n \in 1 .. arrived /\ position[sent'[i].n] < base + minSN + 1
    <3>1. CASE i = Len(sent) + 1
      BY <1>1, <2>1, <2>3, <3>1 DEF PositionInv
    <3>2. CASE i \in 1 .. Len(sent)
      <4>1. sent'[i].n \in 1 .. arrived /\ position[sent'[i].n] < base + minSN
        BY <2>3, <3>2 DEF PositionInv
      <4>2. position[sent'[i].n] \in Nat /\ base \in Nat
        BY <4>1 DEF PositionInv
      <4> QED
        BY <1>1, <4>1, <4>2
    <3> QED
      BY <2>3, <2>4, <3>1, <3>2
  <2> QED
    BY <1>1, <2>1, <2>2, <2>4 DEF PositionInv
<1>4. CASE UNCHANGED <<PacketArray, minSN, sent, arrived, base, position>>
  BY <1>4 DEF PositionInv
<1> QED
  BY <1>2, <1>3, <1>4 DEF StreamNext, Loop, DrainDone, Leave, Stop, Ended, vars, streamVars

LEMMA StreamCorrect == StreamSpec => [](TypeOK /\ StreamInv /\ PositionInv)
  BY StreamImpliesSpec, TypeCorrect, StreamInvInit, StreamStep, PositionInit, PositionStep, PTL
     DEF StreamSpec

\* No packet is passed over by the loop.
THEOREM NothingLeftBehindCorrect == StreamSpec => []NothingLeftBehind
<1>1. StreamInv => NothingLeftBehind
  BY DEF StreamInv
<1> QED
  BY <1>1, StreamCorrect, PTL

-----------------------------------------------------------------------------
(* The refinement.                                                         *)

Out == [i \in 1 .. Len(sent) |-> position[sent[i].n]]

Positions == 0 .. LastRound + SNMax

LEMMA OutputInit == StreamInit => Output!Init
  BY DEF StreamInit, Init, Output!Init

LEMMA OutputStep ==
  TypeOK /\ PositionInv /\ PositionInv' /\ [StreamNext]_streamVars => [Output!Next]_Out
<1> SUFFICES ASSUME TypeOK, PositionInv, PositionInv', [StreamNext]_streamVars
             PROVE  Output!Next \/ Out' = Out
  OBVIOUS
<1>1. CASE Forward /\ UNCHANGED <<base, position>>
  <2>1. PICK p \in PacketArray : p.sn = minSN /\ sent' = Append(sent, p)
    BY <1>1 DEF Forward, Found
  <2>2. /\ p \in Packet /\ p.sn \in SN
        /\ p.n \in 1 .. arrived /\ position[p.n] = base + minSN
    BY <2>1 DEF TypeOK, Packet, PositionInv
  <2>3. /\ Len(sent) \in Nat
        /\ Len(sent') = Len(sent) + 1
        /\ \A i \in 1 .. Len(sent) : sent'[i] = sent[i]
        /\ sent'[Len(sent) + 1] = p
    BY <2>1, <2>2, Appended DEF TypeOK
  <2> DEFINE x == base + minSN
  <2>4. x \in Positions
    BY <2>1, <2>2, SNMaxAssumption, LastRoundAssumption DEF PositionInv, SN, Positions
  <2>5. \A i \in 1 .. Len(sent) : Out[i] < x
    BY DEF PositionInv, Out
  <2>6. Out \in Seq(Nat) /\ Len(Out) = Len(sent)
    <3>1. \A i \in 1 .. Len(sent) : position[sent[i].n] \in Nat
      BY DEF PositionInv
    <3> QED
      BY <2>3, <3>1 DEF Out
  <2>7. Out' = Append(Out, x)
    <3>1. Out' = [i \in 1 .. Len(sent) + 1 |-> IF i = Len(sent) + 1 THEN x ELSE Out[i]]
      BY <1>1, <2>2, <2>3 DEF Out
    <3> QED
      BY <2>3, <2>6, <3>1
  <2> QED
    BY <2>4, <2>5, <2>6, <2>7 DEF Output!Next, Output!Forward, Out, Positions
<1>2. CASE sent' = sent /\ position' = position
  BY <1>2 DEF Out
<1>3. ASSUME NEW sn \in SN, Arrival(sn) PROVE Out' = Out
  <2> DEFINE x == base' + sn
  <2>1. x \in Nat
    <3>1. base' \in Nat /\ sn \in Nat
      BY DEF PositionInv, SN
    <3> QED
      BY <3>1, SumIsNat
  <2>2. sent' = sent /\ position' = Append(position, x)
    BY <1>3 DEF Arrival, Receive
  <2> HIDE DEF x
  <2>3. \A i \in 1 .. Len(sent) : position'[sent[i].n] = position[sent[i].n]
    BY <2>1, <2>2, PositionAppended DEF PositionInv
  <2> QED
    BY <2>2, <2>3 DEF Out
<1> QED
  BY <1>1, <1>2, <1>3 DEF StreamNext, Loop, DrainDone, Leave, Stop, Ended, vars, streamVars

\* Behind a network that brings no packet twice and none too late, whatever is
\* lost, the transcoder is fed in the order in which the camera sent, also when
\* the sequence numbers wrap around, provided that the queue is empty then.
THEOREM StreamIsOrderedCorrect == StreamSpec => StreamIsOrdered
  BY OutputInit, OutputStep, StreamCorrect, PTL DEF StreamSpec, StreamIsOrdered, Output!Spec, Out
=============================================================================
