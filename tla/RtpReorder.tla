----------------------------- MODULE RtpReorder -----------------------------
(***************************************************************************)
(* The reordering of RTP packets in rtp_socket::sMediaReceiverProc.        *)
(*                                                                         *)
(* The thread receives datagrams from the camera and forwards each payload *)
(* to its transcoder, in the order of the sequence numbers as far as it    *)
(* can. It first collects a batch, then forwards, after every packet, the  *)
(* run of consecutive numbers that starts at minSN; if the queue fills up, *)
(* it takes the smallest number queued for the new minSN.                  *)
(*                                                                         *)
(* A packet is its sequence number and the rank of its arrival; the queue, *)
(* a std::list in the order of arrival, is the set of its packets. The     *)
(* network may lose, duplicate and reorder packets at will. Datagrams too  *)
(* short for an RTP header are dropped at once and are left out, as is the *)
(* saving of the video to a file, which main.cpp never turns on.           *)
(***************************************************************************)
EXTENDS Integers, Sequences, FiniteSets

CONSTANTS
  FirstBatch,    \* packets collected before the first is forwarded (100)
  MaxQueueSize,  \* queue length at which minSN is sought again (1000)
  SNMax,         \* largest sequence number (65535)
  MaxArrivals    \* bound on the packets of a behaviour

ASSUME FirstBatchAssumption == FirstBatch \in Nat
ASSUME MaxQueueSizeAssumption == MaxQueueSize \in Nat /\ FirstBatch < MaxQueueSize
ASSUME SNMaxAssumption == SNMax \in Nat
ASSUME MaxArrivalsAssumption == MaxArrivals \in Nat

VARIABLES
  PacketArray,    \* packets received and not yet forwarded
  minSN,          \* next sequence number to forward, NotSet before the first
  maxSN,          \* largest sequence number to look for
  firstFlag,      \* the first batch is being collected
  m_bExitThread,  \* set by rtp_socket::stop
  pc,             \* "recv": before recvfrom; "drain": in the forwarding loop
  arrived,        \* number of packets received
  sent            \* packets forwarded with sendto, in order

vars == <<PacketArray, minSN, maxSN, firstFlag, m_bExitThread, pc, arrived, sent>>

SN == 0 .. SNMax
NotSet == -1

Packet == [sn : SN, n : Nat]

\* Mutant: the search for a new minSN takes the largest number for it.
ExtremesSwapped(q, lo, hi) ==
  /\ \E p \in q : p.sn = lo
  /\ hi = lo
  /\ \A p \in q : p.sn <= lo

\* lo and hi are the extreme sequence numbers of the packets in q.
Extremes(q, lo, hi) ==
  /\ \E p \in q : p.sn = lo
  /\ \E p \in q : p.sn = hi
  /\ \A p \in q : lo <= p.sn /\ p.sn <= hi

\* The bounds of the forwarding loop after the arrival of sn, queue not full.
\* Mutant: minSN does not follow a packet that arrives late.
ExtendedUpwards(sn, lo, hi) ==
  /\ lo = (IF minSN = NotSet THEN sn ELSE minSN)
  /\ hi = (IF sn > maxSN THEN sn ELSE maxSN)

Extended(sn, lo, hi) ==
  /\ lo = (IF minSN = NotSet \/ sn < minSN THEN sn ELSE minSN)
  /\ hi = (IF sn > maxSN THEN sn ELSE maxSN)

\* Mutant: the size is tested for equality with the limit plus one.
FullTooLate(q) == Cardinality(q) = MaxQueueSize + 1

Full(q) == Cardinality(q) >= MaxQueueSize

-----------------------------------------------------------------------------
\* One turn of the loop up to the forwarding: recvfrom, push_back, the new
\* minSN and maxSN. A stop during recvfrom is one right after it.
Receive(sn) ==
  /\ pc = "recv"
  /\ ~ m_bExitThread
  /\ arrived < MaxArrivals
  /\ arrived' = arrived + 1
  /\ PacketArray' = PacketArray \union {[sn |-> sn, n |-> arrived + 1]}
  /\ firstFlag' = (firstFlag /\ Cardinality(PacketArray') <= FirstBatch)
  /\ minSN' \in SN
  /\ maxSN' \in SN
  /\ IF ~ firstFlag' /\ Full(PacketArray')
     THEN Extremes(PacketArray', minSN', maxSN')
     ELSE Extended(sn, minSN', maxSN')
  /\ pc' = IF firstFlag' THEN "recv" ELSE "drain"
  /\ UNCHANGED <<m_bExitThread, sent>>

\* The packet found for number sn: the first of the list that has it.
Found(p, sn) ==
  /\ p \in PacketArray
  /\ p.sn = sn
  /\ \A q \in PacketArray : q.sn = sn => p.n <= q.n

\* Mutant: the packet is forwarded and stays in the queue.
ForwardCopy ==
  /\ pc = "drain"
  /\ ~ m_bExitThread
  /\ minSN <= maxSN
  /\ \E p \in PacketArray :
       /\ Found(p, minSN)
       /\ sent' = Append(sent, p)
  /\ minSN' = minSN + 1
  /\ UNCHANGED <<PacketArray, maxSN, firstFlag, m_bExitThread, pc, arrived>>

\* Mutant: minSN skips a number.
ForwardSkips ==
  /\ pc = "drain"
  /\ ~ m_bExitThread
  /\ minSN <= maxSN
  /\ \E p \in PacketArray :
       /\ Found(p, minSN)
       /\ sent' = Append(sent, p)
       /\ PacketArray' = PacketArray \ {p}
  /\ minSN' = minSN + 2
  /\ UNCHANGED <<maxSN, firstFlag, m_bExitThread, pc, arrived>>

\* One turn of the forwarding loop that finds its packet. The loop's sn and
\* minSN advance together.
Forward ==
  /\ pc = "drain"
  /\ ~ m_bExitThread
  /\ minSN <= maxSN
  /\ \E p \in PacketArray :
       /\ Found(p, minSN)
       /\ sent' = Append(sent, p)
       /\ PacketArray' = PacketArray \ {p}
  /\ minSN' = minSN + 1
  /\ UNCHANGED <<maxSN, firstFlag, m_bExitThread, pc, arrived>>

\* Mutant: one packet is forwarded per packet received.
DrainDoneEarly ==
  /\ pc = "drain"
  /\ pc' = "recv"
  /\ UNCHANGED <<PacketArray, minSN, maxSN, firstFlag, m_bExitThread, arrived, sent>>

\* Mutant: the loop does not test m_bExitThread on its way out.
DrainDoneUnstopped ==
  /\ pc = "drain"
  /\ minSN > maxSN \/ \A p \in PacketArray : p.sn # minSN
  /\ pc' = "recv"
  /\ UNCHANGED <<PacketArray, minSN, maxSN, firstFlag, m_bExitThread, arrived, sent>>

\* The loop ends: stopped, past maxSN, or at a number that is missing.
DrainDone ==
  /\ pc = "drain"
  /\ \/ m_bExitThread
     \/ minSN > maxSN
     \/ \A p \in PacketArray : p.sn # minSN
  /\ pc' = "recv"
  /\ UNCHANGED <<PacketArray, minSN, maxSN, firstFlag, m_bExitThread, arrived, sent>>

\* rtp_socket::stop, in the thread of the caller.
Stop ==
  /\ ~ m_bExitThread
  /\ m_bExitThread' = TRUE
  /\ UNCHANGED <<PacketArray, minSN, maxSN, firstFlag, pc, arrived, sent>>

\* The thread ends when it has been stopped or when recvfrom fails.
Leave ==
  /\ pc = "recv"
  /\ pc' = "done"
  /\ UNCHANGED <<PacketArray, minSN, maxSN, firstFlag, m_bExitThread, arrived, sent>>

Ended == pc = "done" /\ UNCHANGED vars

Init ==
  /\ PacketArray = {}
  /\ minSN = NotSet
  /\ maxSN = NotSet
  /\ firstFlag = TRUE
  /\ m_bExitThread = FALSE
  /\ pc = "recv"
  /\ arrived = 0
  /\ sent = <<>>

Loop == Forward \/ DrainDone \/ Leave

Next == (\E sn \in SN : Receive(sn)) \/ Loop \/ Stop \/ Ended

Spec == Init /\ [][Next]_vars

\* The thread runs, and once it is stopped nothing holds it up: recvfrom
\* returns because stop closes the socket.
FairSpec == Spec /\ WF_vars(Forward \/ DrainDone) /\ WF_vars(m_bExitThread /\ Leave)

-----------------------------------------------------------------------------
(* Properties.                                                             *)

\* Type invariant.
TypeOK ==
  /\ PacketArray \subseteq Packet
  /\ minSN \in {NotSet} \union SN \union {SNMax + 1}
  /\ maxSN \in {NotSet} \union SN
  /\ firstFlag \in BOOLEAN
  /\ m_bExitThread \in BOOLEAN
  /\ pc \in {"recv", "drain", "done"}
  /\ arrived \in 0 .. MaxArrivals
  /\ sent \in Seq(Packet)

\* Whatever the network does, the queue never holds more than MaxQueueSize
\* packets, and fewer each time the thread waits for the next one: a full
\* queue always gives at least one packet up.
BoundedQueue ==
  /\ Cardinality(PacketArray) <= MaxQueueSize
  /\ pc = "recv" /\ ~ m_bExitThread => Cardinality(PacketArray) < MaxQueueSize

\* Every packet received is either queued or has been forwarded, once: each
\* payload is freed once, and none is lost while the thread runs.
EachPacketOnce ==
  \A n \in 1 .. arrived :
    \/ /\ \E p \in PacketArray : p.n = n
       /\ \A i \in 1 .. Len(sent) : sent[i].n # n
    \/ /\ \A p \in PacketArray : p.n # n
       /\ \E i \in 1 .. Len(sent) :
            /\ sent[i].n = n
            /\ \A j \in 1 .. Len(sent) : sent[j].n = n => j = i

\* A packet the loop has passed over, which only a full queue or another late
\* packet brings out again, is a duplicate of one already forwarded.
OnlyDuplicatesLeftBehind ==
  \A p \in PacketArray :
    p.sn < minSN => \E i \in 1 .. Len(sent) : sent[i].sn = p.sn

\* The thread never waits for the network with the next packet in its queue:
\* what stalls the output is the absence of number minSN.
StallIsForMissing ==
  pc = "recv" /\ ~ firstFlag /\ ~ m_bExitThread =>
    \A p \in PacketArray : p.sn # minSN

\* Once stopped, the thread ends.
StopIsHeeded == m_bExitThread ~> pc = "done"
=============================================================================
