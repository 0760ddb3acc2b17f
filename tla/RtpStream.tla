----------------------------- MODULE RtpStream -----------------------------
(***************************************************************************)
(* The reordering of RtpReorder behind a network that may lose packets and *)
(* reorder them, but brings none twice and none after the thread has gone  *)
(* past its number. The camera numbers its packets in a circle: after      *)
(* SNMax comes 0. The code compares the numbers as they are, so that a     *)
(* smaller number means a late packet, and a wrap-around is safe only if   *)
(* it finds the queue empty. Under these assumptions the output is the one *)
(* OrderedOutput specifies, for positions in the camera's whole stream.    *)
(***************************************************************************)
EXTENDS RtpReorder

CONSTANT LastRound   \* bound on base

ASSUME LastRoundAssumption == LastRound \in Nat

VARIABLES
  base,      \* position in the stream of number 0 of the current round
  position   \* position of each packet received, in order of arrival

streamVars == <<vars, base, position>>

\* The network's promises for packet sn.
OnTime(sn) == firstFlag \/ sn >= minSN
NotQueued(sn) == \A p \in PacketArray : p.sn # sn
NewRound(sn) == ~ firstFlag /\ sn < minSN /\ PacketArray = {}

Arrival(sn) ==
  /\ NotQueued(sn)
  /\ \/ OnTime(sn) /\ base' = base
     \/ NewRound(sn) /\ base' = base + SNMax + 1 /\ base' <= LastRound
  /\ Receive(sn)
  /\ position' = Append(position, base' + sn)

StreamInit == Init /\ base = 0 /\ position = <<>>

StreamNext ==
  \/ \E sn \in SN : Arrival(sn)
  \/ (Loop \/ Stop \/ Ended) /\ UNCHANGED <<base, position>>

StreamSpec == StreamInit /\ [][StreamNext]_streamVars

Output == INSTANCE OrderedOutput WITH
            SN <- 0 .. LastRound + SNMax,
            out <- [i \in 1 .. Len(sent) |-> position[sent[i].n]]

-----------------------------------------------------------------------------
\* The payloads reach the transcoder in the order in which the camera sent
\* them, whatever is lost, however often the queue fills up and however often
\* the numbers wrap around: the thread implements OrderedOutput.
StreamIsOrdered == Output!Spec

\* Every packet queued is one the loop will still come to: none is passed over
\* and left to wait until a full queue brings it out again.
NothingLeftBehind == \A p \in PacketArray : p.sn >= minSN
=============================================================================
