---------------------------- MODULE OrderedOutput ----------------------------
(***************************************************************************)
(* What a transcoder may hope for from rtp_socket: a stream of sequence    *)
(* numbers that only ever grow. Numbers may be missing; none comes twice   *)
(* and none comes late.                                                    *)
(***************************************************************************)
EXTENDS Naturals, Sequences

CONSTANT SN   \* the sequence numbers

VARIABLE out  \* the sequence numbers forwarded, in order

Init == out = <<>>

Forward(sn) ==
  /\ \A i \in 1 .. Len(out) : out[i] < sn
  /\ out' = Append(out, sn)

Next == \E sn \in SN : Forward(sn)

Spec == Init /\ [][Next]_out
=============================================================================
