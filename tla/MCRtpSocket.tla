----------------------------- MODULE MCRtpSocket -----------------------------
(* RtpSocket for TLC. The objects are alike, and so are the numbers. *)
EXTENDS RtpSocket, TLC

Symmetry == Permutations(Objects) \union Permutations(Handles)
=============================================================================
