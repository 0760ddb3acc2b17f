------------------------- MODULE MCCameraSessions -------------------------
(* Instances of CameraSessions for TLC. *)
EXTENDS CameraSessions, TLC

\* The two cameras play the same part in every action and safety property.
CameraSymmetry == Permutations(Cameras)
=============================================================================
