----------------------------- MODULE LiveCameras -----------------------------
(***************************************************************************)
(* What the gateway promises the clients of /startGb2Rtmp and              *)
(* /stopGb2Rtmp: a set of live cameras, which each request finds and       *)
(* changes in one indivisible step, and a reply that says what it found.   *)
(***************************************************************************)
CONSTANTS
  Cameras,
  None      \* no reply is on its way

VARIABLES live, reply

Init == live = {} /\ reply = None

\* One request is answered at a time.
Answers(cam, text) == reply = None /\ reply' = <<cam, text>>

\* A platform that nobody knows is no error.
Start(cam) ==
  /\ cam \notin live /\ live' \in {live, live \union {cam}}
  /\ Answers(cam, "succeed")

StartAgain(cam) == cam \in live /\ live' = live /\ Answers(cam, "playing")

Stop(cam) == cam \in live /\ live' = live \ {cam} /\ Answers(cam, "stopped")

StopAgain(cam) == cam \notin live /\ live' = live /\ Answers(cam, "not_exist")

Deliver == reply # None /\ reply' = None /\ live' = live

Next ==
  \/ \E cam \in Cameras : Start(cam) \/ StartAgain(cam) \/ Stop(cam) \/ StopAgain(cam)
  \/ Deliver

Spec == Init /\ [][Next]_<<live, reply>>
=============================================================================
