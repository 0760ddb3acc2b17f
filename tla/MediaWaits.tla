----------------------------- MODULE MediaWaits -----------------------------
(***************************************************************************)
(* CameraSessions with the waits of the media threads that no stop ends,   *)
(* and the liveness of the sessions.                                       *)
(*                                                                         *)
(*   - A transcoder may be in a call on its output: avio_open2,            *)
(*     avformat_write_header, av_interleaved_write_frame. Only the input   *)
(*     has interruptReadFrame, so a streaming server that does not answer  *)
(*     keeps the thread, stopped or not (FfmpegToWeb has it step by step). *)
(*   - A receiver that a stop finds between its test of m_bExitThread and  *)
(*     its recvfrom calls recvfrom on a number that has been closed, and   *)
(*     may be another socket's by then: it waits for a datagram there      *)
(*     (RtpSocket has it step by step).                                    *)
(***************************************************************************)
EXTENDS CameraSessions

VARIABLES
  sending,  \* entries with a transcoder in a call on its output
  astray    \* entries with a receiver that a stop found before recvfrom

waits == <<sending, astray>>

WaitInit == Init /\ sending = {} /\ astray = {}

\* The entries whose receivers a step tells to end.
ToldToEnd(e) == e \in receivers /\ m_pCallInfo[e] # "exit" /\ m_pCallInfo'[e] = "exit"

\* A step of CameraSessions. A stop finds a receiver before recvfrom or in it,
\* where closing the socket ends the call. A thread that has ended waits no more.
SessionStep ==
  /\ Next
  /\ sending' = {e \in sending : transcoders'[e] > 0}
  /\ \E found \in SUBSET {e \in Entries : ToldToEnd(e)} :
       astray' = (astray \union found) \intersect receivers'

CallOutput(e) ==
  /\ ~ crashed
  /\ transcoders[e] > 0
  /\ sending' = sending \union {e}
  /\ UNCHANGED <<vars, astray>>

\* A call on the output returns and the thread goes on to its input. Once
\* m_bIsRunning is cleared it makes no more than the calls it is about to make
\* and then ends, which is TranscoderExit.
OutputReturns(e) ==
  /\ ~ crashed
  /\ e \in sending
  /\ m_bIsRunning[e]
  /\ sending' = sending \ {e}
  /\ UNCHANGED <<vars, astray>>

WaitNext == SessionStep \/ \E e \in Entries : CallOutput(e) \/ OutputReturns(e)

allVars == <<vars, waits>>

WaitSpec == WaitInit /\ [][WaitNext]_allVars

\* The HTTP thread finishes the request it works on, and the SIP thread polls
\* for ever. A transcoder told to stop ends if it is in no call on its output, as
\* interruptReadFrame ends those on its input; and so does a receiver that does
\* not wait at a closed number. Clients, peers and streaming servers owe nothing.
Fairness ==
  /\ WF_allVars(~ crashed /\ HttpStep /\ SessionStep)
  /\ WF_allVars(~ crashed /\ SipStep /\ SessionStep)
  /\ \A e \in Entries :
       /\ WF_allVars(/\ ~ crashed /\ ~ m_bIsRunning[e] /\ e \notin sending
                     /\ TranscoderExit(e) /\ SessionStep)
       /\ WF_allVars(/\ ~ crashed /\ m_pCallInfo[e] = "exit" /\ e \notin astray
                     /\ ReceiverExit(e) /\ SessionStep)

FairSpec == WaitSpec /\ Fairness

-----------------------------------------------------------------------------
(* Properties.                                                             *)

\* Every answered INVITE is acknowledged: whatever the HTTP thread does to the
\* list, the SIP thread comes to the end of its walk and to the next answer.
AnswerIsAcknowledged ==
  \A c \in Entries : invite[c] = "answered" ~> invite[c] # "answered" \/ crashed

\* After the stop of a well-timed camera its transcoder ends, or it is in a call
\* on its output, which no stop interrupts; and its receivers end, or one was
\* before recvfrom when the stop closed its socket and is still there. Nothing
\* else keeps a media thread, and in particular no start that overtakes the stop.
\* (A transcoder that takes the process down with it, see FfmpegToWeb, ends all.)
StopEndsMedia ==
  \A e \in Entries :
    Erased(e) ~> \/ /\ transcoders[e] = 0 \/ e \in sending
                    /\ e \notin receivers \/ e \in astray
                 \/ ~ WellTimed(strCamId[e])
                 \/ crashed
=============================================================================
