----------------------------- MODULE FfmpegToWeb -----------------------------
(***************************************************************************)
(* The transcoder of one camera, class ffmpeg_to_web: a detached thread    *)
(* opens the stream that rtp_socket forwards by UDP, opens the RTMP output *)
(* and copies packets from one to the other until told to stop.            *)
(*                                                                         *)
(*   - the SIP thread calls start, the HTTP thread stop, in any order;     *)
(*   - stop clears m_bIsRunning. A call on the input asks for it through   *)
(*     interruptReadFrame while it waits; a call on the output does not.   *)
(*                                                                         *)
(* start is called once: CameraSessions shows when. libavformat is modelled *)
(* by what the code relies on: each call that returns a result may fail,   *)
(* and avformat_open_input frees and nulls its context when it does. The   *)
(* picture saved when m_bSaveJPEG is set is left out: nothing sets it.     *)
(***************************************************************************)
EXTENDS Naturals

CONSTANT MaxStreams   \* bound on the streams of the input

ASSUME MaxStreamsAssumption == MaxStreams \in Nat

VARIABLES
  m_bIsRunning,   \* the run flag
  context,        \* what context points to
  outputContext,  \* what outputContext points to
  nb_streams,     \* number of streams of the input ...
  copied,         \* ... and of the output
  stream_index,   \* stream of the packet in hand, counted from 1
  pc,             \* where mainThread is
  crashed,        \* the process died of an access to invalid memory
  stopAt,         \* history: where mainThread was when stop was called
  failed,         \* history: the calls of libavformat that have failed
  lost            \* history: what was opened and no pointer leads to any more

inputVars  == <<context, nb_streams>>
outputVars == <<outputContext, copied>>
history    == <<stopAt, failed, lost>>
vars       == <<m_bIsRunning, inputVars, outputVars, stream_index, pc, crashed, history>>

OpeningInput  == {"alloc_in", "open_in", "info_in", "retry_in"}
OpeningOutput == {"alloc_out", "connect", "header", "retry_out"}
Copying       == {"test", "read", "write"}

\* Calls in which nothing interrupts the thread.
OutputCalls == {"connect", "header", "write"}

Phases == {"idle"} \union OpeningInput \union OpeningOutput \union Copying
          \union {"close", "done"}

-----------------------------------------------------------------------------
\* start: the thread runs mainThread. m_bIsRunning is left as it is.
Start ==
  /\ pc = "idle"
  /\ pc' = "alloc_in"
  /\ UNCHANGED <<m_bIsRunning, inputVars, outputVars, stream_index, crashed, history>>

\* stop, by the HTTP thread.
Stop ==
  /\ m_bIsRunning
  /\ m_bIsRunning' = FALSE
  /\ stopAt' = pc
  /\ UNCHANGED <<inputVars, outputVars, stream_index, pc, crashed, failed, lost>>

\* Mutant: the interrupt callback does not look at the run flag.
InterruptNever == FALSE

\* interruptReadFrame: a call that waits for input is to return.
Interrupted == ~ m_bIsRunning

-----------------------------------------------------------------------------
(* openInputStream.                                                        *)

AllocInput ==
  /\ pc = "alloc_in"
  /\ context' = "allocated"
  /\ nb_streams' = 0
  /\ lost' = IF context = "open" THEN lost \union {"input"} ELSE lost
  /\ pc' = "open_in"
  /\ UNCHANGED <<m_bIsRunning, outputVars, stream_index, crashed, stopAt, failed>>

\* avformat_open_input
OpenInput ==
  /\ pc = "open_in"
  /\ \/ /\ context' = "open"
        /\ pc' = "info_in"
        /\ UNCHANGED failed
     \/ /\ context' = "NULL"
        /\ pc' = "retry_in"
        /\ failed' = failed \union {"open"}
  /\ UNCHANGED <<m_bIsRunning, nb_streams, outputVars, stream_index, crashed,
                 stopAt, lost>>

\* avformat_find_stream_info. The context stays open when it fails.
FindStreams ==
  /\ pc = "info_in"
  /\ nb_streams' \in 0 .. MaxStreams
  /\ \/ /\ pc' = "alloc_out"
        /\ UNCHANGED failed
     \/ /\ pc' = "retry_in"
        /\ failed' = failed \union {"info"}
  /\ UNCHANGED <<m_bIsRunning, context, outputVars, stream_index, crashed,
                 stopAt, lost>>

\* Mutant: opening is tried twice, not until it succeeds.
RetryInputOnce ==
  /\ pc = "retry_in"
  /\ pc' \in {"alloc_in", "alloc_out"}
  /\ UNCHANGED <<m_bIsRunning, inputVars, outputVars, stream_index, crashed, history>>

\* After 50 ms, once more, or on to the output if there has been a stop.
RetryInput ==
  /\ pc = "retry_in"
  /\ pc' = IF m_bIsRunning THEN "alloc_in" ELSE "alloc_out"
  /\ UNCHANGED <<m_bIsRunning, inputVars, outputVars, stream_index, crashed, history>>

-----------------------------------------------------------------------------
(* openOutputStream.                                                       *)

\* What a new output context leaves behind.
Overwritten ==
  CASE outputContext = "allocated" -> {"output"}
    [] outputContext = "connected" -> {"output", "connection"}
    [] OTHER -> {}

\* avformat_alloc_output_context2
AllocOutput ==
  /\ pc = "alloc_out"
  /\ lost' = lost \union Overwritten
  /\ copied' = 0
  /\ \/ /\ outputContext' = "allocated"
        /\ pc' = "connect"
        /\ UNCHANGED failed
     \/ /\ outputContext' = "NULL"
        /\ pc' = "retry_out"
        /\ failed' = failed \union {"alloc"}
  /\ UNCHANGED <<m_bIsRunning, inputVars, stream_index, crashed, stopAt>>

\* avio_open2
Connect ==
  /\ pc = "connect"
  /\ \/ /\ outputContext' = "connected"
        /\ pc' = "header"
        /\ UNCHANGED failed
     \/ /\ pc' = "retry_out"
        /\ failed' = failed \union {"connect"}
        /\ UNCHANGED outputContext
  /\ UNCHANGED <<m_bIsRunning, inputVars, copied, stream_index, crashed, stopAt, lost>>

\* Mutant: a header that could not be written is not reported.
WriteHeaderIgnored ==
  /\ pc = "header"
  /\ copied' = nb_streams
  /\ pc' = "test"
  /\ \/ /\ outputContext' = "streaming"
        /\ UNCHANGED failed
     \/ /\ failed' = failed \union {"header"}
        /\ UNCHANGED outputContext
  /\ UNCHANGED <<m_bIsRunning, inputVars, stream_index, crashed, stopAt, lost>>

\* The streams of the input, if there is one, are copied one by one and the
\* header is written; a muxer without streams refuses to.
WriteHeader ==
  /\ pc = "header"
  /\ \/ /\ context # "NULL"
        /\ nb_streams > 0
        /\ copied' = nb_streams
        /\ outputContext' = "streaming"
        /\ pc' = "test"
        /\ UNCHANGED failed
     \/ /\ copied' \in IF context = "NULL" THEN {0} ELSE 0 .. nb_streams
        /\ pc' = "retry_out"
        /\ failed' = failed \union {"header"}
        /\ UNCHANGED outputContext
  /\ UNCHANGED <<m_bIsRunning, inputVars, stream_index, crashed, stopAt, lost>>

\* Once more (after 50 ms, from the second failure on), unless there has been
\* a stop.
RetryOutput ==
  /\ pc = "retry_out"
  /\ pc' = IF m_bIsRunning THEN "alloc_out" ELSE "test"
  /\ UNCHANGED <<m_bIsRunning, inputVars, outputVars, stream_index, crashed, history>>

-----------------------------------------------------------------------------
(* The copying loop.                                                       *)

LoopTest ==
  /\ pc = "test"
  /\ pc' = IF m_bIsRunning THEN "read" ELSE "close"
  /\ UNCHANGED <<m_bIsRunning, inputVars, outputVars, stream_index, crashed, history>>

\* Mutant: streams are counted one too far.
ReadFrameBeyond ==
  /\ pc = "read"
  /\ nb_streams' \in nb_streams .. MaxStreams
  /\ stream_index' \in 1 .. nb_streams' + 1
  /\ pc' = "write"
  /\ UNCHANGED <<m_bIsRunning, context, outputVars, crashed, history>>

\* readPacketFromSource. A program stream announces its streams as they come,
\* so a packet may be the first of a new one.
ReadFrame ==
  /\ pc = "read"
  /\ nb_streams' \in nb_streams .. MaxStreams
  /\ stream_index' \in 1 .. nb_streams'
  /\ pc' = "write"
  /\ UNCHANGED <<m_bIsRunning, context, outputVars, crashed, history>>

\* No packet: mainThread returns, and closes nothing.
ReadFails ==
  /\ pc = "read"
  /\ failed' = failed \union {"read"}
  /\ pc' = "done"
  /\ UNCHANGED <<m_bIsRunning, inputVars, outputVars, stream_index, crashed, stopAt, lost>>

\* writePacket. Its result is ignored.
WritePacket ==
  /\ pc = "write"
  /\ pc' = "test"
  /\ UNCHANGED <<m_bIsRunning, inputVars, outputVars, stream_index, crashed, history>>

\* outputContext->streams[packet->stream_index] is out of bounds.
WriteFault ==
  /\ pc = "write"
  /\ stream_index > copied
  /\ crashed' = TRUE
  /\ UNCHANGED <<m_bIsRunning, inputVars, outputVars, stream_index, pc, history>>

\* Mutant: only the contexts are freed, not what they have open.
CloseFreesOnly ==
  /\ pc = "close"
  /\ context # "NULL" /\ outputContext # "NULL"
  /\ context' = "freed"
  /\ outputContext' = "freed"
  /\ lost' = lost \union {"connection"}
  /\ pc' = "done"
  /\ UNCHANGED <<m_bIsRunning, nb_streams, copied, stream_index, crashed, stopAt, failed>>

\* ffmpegClose
Close ==
  /\ pc = "close"
  /\ context # "NULL" /\ outputContext # "NULL"
  /\ context' = "freed"
  /\ outputContext' = "freed"
  /\ pc' = "done"
  /\ UNCHANGED <<m_bIsRunning, nb_streams, copied, stream_index, crashed, history>>

\* ... reads context->pb and outputContext->pb, whatever there is.
CloseFault ==
  /\ pc = "close"
  /\ context = "NULL" \/ outputContext = "NULL"
  /\ crashed' = TRUE
  /\ UNCHANGED <<m_bIsRunning, inputVars, outputVars, stream_index, pc, history>>

Ended == (crashed \/ pc = "done") /\ UNCHANGED vars

-----------------------------------------------------------------------------
Init ==
  /\ m_bIsRunning = TRUE
  /\ context = "unset"
  /\ outputContext = "unset"
  /\ nb_streams = 0
  /\ copied = 0
  /\ stream_index = 0
  /\ pc = "idle"
  /\ crashed = FALSE
  /\ stopAt = "nowhere"
  /\ failed = {}
  /\ lost = {}

\* Steps that wait for nobody.
OwnStep ==
  \/ AllocInput \/ RetryInput \/ AllocOutput \/ RetryOutput \/ LoopTest
  \/ Close \/ CloseFault

InputCall  == OpenInput \/ FindStreams \/ ReadFrame \/ ReadFails
OutputCall == Connect \/ WriteHeader \/ WritePacket \/ WriteFault

Next ==
  \/ ~ crashed /\ (Start \/ Stop \/ OwnStep \/ InputCall \/ OutputCall)
  \/ Ended

Spec == Init /\ [][Next]_vars

\* The thread runs, and libavformat heeds the interrupt callback. Neither the
\* camera nor the streaming server owes it anything.
Fairness ==
  /\ WF_vars(~ crashed /\ OwnStep)
  /\ WF_vars(~ crashed /\ Interrupted /\ InputCall)

FairSpec == Spec /\ Fairness

-----------------------------------------------------------------------------
(* Properties.                                                             *)

\* Type invariant.
TypeOK ==
  /\ m_bIsRunning \in BOOLEAN
  /\ context \in {"unset", "NULL", "allocated", "open", "freed"}
  /\ outputContext \in {"unset", "NULL", "allocated", "connected", "streaming", "freed"}
  /\ nb_streams \in 0 .. MaxStreams
  /\ copied \in 0 .. MaxStreams
  /\ stream_index \in 0 .. MaxStreams
  /\ pc \in Phases
  /\ crashed \in BOOLEAN
  /\ stopAt \in Phases \union {"nowhere"}
  /\ failed \subseteq {"open", "info", "alloc", "connect", "header", "read"}
  /\ lost \subseteq {"input", "output", "connection"}

\* The two retry loops are left after a success or after a stop, and the
\* copying loop looks at m_bIsRunning again: packets are read and written only
\* with both contexts open and all streams known at the time copied.
CopiesBetweenOpenContexts ==
  pc \in {"read", "write"} =>
    /\ context = "open"
    /\ outputContext = "streaming"
    /\ 0 < copied /\ copied <= nb_streams

\* The process dies of a stop while the input is not open, of a stop while no
\* output context could be allocated, or of a stream that the input announces
\* after the header was written. A stop at any other time is safe.
CrashCause ==
  crashed =>
    \/ stopAt \in {"idle"} \union OpeningInput
    \/ stopAt # "nowhere" /\ "alloc" \in failed
    \/ copied < nb_streams

\* An opened context or connection is lost only by opening it again after a
\* failure half-way, and a thread that ends without a failed read has closed
\* the contexts it held.
LeakCause ==
  /\ "input" \in lost => "info" \in failed
  /\ "output" \in lost => failed \intersect {"connect", "header"} # {}
  /\ "connection" \in lost => "header" \in failed
  /\ pc = "done" /\ "read" \notin failed =>
       context = "freed" /\ outputContext = "freed"

\* A started thread told to stop comes to its end, or waits in a call on the
\* output that nothing interrupts.
StopEndsThread ==
  (~ m_bIsRunning /\ pc # "idle") ~>
    (pc = "done" \/ crashed \/ pc \in OutputCalls)

\* ffmpeg_to_web.h says of stop: exit thread. Before the input is open, a stop
\* ends the process, although nothing else has gone wrong: memory sufficed and
\* no stream came up late.
StopExitsThread ==
  stopAt # "nowhere" /\ "alloc" \notin failed /\ copied >= nb_streams => ~ crashed
=============================================================================
