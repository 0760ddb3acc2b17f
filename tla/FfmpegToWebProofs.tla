-------------------------- MODULE FfmpegToWebProofs --------------------------
(* Theorems about FfmpegToWeb, for every number of streams.                *)
EXTENDS FfmpegToWeb, TLAPS

-----------------------------------------------------------------------------
(* The inductive invariant.                                                *)

StoppedEarly == stopAt \in {"idle"} \union OpeningInput

\* A stop is known by where it came.
StopKnown ==
  /\ m_bIsRunning <=> stopAt = "nowhere"
  /\ pc \in {"idle"} \union OpeningInput /\ ~ m_bIsRunning => StoppedEarly

\* What context points to follows from how far the thread is. It is NULL past
\* the opening of the input only if a stop broke the opening off.
InputPlan ==
  /\ pc = "idle" => context = "unset"
  /\ pc = "alloc_in" => context \in {"unset", "NULL", "open"}
  /\ pc = "open_in" => context = "allocated"
  /\ pc = "info_in" => context = "open"
  /\ pc = "retry_in" => context = "NULL" \/ (context = "open" /\ "info" \in failed)
  /\ pc \in OpeningOutput \union Copying \union {"close"} =>
       context = "open" \/ (context = "NULL" /\ StoppedEarly)
  /\ pc = "alloc_in" /\ context = "open" => "info" \in failed

\* So does what outputContext points to.
OutputPlan ==
  /\ pc \in {"idle"} \union OpeningInput => outputContext = "unset" /\ copied = 0
  /\ outputContext = "NULL" => "alloc" \in failed
  /\ outputContext = "allocated" => pc = "connect" \/ "connect" \in failed
  /\ outputContext = "connected" => pc = "header" \/ "header" \in failed
  /\ pc = "alloc_out" => outputContext \in {"unset", "NULL", "allocated", "connected"}
  /\ pc = "connect" => outputContext = "allocated"
  /\ pc = "header" => outputContext = "connected"
  /\ pc = "retry_out" => outputContext \in {"NULL", "allocated", "connected"}
  /\ copied <= nb_streams
  /\ outputContext = "streaming" => context = "open" /\ 0 < copied

\* The copying loop is entered with a failed output only after a stop.
LoopPlan ==
  /\ pc = "test" => outputContext = "streaming" \/ ~ m_bIsRunning
  /\ pc \in {"read", "write"} => outputContext = "streaming"
  /\ pc = "write" => 1 <= stream_index /\ stream_index <= nb_streams
  /\ pc = "close" => ~ m_bIsRunning
  /\ pc = "done" => "read" \in failed \/ (context = "freed" /\ outputContext = "freed")

\* What has been lost was opened once more.
LostPlan ==
  /\ "input" \in lost => "info" \in failed
  /\ "output" \in lost => failed \intersect {"connect", "header"} # {}
  /\ "connection" \in lost => "header" \in failed

FInv ==
  /\ TypeOK
  /\ StopKnown
  /\ InputPlan
  /\ OutputPlan
  /\ LoopPlan
  /\ LostPlan
  /\ CrashCause

LEMMA FInvInit == Init => FInv
<1> SUFFICES ASSUME Init PROVE FInv
  OBVIOUS
<1> USE DEF Init, Phases, OpeningInput, OpeningOutput, Copying
<1>1. TypeOK
  <2>1. 0 \in 0 .. MaxStreams
    BY MaxStreamsAssumption
  <2> QED
    BY <2>1 DEF TypeOK
<1>2. StopKnown /\ InputPlan
  BY DEF StopKnown, InputPlan
<1>3. OutputPlan /\ LoopPlan
  BY DEF OutputPlan, LoopPlan
<1>4. LostPlan /\ CrashCause
  BY DEF LostPlan, CrashCause
<1> QED
  BY <1>1, <1>2, <1>3, <1>4 DEF FInv

\* A step in which the thread waits for nobody keeps the invariant.
LEMMA FInvOwn ==
  ASSUME FInv, ~ crashed, OwnStep
  PROVE  FInv'
<1> USE MaxStreamsAssumption
        DEF FInv, TypeOK, StopKnown, StoppedEarly, InputPlan, OutputPlan, LoopPlan,
            LostPlan, CrashCause, Phases, OpeningInput, OpeningOutput, Copying,
            inputVars, outputVars, history
<1>1. CASE AllocInput
  BY <1>1 DEF AllocInput
<1>2. CASE RetryInput
  <2>1. TypeOK'
    BY <1>2 DEF RetryInput
  <2>2. StopKnown' /\ InputPlan'
    BY <1>2 DEF RetryInput
  <2>3. OutputPlan' /\ LoopPlan'
    BY <1>2 DEF RetryInput
  <2>4. LostPlan' /\ CrashCause'
    BY <1>2 DEF RetryInput
  <2> QED
    BY <2>1, <2>2, <2>3, <2>4
<1>3. CASE AllocOutput
  BY <1>3 DEF AllocOutput, Overwritten
<1>4. CASE RetryOutput
  BY <1>4 DEF RetryOutput
<1>5. CASE LoopTest
  BY <1>5 DEF LoopTest
<1>6. CASE Close
  BY <1>6 DEF Close
<1>7. CASE CloseFault
  BY <1>7 DEF CloseFault
<1> QED
  BY <1>1, <1>2, <1>3, <1>4, <1>5, <1>6, <1>7 DEF OwnStep

\* A call on the input keeps the invariant.
LEMMA FInvInput ==
  ASSUME FInv, ~ crashed, InputCall
  PROVE  FInv'
<1> USE MaxStreamsAssumption
        DEF FInv, TypeOK, StopKnown, StoppedEarly, InputPlan, OutputPlan, LoopPlan,
            LostPlan, CrashCause, Phases, OpeningInput, OpeningOutput, Copying,
            inputVars, outputVars, history
<1>1. CASE OpenInput
  BY <1>1 DEF OpenInput
<1>2. CASE FindStreams
  <2>1. TypeOK'
    BY <1>2 DEF FindStreams
  <2>2. StopKnown' /\ InputPlan'
    BY <1>2 DEF FindStreams
  <2>3. OutputPlan' /\ LoopPlan'
    BY <1>2 DEF FindStreams
  <2>4. LostPlan' /\ CrashCause'
    BY <1>2 DEF FindStreams
  <2> QED
    BY <2>1, <2>2, <2>3, <2>4
<1>3. CASE ReadFrame
  BY <1>3 DEF ReadFrame
<1>4. CASE ReadFails
  BY <1>4 DEF ReadFails
<1> QED
  BY <1>1, <1>2, <1>3, <1>4 DEF InputCall

\* A call on the output keeps the invariant.
LEMMA FInvOutput ==
  ASSUME FInv, ~ crashed, OutputCall
  PROVE  FInv'
<1> USE MaxStreamsAssumption
        DEF FInv, TypeOK, StopKnown, StoppedEarly, InputPlan, OutputPlan, LoopPlan,
            LostPlan, CrashCause, Phases, OpeningInput, OpeningOutput, Copying,
            inputVars, outputVars, history
<1>1. CASE Connect
  BY <1>1 DEF Connect
<1>2. CASE WriteHeader
  <2>1. TypeOK'
    <3>1. copied' \in {0, nb_streams} \union 0 .. nb_streams
      BY <1>2 DEF WriteHeader
    <3>2. copied' \in 0 .. MaxStreams
      BY <3>1
    <3>3. /\ outputContext' = outputContext \/ outputContext' = "streaming"
          /\ pc' \in Phases
          /\ failed' = failed \/ failed' = failed \union {"header"}
          /\ UNCHANGED <<m_bIsRunning, inputVars, stream_index, crashed, stopAt, lost>>
      BY <1>2 DEF WriteHeader
    <3>4. failed' \subseteq {"open", "info", "alloc", "connect", "header", "read"}
      BY <3>3
    <3> QED
      BY ONLY TypeOK, <3>2, <3>3, <3>4 DEF TypeOK, inputVars
  <2>2. StopKnown' /\ InputPlan'
    BY <1>2 DEF WriteHeader
  <2>3. OutputPlan' /\ LoopPlan'
    BY <1>2 DEF WriteHeader
  <2>4. LostPlan' /\ CrashCause'
    BY <1>2 DEF WriteHeader
  <2> QED
    BY <2>1, <2>2, <2>3, <2>4
<1>3. CASE WritePacket
  BY <1>3 DEF WritePacket
<1>4. CASE WriteFault
  BY <1>4 DEF WriteFault
<1> QED
  BY <1>1, <1>2, <1>3, <1>4 DEF OutputCall

\* So do start and stop.
LEMMA FInvControl ==
  ASSUME FInv, ~ crashed, Start \/ Stop
  PROVE  FInv'
<1> USE MaxStreamsAssumption
        DEF FInv, TypeOK, StopKnown, StoppedEarly, InputPlan, OutputPlan, LoopPlan,
            LostPlan, CrashCause, Phases, OpeningInput, OpeningOutput, Copying,
            inputVars, outputVars, history
<1>1. CASE Start
  BY <1>1 DEF Start
<1>2. CASE Stop
  <2>1. TypeOK'
    BY <1>2 DEF Stop
  <2>2. StopKnown' /\ InputPlan'
    BY <1>2 DEF Stop
  <2>3. OutputPlan' /\ LoopPlan'
    BY <1>2 DEF Stop
  <2>4. LostPlan' /\ CrashCause'
    BY <1>2 DEF Stop
  <2> QED
    BY <2>1, <2>2, <2>3, <2>4
<1> QED
  BY <1>1, <1>2

LEMMA FInvStep == FInv /\ [Next]_vars => FInv'
<1> SUFFICES ASSUME FInv, [Next]_vars PROVE FInv'
  OBVIOUS
<1>1. CASE UNCHANGED vars
  BY <1>1 DEF vars, inputVars, outputVars, history, FInv, TypeOK, StopKnown,
     StoppedEarly, InputPlan, OutputPlan, LoopPlan, LostPlan, CrashCause
<1>2. CASE Next
  BY <1>1, <1>2, FInvOwn, FInvInput, FInvOutput, FInvControl DEF Next, Ended
<1> QED
  BY <1>1, <1>2

LEMMA FInvCorrect == Spec => []FInv
  BY FInvInit, FInvStep, PTL DEF Spec

-----------------------------------------------------------------------------
(* What follows from it.                                                   *)

\* The type invariant of the transcoder.
THEOREM TypeCorrect == Spec => []TypeOK
<1>1. FInv => TypeOK
  BY DEF FInv
<1> QED
  BY <1>1, FInvCorrect, PTL

\* Packets are copied only between two contexts that are open.
THEOREM CopiesBetweenOpenContextsCorrect == Spec => []CopiesBetweenOpenContexts
<1>1. FInv => CopiesBetweenOpenContexts
  BY DEF FInv, LoopPlan, OutputPlan, CopiesBetweenOpenContexts
<1> QED
  BY <1>1, FInvCorrect, PTL

\* Only a stop before the input is open, a stop without an output context and
\* a stream that comes up late kill the process.
THEOREM CrashCauseCorrect == Spec => []CrashCause
<1>1. FInv => CrashCause
  BY DEF FInv
<1> QED
  BY <1>1, FInvCorrect, PTL

\* What a transcoder loses, it loses to a retry or to a failed read.
THEOREM LeakCauseCorrect == Spec => []LeakCause
<1>1. FInv => LeakCause
  BY DEF FInv, LostPlan, LoopPlan, LeakCause
<1> QED
  BY <1>1, FInvCorrect, PTL

-----------------------------------------------------------------------------
(* How much a stopped thread still does.                                   *)

\* At most so many steps are left from here on, once m_bIsRunning is cleared.
Left == [idle |-> 11, alloc_in |-> 10, open_in |-> 9, info_in |-> 8, retry_in |-> 7,
         alloc_out |-> 6, connect |-> 5, header |-> 4, retry_out |-> 3,
         read |-> 4, write |-> 3, test |-> 2, close |-> 1, done |-> 0]

\* A stop is final, and from then on every step, whatever the camera and the
\* streaming server do, brings the thread nearer to its end: it retries nothing and
\* copies one more packet at most.
StopIsFinal ==
  [][~ m_bIsRunning => ~ m_bIsRunning' /\ (pc' = pc \/ Left[pc'] < Left[pc])]_vars

LEMMA LeftFalls ==
  ASSUME [Next]_vars, ~ m_bIsRunning
  PROVE  ~ m_bIsRunning' /\ (pc' = pc \/ Left[pc'] < Left[pc])
<1> USE DEF Left
<1>1. CASE OwnStep
  BY <1>1 DEF OwnStep, AllocInput, RetryInput, AllocOutput, RetryOutput, LoopTest, Close, CloseFault
<1>2. CASE InputCall
  BY <1>2 DEF InputCall, OpenInput, FindStreams, ReadFrame, ReadFails
<1>3. CASE OutputCall
  BY <1>3 DEF OutputCall, Connect, WriteHeader, WritePacket, WriteFault
<1>4. CASE Start
  BY <1>4 DEF Start
<1>5. CASE Stop
  BY <1>5 DEF Stop
<1>6. CASE UNCHANGED vars
  BY <1>6 DEF vars
<1> QED
  BY <1>1, <1>2, <1>3, <1>4, <1>5, <1>6 DEF Next, Ended

\* What StopEndsThread adds to it is that the thread takes those steps.
THEOREM StopIsFinalCorrect == Spec => StopIsFinal
<1>1. [Next]_vars =>
        [~ m_bIsRunning => ~ m_bIsRunning' /\ (pc' = pc \/ Left[pc'] < Left[pc])]_vars
  BY LeftFalls
<1> QED
  BY <1>1, PTL DEF Spec, StopIsFinal
=============================================================================
