------------------------ MODULE CameraSessionsProofs ------------------------
(* Theorems about CameraSessions, for every set of cameras and every number *)
(* of INVITEs.                                                              *)
EXTENDS CameraSessions, TLAPS

-----------------------------------------------------------------------------
(* Type correctness.                                                       *)

LEMMA TypeInit == Init => TypeOK
<1> SUFFICES ASSUME Init PROVE TypeOK
  OBVIOUS
<1>1. SessionTypes
  BY MaxStartsAssumption DEF Init, SessionTypes
<1>2. MediaTypes
  BY DEF Init, MediaTypes
<1>3. CallTypes
  BY DEF Init, CallTypes, InviteStates
<1>4. HttpType
  BY DEF Init, HttpType, Idle, Replies
<1>5. SipType
  BY DEF Init, SipType, Wait, End
<1> QED
  BY <1>1, <1>2, <1>3, <1>4, <1>5 DEF Init, TypeOK

\* A step of the HTTP thread keeps the types.
LEMMA TypeHttp ==
  ASSUME TypeOK,
         \/ \E cam \in Cameras : Request(cam)
         \/ HttpStep
  PROVE  TypeOK'
<1> USE DEF TypeOK, SessionTypes, MediaTypes, CallTypes, HttpType, SipType,
            mediaVars, listVars, callVars, history
<1>1. ASSUME NEW cam \in Cameras, StartLive(cam) PROVE TypeOK'
  BY <1>1 DEF StartLive, Reply, Replies
<1>2. ASSUME NEW cam \in Cameras, StartUnknownPlatform(cam) PROVE TypeOK'
  BY <1>2 DEF StartUnknownPlatform, Reply, Replies
<1>3. ASSUME NEW cam \in Cameras, StartInvite(cam) PROVE TypeOK'
  <2>1. starts + 1 \in Entries /\ starts + 1 \in 0 .. MaxStarts
    BY <1>3, MaxStartsAssumption DEF StartInvite, Entries
  <2> QED
    BY <1>3, <2>1 DEF StartInvite, Replies, InviteStates
<1>4. CASE StartPush
  BY <1>4 DEF StartPush, Reply, Replies
<1>5. ASSUME NEW cam \in Cameras, StopUnknown(cam) PROVE TypeOK'
  BY <1>5 DEF StopUnknown, Reply, Replies
<1>6. ASSUME NEW cam \in Cameras, StopBye(cam) PROVE TypeOK'
  BY <1>6 DEF StopBye, Terminated, IsEntryOf, Replies, InviteStates
<1>7. CASE StopTranscoder
  BY <1>7 DEF StopTranscoder
<1>8. CASE StopReceiver
  BY <1>8 DEF StopReceiver, Stopped
<1>9. CASE StopWildPointer
  BY <1>9 DEF StopWildPointer
<1>10. CASE StopErase
  BY <1>10 DEF StopErase, Reply, Replies
<1>11. CASE SendReply
  BY <1>11 DEF SendReply, Idle, Replies
<1> QED
  BY <1>1, <1>2, <1>3, <1>4, <1>5, <1>6, <1>7, <1>8, <1>9, <1>10, <1>11
  DEF Request, HttpStep

\* A step of the SIP thread keeps the types.
LEMMA TypeSip ==
  ASSUME TypeOK, SipStep
  PROVE  TypeOK'
<1> USE DEF TypeOK, SessionTypes, MediaTypes, CallTypes, HttpType, SipType,
            mediaVars, listVars, callVars, history
<1>1. CASE SipAnswered
  BY <1>1 DEF SipAnswered, InviteStates
<1>2. CASE SipMissed
  BY <1>2 DEF SipMissed, Wait, End
<1>3. CASE SipAdvance
  BY <1>3 DEF SipAdvance
<1>4. CASE SipRecord
  <2>1. sip.ct \in Entries /\ sip.call \in Entries
    BY <1>4 DEF SipRecord, Matches
  <2> QED
    BY <1>4, <2>1 DEF SipRecord
<1>5. CASE SipStartTranscoder
  <2>1. transcoders' \in [Entries -> Nat]
    BY <1>5 DEF SipStartTranscoder
  <2> QED
    BY <1>5, <2>1 DEF SipStartTranscoder
<1>6. CASE SipNewCallInfo
  BY <1>6 DEF SipNewCallInfo
<1>7. CASE SipResetExit
  BY <1>7 DEF SipResetExit, InitSendSocket
<1>8. CASE SipBind
  BY <1>8 DEF SipBind, Wait, End
<1>9. CASE SipDangling
  BY <1>9 DEF SipDangling
<1> QED
  BY <1>1, <1>2, <1>3, <1>4, <1>5, <1>6, <1>7, <1>8, <1>9 DEF SipStep

\* A step of a media thread or of the peer keeps the types.
LEMMA TypeEnvironment ==
  ASSUME TypeOK, NEW n \in Entries,
         \/ TranscoderExit(n) \/ ReceiverExit(n) \/ ReceiverFault(n)
         \/ PeerAnswer(n) \/ PeerEnds(n)
  PROVE  TypeOK'
<1> USE DEF TypeOK, SessionTypes, MediaTypes, CallTypes, HttpType, SipType,
            mediaVars, listVars, callVars, history
<1>1. CASE TranscoderExit(n)
  BY <1>1 DEF TranscoderExit
<1>2. CASE ReceiverExit(n)
  BY <1>2 DEF ReceiverExit
<1>3. CASE ReceiverFault(n)
  BY <1>3 DEF ReceiverFault
<1>4. CASE PeerAnswer(n)
  BY <1>4 DEF PeerAnswer, InviteStates
<1>5. CASE PeerEnds(n)
  BY <1>5 DEF PeerEnds, InviteStates
<1> QED
  BY <1>1, <1>2, <1>3, <1>4, <1>5

LEMMA TypeStep == TypeOK /\ [Next]_vars => TypeOK'
<1> SUFFICES ASSUME TypeOK, [Next]_vars PROVE TypeOK'
  OBVIOUS
<1>1. CASE UNCHANGED vars
  BY <1>1 DEF TypeOK, SessionTypes, MediaTypes, CallTypes, HttpType, SipType, vars
<1>2. CASE Next
  BY <1>1, <1>2, TypeHttp, TypeSip, TypeEnvironment DEF Next, Halted
<1> QED
  BY <1>1, <1>2

\* The type invariant of the sessions.
THEOREM TypeCorrect == Spec => []TypeOK
  BY TypeInit, TypeStep, PTL DEF Spec

-----------------------------------------------------------------------------
(* The inductive invariant.                                                *)

\* Nothing refers to an INVITE that has not been made yet.
Numbered ==
  /\ m_cameraList \subseteq 1 .. starts
  /\ \A c \in Entries : invite[c] # "none" => c <= starts
  /\ \A i \in 1 .. Len(answers) : answers[i] <= starts
  /\ sip.pc # "wait" => sip.call <= starts /\ sip.ct <= starts
  /\ \A e \in Entries : call_id[e] # Garbage => call_id[e] <= starts /\ e <= starts

\* What the HTTP thread found out at the beginning of a request still holds.
PushPlan ==
  http.pc = "push" =>
    /\ http.at = starts
    /\ http.at \notin m_cameraList
    /\ strCamId[http.at] = http.cam
    /\ ~ IsLive(http.cam)

StopPlan ==
  /\ http.pc \in {"stop_ffmpeg", "stop_rtp", "erase"} =>
       http.at \in m_cameraList /\ strCamId[http.at] = http.cam
  /\ http.pc \in {"stop_rtp", "erase"} => ~ m_bIsRunning[http.at]

\* Ids are recorded before the entry's media starts, and are those of a call
\* to the entry's camera, whether the entry is still in the list or not.
CallIds ==
  /\ \A e \in Entries : call_id[e] # Garbage => strCamId[call_id[e]] = strCamId[e]
  /\ sip.pc \in {"start_ffmpeg", "start_rtp", "reset", "bind"} => call_id[sip.ct] # Garbage
  /\ \A e \in Entries :
       transcoders[e] > 0 \/ e \in receivers \/ m_pCallInfo[e] # "wild"
         => call_id[e] # Garbage

\* A start request finds out whether the camera is live long before it appends
\* the entry; still, no camera ever has two entries, so is_exist_on_live and
\* the walk of the SIP thread, which stop at the first match, miss none.
OneEntryPerCamera ==
  \A e, f \in m_cameraList : strCamId[e] = strCamId[f] => e = f

IInv ==
  /\ TypeOK
  /\ Numbered
  /\ PushPlan
  /\ StopPlan
  /\ CallIds
  /\ OneEntryPerCamera
  /\ NoRunawayTranscoder
  /\ ReplyIsTrue
LEMMA InvInit == Init => IInv
<1> SUFFICES ASSUME Init PROVE IInv
  OBVIOUS
<1>1. TypeOK
  BY TypeInit
<1>2. Numbered /\ CallIds
  BY DEF Init, Numbered, CallIds, Wait, Entries
<1>3. PushPlan /\ StopPlan /\ ReplyIsTrue
  BY DEF Init, PushPlan, StopPlan, ReplyIsTrue, Idle
<1>4. OneEntryPerCamera /\ NoRunawayTranscoder
  BY DEF Init, OneEntryPerCamera, NoRunawayTranscoder
<1> QED
  BY <1>1, <1>2, <1>3, <1>4 DEF IInv

\* A step of the HTTP thread keeps the invariant.
LEMMA InvHttp ==
  ASSUME IInv, TypeOK',
         \/ \E cam \in Cameras : Request(cam)
         \/ HttpStep
  PROVE  IInv'
<1> USE DEF TypeOK, SessionTypes, MediaTypes, CallTypes, HttpType, SipType,
            IInv, Numbered, PushPlan, StopPlan, CallIds, OneEntryPerCamera,
            NoRunawayTranscoder, ReplyIsTrue, IsLive, IsEntryOf, Entries, Garbage,
            mediaVars, listVars, callVars, history
<1>1. ASSUME NEW cam \in Cameras, StartLive(cam) PROVE IInv'
  BY <1>1 DEF StartLive, Reply
<1>2. ASSUME NEW cam \in Cameras, StartUnknownPlatform(cam) PROVE IInv'
  BY <1>2 DEF StartUnknownPlatform, Reply
<1>3. ASSUME NEW cam \in Cameras, StartInvite(cam) PROVE IInv'
  <2> DEFINE n == starts + 1
  <2>1. n \in Entries /\ n \notin m_cameraList /\ starts' = n /\ starts \in Nat
    BY <1>3, MaxStartsAssumption DEF StartInvite
  <2>2. /\ strCamId'[n] = cam
        /\ \A e \in Entries : e # n => strCamId'[e] = strCamId[e]
        /\ \A c \in Entries : c # n => invite'[c] = invite[c]
    BY <1>3, <2>1 DEF StartInvite
  <2>3. Numbered'
    <3>1. m_cameraList' \subseteq 1 .. starts'
      BY <1>3, <2>1 DEF StartInvite
    <3>2. \A c \in Entries : invite'[c] # "none" => c <= starts'
      BY <2>1, <2>2
    <3>3. \A i \in 1 .. Len(answers') : answers'[i] <= starts'
      <4>1. \A i \in 1 .. Len(answers) : answers[i] <= starts
        OBVIOUS
      <4>2. \A i \in 1 .. Len(answers) : answers[i] \in Nat
        <5>1. answers \in Seq(1 .. MaxStarts)
          OBVIOUS
        <5> QED
          BY ONLY <5>1, MaxStartsAssumption
      <4> QED
        BY <1>3, <2>1, <4>1, <4>2 DEF StartInvite
    <3>4. sip'.pc # "wait" => sip'.call <= starts' /\ sip'.ct <= starts'
      BY <1>3, <2>1 DEF StartInvite, End
    <3>5. \A e \in Entries :
            call_id'[e] # Garbage => call_id'[e] <= starts' /\ e <= starts'
      BY <1>3, <2>1 DEF StartInvite
    <3> QED
      BY <3>1, <3>2, <3>3, <3>4, <3>5
  <2>4. PushPlan' /\ StopPlan' /\ ReplyIsTrue'
    BY <1>3, <2>1, <2>2 DEF StartInvite
  <2>5. CallIds'
    <3>1. \A e \in Entries : call_id[e] # Garbage => e <= starts /\ call_id[e] <= starts
      OBVIOUS
    <3>2. \A e \in Entries :
            call_id[e] # Garbage => e # n /\ call_id[e] # n /\ call_id[e] \in Entries
      <4> SUFFICES ASSUME NEW e \in Entries, call_id[e] # Garbage
                   PROVE  e # n /\ call_id[e] # n /\ call_id[e] \in Entries
        OBVIOUS
      <4>1. call_id[e] \in Entries /\ call_id[e] <= starts /\ e <= starts
        BY <3>1
      <4> QED
        BY ONLY <2>1, <4>1 DEF n, Entries
    <3> QED
      BY <1>3, <2>2, <3>2 DEF StartInvite
  <2>6. OneEntryPerCamera' /\ NoRunawayTranscoder'
    BY <1>3, <2>1, <2>2 DEF StartInvite
  <2> QED
    BY <2>3, <2>4, <2>5, <2>6
<1>4. CASE StartPush
  BY <1>4 DEF StartPush, Reply
<1>5. ASSUME NEW cam \in Cameras, StopUnknown(cam) PROVE IInv'
  BY <1>5 DEF StopUnknown, Reply
<1>6. ASSUME NEW cam \in Cameras, StopBye(cam) PROVE IInv'
  <2>1. PICK e \in m_cameraList :
          /\ IsEntryOf(e, cam)
          /\ \E c \in Entries \union {Garbage} : invite' = Terminated(c)
          /\ http' = [pc |-> "stop_ffmpeg", at |-> e, cam |-> cam, reply |-> "none"]
    BY <1>6 DEF StopBye
  <2>2. \A c \in Entries : invite'[c] # "none" => invite[c] # "none"
    BY <2>1 DEF Terminated
  <2>3. UNCHANGED <<listVars, call_id, mediaVars, answers, sip>>
    BY <1>6 DEF StopBye
  <2>4. Numbered'
    BY <2>2, <2>3
  <2>5. PushPlan' /\ StopPlan' /\ ReplyIsTrue'
    BY <2>1, <2>3
  <2>6. CallIds' /\ OneEntryPerCamera' /\ NoRunawayTranscoder'
    BY <2>3
  <2> QED
    BY <2>4, <2>5, <2>6
<1>7. CASE StopTranscoder
  BY <1>7 DEF StopTranscoder
<1>8. CASE StopReceiver
  BY <1>8 DEF StopReceiver, Stopped
<1>9. CASE StopWildPointer
  BY <1>9 DEF StopWildPointer
<1>10. CASE StopErase
  BY <1>10 DEF StopErase, Reply
<1>11. CASE SendReply
  BY <1>11 DEF SendReply, Idle
<1> QED
  BY <1>1, <1>2, <1>3, <1>4, <1>5, <1>6, <1>7, <1>8, <1>9, <1>10, <1>11
  DEF Request, HttpStep

\* A step of the SIP thread keeps the invariant.
LEMMA InvSip ==
  ASSUME IInv, TypeOK', SipStep
  PROVE  IInv'
<1> USE DEF TypeOK, SessionTypes, MediaTypes, CallTypes, HttpType, SipType,
            IInv, Numbered, PushPlan, StopPlan, CallIds, OneEntryPerCamera,
            NoRunawayTranscoder, ReplyIsTrue, IsLive, IsEntryOf, Entries, Garbage,
            mediaVars, listVars, callVars, history
<1>1. CASE SipAnswered
  BY <1>1 DEF SipAnswered, End, IsNext
<1>2. CASE SipMissed
  BY <1>2 DEF SipMissed, Wait, End
<1>3. CASE SipAdvance
  BY <1>3 DEF SipAdvance, IsNext, End
<1>4. CASE SipRecord
  <2>1. /\ UNCHANGED <<listVars, mediaVars, callVars, http>>
        /\ call_id' = [call_id EXCEPT ![sip.ct] = sip.call]
        /\ sip' = [sip EXCEPT !.pc = "start_ffmpeg"]
    BY <1>4 DEF SipRecord
  <2>2. sip.ct \in Entries /\ sip.call \in Entries
        /\ strCamId[sip.call] = strCamId[sip.ct]
    BY <1>4 DEF SipRecord, Matches, End
  <2>3. CallIds'
    BY <2>1, <2>2
  <2>4. sip.call <= starts /\ sip.ct <= starts
    BY <1>4 DEF SipRecord
  <2>5. \A e \in Entries : call_id'[e] # Garbage => call_id'[e] <= starts' /\ e <= starts'
    BY <2>1, <2>2, <2>4
  <2>6. Numbered'
    BY <2>1, <2>4, <2>5
  <2>7. PushPlan' /\ StopPlan'
    BY <2>1
  <2>8. OneEntryPerCamera' /\ NoRunawayTranscoder' /\ ReplyIsTrue'
    BY <2>1
  <2> QED
    BY <2>3, <2>6, <2>7, <2>8
<1>5. CASE SipStartTranscoder
  <2>1. /\ UNCHANGED <<listVars, call_id, m_bIsRunning, callVars, http>>
        /\ sip'.call = sip.call /\ sip'.ct = sip.ct
    BY <1>5 DEF SipStartTranscoder
  <2>2. CallIds'
    BY <1>5 DEF SipStartTranscoder
  <2>3. Numbered' /\ PushPlan' /\ StopPlan'
    BY <1>5, <2>1 DEF SipStartTranscoder
  <2>4. OneEntryPerCamera' /\ NoRunawayTranscoder' /\ ReplyIsTrue'
    BY <1>5, <2>1 DEF SipStartTranscoder
  <2> QED
    BY <2>2, <2>3, <2>4
<1>6. CASE SipNewCallInfo
  <2>1. /\ UNCHANGED <<listVars, call_id, m_bIsRunning, callVars, http>>
        /\ sip'.call = sip.call /\ sip'.ct = sip.ct
    BY <1>6 DEF SipNewCallInfo
  <2>2. CallIds'
    BY <1>6 DEF SipNewCallInfo
  <2>3. Numbered' /\ PushPlan' /\ StopPlan'
    BY <1>6, <2>1 DEF SipNewCallInfo
  <2>4. OneEntryPerCamera' /\ NoRunawayTranscoder' /\ ReplyIsTrue'
    BY <1>6, <2>1 DEF SipNewCallInfo
  <2> QED
    BY <2>2, <2>3, <2>4
<1>7. CASE SipResetExit
  <2>1. /\ UNCHANGED <<listVars, call_id, m_bIsRunning, callVars, http>>
        /\ sip'.call = sip.call /\ sip'.ct = sip.ct
    BY <1>7 DEF SipResetExit
  <2>2. CallIds'
    BY <1>7 DEF SipResetExit, InitSendSocket
  <2>3. Numbered' /\ PushPlan' /\ StopPlan'
    BY <1>7, <2>1 DEF SipResetExit
  <2>4. OneEntryPerCamera' /\ NoRunawayTranscoder' /\ ReplyIsTrue'
    BY <1>7, <2>1 DEF SipResetExit
  <2> QED
    BY <2>2, <2>3, <2>4
<1>8. CASE SipBind
  <2>1. UNCHANGED <<listVars, call_id, m_bIsRunning, callVars, http>> /\ sip'.pc = "wait"
    BY <1>8 DEF SipBind, Wait
  <2>2. CallIds'
    BY <1>8 DEF SipBind, Wait
  <2>3. Numbered' /\ PushPlan' /\ StopPlan'
    BY <2>1
  <2>4. OneEntryPerCamera' /\ NoRunawayTranscoder' /\ ReplyIsTrue'
    BY <2>1
  <2> QED
    BY <2>2, <2>3, <2>4
<1>9. CASE SipDangling
  BY <1>9 DEF SipDangling
<1> QED
  BY <1>1, <1>2, <1>3, <1>4, <1>5, <1>6, <1>7, <1>8, <1>9
  DEF SipStep

\* A step of a media thread or of the peer keeps the invariant.
LEMMA InvEnvironment ==
  ASSUME IInv, TypeOK', NEW n \in Entries,
         \/ TranscoderExit(n) \/ ReceiverExit(n) \/ ReceiverFault(n)
         \/ PeerAnswer(n) \/ PeerEnds(n)
  PROVE  IInv'
<1> USE DEF TypeOK, SessionTypes, MediaTypes, CallTypes, HttpType, SipType,
            IInv, Numbered, PushPlan, StopPlan, CallIds, OneEntryPerCamera,
            NoRunawayTranscoder, ReplyIsTrue, IsLive, IsEntryOf, Entries, Garbage,
            mediaVars, listVars, callVars, history
<1>1. CASE TranscoderExit(n)
  <2>1. \A e \in Entries : transcoders'[e] > 0 => transcoders[e] > 0
    BY <1>1 DEF TranscoderExit
  <2>2. CallIds'
    BY <1>1, <2>1 DEF TranscoderExit
  <2>3. UNCHANGED <<m_cameraList, starts, strCamId, call_id, m_bIsRunning,
                    invite, answers, http, sip>>
    BY <1>1 DEF TranscoderExit
  <2>4. Numbered' /\ PushPlan' /\ StopPlan'
    BY <2>3
  <2>5. OneEntryPerCamera' /\ NoRunawayTranscoder' /\ ReplyIsTrue'
    BY <2>3
  <2> QED
    BY <2>2, <2>4, <2>5
<1>2. CASE ReceiverExit(n)
  BY <1>2 DEF ReceiverExit
<1>3. CASE ReceiverFault(n)
  BY <1>3 DEF ReceiverFault
<1>4. CASE PeerAnswer(n)
  BY <1>4 DEF PeerAnswer
<1>5. CASE PeerEnds(n)
  BY <1>5 DEF PeerEnds
<1> QED
  BY <1>1, <1>2, <1>3, <1>4, <1>5

LEMMA InvStep == IInv /\ [Next]_vars => IInv'
<1> SUFFICES ASSUME IInv, [Next]_vars PROVE IInv'
  OBVIOUS
<1>1. TypeOK'
  BY TypeStep DEF IInv
<1>2. CASE UNCHANGED vars
  BY <1>1, <1>2 DEF vars, IInv, Numbered, PushPlan, StopPlan, CallIds,
     OneEntryPerCamera, NoRunawayTranscoder, ReplyIsTrue, IsLive, IsEntryOf
<1>3. CASE Next
  BY <1>1, <1>2, <1>3, InvHttp, InvSip, InvEnvironment DEF Next, Halted
<1> QED
  BY <1>2, <1>3

LEMMA InvCorrect == Spec => []IInv
  BY InvInit, InvStep, PTL DEF Spec
-----------------------------------------------------------------------------
(* What follows from it.                                                   *)

\* No camera ever has two entries in m_cameraList.
THEOREM OneEntryCorrect == Spec => []OneEntryPerCamera
<1>1. IInv => OneEntryPerCamera
  BY DEF IInv
<1> QED
  BY <1>1, InvCorrect, PTL

\* Whatever plays for a listed camera, its entry has the ids to hang it up.
THEOREM MediaHasItsCallCorrect == Spec => []MediaHasItsCall
<1>1. IInv => MediaHasItsCall
  BY DEF IInv, CallIds, MediaHasItsCall, TypeOK, SessionTypes
<1> QED
  BY <1>1, InvCorrect, PTL

\* No transcoder has its run flag set without an entry through which to clear it.
THEOREM NoRunawayTranscoderCorrect == Spec => []NoRunawayTranscoder
<1>1. IInv => NoRunawayTranscoder
  BY DEF IInv
<1> QED
  BY <1>1, InvCorrect, PTL

\* The replies to start and stop requests are true when they are sent.
THEOREM ReplyIsTrueCorrect == Spec => []ReplyIsTrue
<1>1. IInv => ReplyIsTrue
  BY DEF IInv
<1> QED
  BY <1>1, InvCorrect, PTL

\* One step hangs up calls of the camera the stop names only, unless it found
\* m_pCallInfo invalid.
LEMMA StopEndsOwnCallStep ==
  IInv /\ [Next]_vars =>
    [\A c \in Entries :
       invite[c] # "ended" /\ invite'[c] = "ended" =>
         strCamId[c] = http'.cam \/ http'.at \in early']_vars
<1> SUFFICES ASSUME IInv, [Next]_vars, NEW c \in Entries,
                    invite[c] # "ended", invite'[c] = "ended"
             PROVE  strCamId[c] = http'.cam \/ http'.at \in early'
  OBVIOUS
<1> USE DEF IInv, TypeOK, CallTypes
<1>1. PICK cam \in Cameras : StopBye(cam)
  BY DEF vars, Next, Request, HttpStep, SipStep, Halted, callVars, StartLive,
     StartUnknownPlatform, StartInvite, StartPush, StopUnknown, StopTranscoder,
     StopReceiver, StopWildPointer, StopErase, SendReply, SipAnswered,
     SipMissed, SipAdvance, SipRecord, SipStartTranscoder, SipNewCallInfo,
     SipResetExit, SipBind, SipDangling, TranscoderExit, ReceiverExit,
     ReceiverFault, PeerAnswer, PeerEnds
<1>2. PICK e \in m_cameraList :
        /\ IsEntryOf(e, cam)
        /\ \E x \in IF call_id[e] = Garbage THEN Entries \union {Garbage}
                                            ELSE {call_id[e]} :
             invite' = Terminated(x)
        /\ early' = IF Invalid(e) \/ (sip.pc = "reset" /\ sip.ct = e)
                    THEN early \union {e}
                    ELSE early
        /\ http' = [pc |-> "stop_ffmpeg", at |-> e, cam |-> cam, reply |-> "none"]
  BY <1>1 DEF StopBye
<1>3. e \in Entries
  BY DEF SessionTypes
<1>4. CASE call_id[e] = Garbage
  BY <1>2, <1>3, <1>4 DEF CallIds, Invalid
<1>5. CASE call_id[e] # Garbage
  <2>1. invite' = Terminated(call_id[e])
    BY <1>2, <1>5
  <2>2. c = call_id[e]
    BY <2>1 DEF Terminated
  <2> QED
    BY <1>2, <1>3, <1>5, <2>2 DEF CallIds, IsEntryOf
<1> QED
  BY <1>4, <1>5

\* A stop request never hangs up another camera's call, unless it came before
\* the answer to its own.
THEOREM StopEndsOwnCallCorrect == Spec => StopEndsOwnCall
  BY InvCorrect, StopEndsOwnCallStep, PTL DEF Spec, StopEndsOwnCall

-----------------------------------------------------------------------------
(* The refinement of LiveCameras.                                          *)

\* A request in hand names a camera.
Asked == http.pc # "idle" => http.cam \in Cameras

LEMMA AskedStep == TypeOK /\ Asked /\ [Next]_vars => Asked'
<1> SUFFICES ASSUME TypeOK, Asked, [Next]_vars PROVE Asked'
  OBVIOUS
<1> USE DEF Asked
<1>1. http \in [pc : {"idle", "push", "stop_ffmpeg", "stop_rtp", "erase", "reply"},
                at : Entries \union {0}, cam : Cameras \union {Nobody}, reply : Replies]
  BY DEF TypeOK, HttpType
<1>2. ASSUME NEW cam \in Cameras, Request(cam) PROVE Asked'
  BY <1>2 DEF Request, StartLive, StartUnknownPlatform, StartInvite, StopUnknown, StopBye, Reply
<1>3. CASE HttpStep
  BY <1>1, <1>3 DEF HttpStep, StartPush, StopTranscoder, StopReceiver, StopWildPointer, StopErase,
     SendReply, Reply, Idle
<1>4. CASE http' = http
  BY <1>4
<1>5. SipStep => http' = http
  BY DEF SipStep, SipAnswered, SipMissed, SipAdvance, SipRecord, SipStartTranscoder,
     SipNewCallInfo, SipResetExit, SipBind, SipDangling
<1>6. \A n \in Entries :
        TranscoderExit(n) \/ ReceiverExit(n) \/ ReceiverFault(n) \/ PeerAnswer(n) \/ PeerEnds(n)
          => http' = http
  BY DEF TranscoderExit, ReceiverExit, ReceiverFault, PeerAnswer, PeerEnds
<1> QED
  BY <1>2, <1>3, <1>4, <1>5, <1>6 DEF Next, Halted, vars

LEMMA AskedCorrect == Spec => []Asked
<1>1. Init => Asked
  BY DEF Init, Idle, Asked
<1> QED
  BY <1>1, AskedStep, TypeCorrect, PTL DEF Spec

LEMMA DirectoryInit == Init => Directory!Init
  BY DEF Init, Idle, Directory!Init, Live, Told

\* Steps that touch neither the list nor the request in hand.
ListAlone ==
  /\ Live' = Live
  /\ (http'.pc # "reply" /\ http.pc # "reply") \/ http' = http

LEMMA ListAloneStutters == ListAlone => UNCHANGED <<Live, Told>>
  BY DEF ListAlone, Told

\* A request finds the list as it is, or sets out to change it.
LEMMA DirectoryRequest ==
  ASSUME IInv, NEW cam \in Cameras, Request(cam)
  PROVE  Directory!Next \/ UNCHANGED <<Live, Told>>
<1>1. http.pc = "idle" /\ Told = <<>> /\ m_cameraList' = m_cameraList
  BY DEF Request, StartLive, StartUnknownPlatform, StartInvite, StopUnknown, StopBye, Told,
         listVars
<1>2. IsLive(cam) <=> cam \in Live
  BY DEF IsLive, IsEntryOf, Live
<1>3. CASE StartLive(cam)
  <2>1. cam \in Live /\ Live' = Live /\ Told' = <<cam, "playing">>
    BY <1>2, <1>3 DEF StartLive, Live, Told, Reply, listVars
  <2> QED
    BY <1>1, <2>1 DEF Directory!Next, Directory!StartAgain, Directory!Answers
<1>4. CASE StartUnknownPlatform(cam)
  <2>1. cam \notin Live /\ Live' = Live /\ Told' = <<cam, "succeed">>
    BY <1>2, <1>4 DEF StartUnknownPlatform, Live, Told, Reply, listVars
  <2> QED
    BY <1>1, <2>1 DEF Directory!Next, Directory!Start, Directory!Answers
<1>5. CASE StartInvite(cam)
  <2>1. \A e \in m_cameraList : strCamId'[e] = strCamId[e]
    BY <1>5 DEF StartInvite, IInv, TypeOK, SessionTypes, Numbered, Entries
  <2>2. Live' = Live
    BY <1>1, <2>1 DEF Live
  <2>3. http'.pc = "push"
    BY <1>5 DEF StartInvite
  <2> QED
    BY <1>1, <2>2, <2>3, ListAloneStutters DEF ListAlone
<1>6. CASE StopUnknown(cam)
  <2>1. cam \notin Live /\ Live' = Live /\ Told' = <<cam, "not_exist">>
    BY <1>2, <1>6 DEF StopUnknown, Live, Told, Reply, listVars
  <2> QED
    BY <1>1, <2>1 DEF Directory!Next, Directory!StopAgain, Directory!Answers
<1>7. CASE StopBye(cam)
  <2>1. http'.pc = "stop_ffmpeg" /\ Live' = Live
    BY <1>7 DEF StopBye, Live, listVars
  <2> QED
    BY <1>1, <2>1, ListAloneStutters DEF ListAlone
<1> QED
  BY <1>3, <1>4, <1>5, <1>6, <1>7 DEF Request

\* The camera of an entry that is appended was not live; that of one that is
\* erased is live no longer, since no other entry is the camera's.
LEMMA DirectoryHttp ==
  ASSUME IInv, Asked, HttpStep
  PROVE  Directory!Next \/ UNCHANGED <<Live, Told>>
<1>1. CASE StartPush
  <2>1. /\ m_cameraList' = m_cameraList \union {http.at} /\ strCamId' = strCamId
        /\ strCamId[http.at] = http.cam /\ ~ IsLive(http.cam)
        /\ http.pc = "push" /\ http' = Reply(http.cam, "succeed")
    BY <1>1 DEF StartPush, IInv, PushPlan
  <2>2. Live' = Live \union {http.cam}
    BY <2>1 DEF Live
  <2>3. http.cam \notin Live
    BY <2>1 DEF Live, IsLive, IsEntryOf
  <2>4. Told = <<>> /\ Told' = <<http.cam, "succeed">>
    BY <2>1 DEF Told, Reply
  <2>5. http.cam \in Cameras
    BY <2>1 DEF Asked
  <2> QED
    BY <2>2, <2>3, <2>4, <2>5 DEF Directory!Next, Directory!Start, Directory!Answers
<1>2. CASE StopErase
  <2>1. /\ m_cameraList' = m_cameraList \ {http.at} /\ strCamId' = strCamId
        /\ http.at \in m_cameraList /\ strCamId[http.at] = http.cam
        /\ http.pc = "erase" /\ http' = Reply(http.cam, "stopped")
    BY <1>2 DEF StopErase, IInv, StopPlan
  <2>2. \A e \in m_cameraList : strCamId[e] = http.cam => e = http.at
    BY <2>1 DEF IInv, OneEntryPerCamera
  <2>3. Live' = Live \ {http.cam} /\ http.cam \in Live
    BY <2>1, <2>2 DEF Live
  <2>4. Told = <<>> /\ Told' = <<http.cam, "stopped">>
    BY <2>1 DEF Told, Reply
  <2>5. http.cam \in Cameras
    BY <2>1 DEF Asked
  <2> QED
    BY <2>3, <2>4, <2>5 DEF Directory!Next, Directory!Stop, Directory!Answers
<1>3. CASE SendReply
  <2>1. Live' = Live /\ Told' = <<>> /\ Told = <<http.cam, http.reply>>
    BY <1>3 DEF SendReply, Live, Told, Idle, listVars
  <2>2. Told # <<>>
    BY <2>1
  <2> QED
    BY <2>1, <2>2 DEF Directory!Next, Directory!Deliver
<1>4. CASE StopTranscoder \/ StopReceiver \/ StopWildPointer
  <2>1. Live' = Live
    BY <1>4 DEF StopTranscoder, StopReceiver, StopWildPointer, Live, listVars
  <2>2. http'.pc # "reply" /\ http.pc # "reply"
    BY <1>4 DEF StopTranscoder, StopReceiver, StopWildPointer, IInv, TypeOK, HttpType
  <2> QED
    BY <2>1, <2>2, ListAloneStutters DEF ListAlone
<1> QED
  BY <1>1, <1>2, <1>3, <1>4 DEF HttpStep

\* Nobody else touches the list.
LEMMA DirectoryOthers ==
  ASSUME SipStep \/ UNCHANGED vars
         \/ \E e \in Entries : TranscoderExit(e) \/ ReceiverExit(e) \/ ReceiverFault(e)
         \/ \E c \in Entries : PeerAnswer(c) \/ PeerEnds(c)
  PROVE  UNCHANGED <<Live, Told>>
<1>1. UNCHANGED <<m_cameraList, strCamId, http>>
  BY DEF SipStep, SipAnswered, SipMissed, SipAdvance, SipRecord, SipStartTranscoder,
     SipNewCallInfo, SipResetExit, SipBind, SipDangling, TranscoderExit, ReceiverExit,
     ReceiverFault, PeerAnswer, PeerEnds, vars, listVars
<1> QED
  BY <1>1 DEF Live, Told

LEMMA DirectoryStep == IInv /\ Asked /\ [Next]_vars => [Directory!Next]_<<Live, Told>>
  BY DirectoryRequest, DirectoryHttp, DirectoryOthers DEF Next, Halted

\* To the clients the list is a set of cameras, and each request one step on it.
THEOREM RequestsAreAtomicCorrect == Spec => RequestsAreAtomic
  BY DirectoryInit, DirectoryStep, InvCorrect, AskedCorrect, PTL DEF Spec, RequestsAreAtomic, Directory!Spec
=============================================================================
