---------------------- MODULE CameraSessionsRaceProofs ----------------------
(* Theorems about the races of CameraSessions: what a camera that is never *)
(* stopped too early is safe from.                                         *)
EXTENDS CameraSessionsProofs

\* No stop of the camera has found m_pCallInfo invalid.
Timely(cam) == \A e \in early : strCamId[e] # cam

\* A stop has begun on entry e, or has ended.
Closing(e) ==
  \/ Erased(e)
  \/ http.pc \in {"stop_ffmpeg", "stop_rtp", "erase"} /\ http.at = e

Starting == sip.pc \in {"start_ffmpeg", "start_rtp", "reset"}

\* The answer to a call is taken from the queue, and recorded, at most once.
AnswerOnce ==
  /\ \A i, j \in 1 .. Len(answers) : answers[i] = answers[j] => i = j
  /\ \A i \in 1 .. Len(answers) : invite[answers[i]] \notin {"none", "inviting"}
  /\ sip.pc # "wait" =>
       /\ invite[sip.call] \notin {"none", "inviting"}
       /\ \A i \in 1 .. Len(answers) : answers[i] # sip.call
  /\ \A e \in Entries : call_id[e] # Garbage =>
       /\ invite[call_id[e]] \notin {"none", "inviting"}
       /\ \A i \in 1 .. Len(answers) : answers[i] # call_id[e]
       /\ sip.pc = "walk" => call_id[e] # sip.call
  /\ Starting \/ sip.pc = "bind" => call_id[sip.ct] = sip.call

\* The SIP thread knows nothing of an entry that is not in the list yet.
Fresh ==
  /\ early \subseteq 1 .. starts
  /\ http.pc = "push" =>
       /\ call_id[http.at] = Garbage
       /\ http.at \notin early
       /\ sip.pc # "wait" => sip.ct # http.at

\* Of two entries for one camera the older has been erased, and the iterator
\* of the SIP thread never stands on one older than the call.
OldGone ==
  /\ \A e, f \in Entries :
       e < f /\ f <= starts /\ strCamId[e] = strCamId[f] => e \notin m_cameraList
  /\ sip.pc = "walk" /\ Matches => sip.ct >= sip.call

\* A timely camera's entries record their own calls.
OwnId ==
  \A e \in Entries :
    Timely(strCamId[e]) /\ call_id[e] # Garbage => call_id[e] = e

\* An entry's media is started once, if its camera is timely.
StartOnce ==
  /\ sip.pc \in {"start_ffmpeg", "start_rtp"} /\ Timely(strCamId[sip.ct])
       => m_pCallInfo[sip.ct] = "wild"
  /\ sip.pc \in {"reset", "bind"} => m_pCallInfo[sip.ct] # "wild"
  /\ \A e \in receivers : m_pCallInfo[e] # "wild"
  /\ \A e \in Entries : transcoders[e] > 0 =>
       m_pCallInfo[e] # "wild" \/ (sip.pc = "start_rtp" /\ sip.ct = e)

\* A stop of a timely camera finds its media started, ends its call and stays
\* in force.
Closed ==
  \A e \in Entries :
    Timely(strCamId[e]) /\ Closing(e) =>
      /\ call_id[e] # Garbage
      /\ invite[e] # "established"
      /\ m_pCallInfo[e] \in {"run", "exit"}
      /\ Erased(e) \/ http.pc = "erase" => m_pCallInfo[e] = "exit"
      /\ ~ (Starting /\ sip.ct = e)

\* A timely camera's call that is up is being recorded, recorded or missed.
Acknowledged ==
  \A c \in Entries :
    Timely(strCamId[c]) /\ invite[c] = "established" =>
      \/ sip.pc = "walk" /\ sip.call = c
      \/ call_id[c] = c
      \/ c \in missed

RInv ==
  /\ IInv
  /\ AnswerOnce
  /\ Fresh
  /\ OldGone
  /\ OwnId
  /\ StartOnce
  /\ Closed
  /\ Acknowledged
  /\ CrashCause

LEMMA RInvInit == Init => RInv
<1> SUFFICES ASSUME Init PROVE RInv
  OBVIOUS
<1>1. IInv
  BY InvInit
<1>2. AnswerOnce /\ Fresh
  BY DEF Init, AnswerOnce, Fresh, Starting, Wait, Idle, Entries, Garbage
<1>3. OldGone
  BY MaxStartsAssumption DEF Init, OldGone, Wait, Entries
<1>4. OwnId /\ StartOnce /\ Closed /\ Acknowledged /\ CrashCause
  BY MaxStartsAssumption DEF Init, OwnId, StartOnce, Closed, Closing, Erased,
     Starting, Acknowledged, CrashCause, Wait, Idle, Entries, Garbage
<1> QED
  BY <1>1, <1>2, <1>3, <1>4 DEF RInv

\* The entry the SIP thread is about to record a call in is, if its camera is
\* timely, the call's own: its media has not been started.
LEMMA RecordsOwnEntry ==
  ASSUME RInv, sip.pc = "walk", Matches, Timely(strCamId[sip.ct])
  PROVE  /\ sip.ct = sip.call
         /\ call_id[sip.ct] = Garbage
         /\ m_pCallInfo[sip.ct] = "wild"
<1> DEFINE e == sip.ct
           c == sip.call
<1>1. /\ e \in Entries /\ c \in Entries /\ e <= starts /\ c <= starts
      /\ strCamId[e] = strCamId[c] /\ e >= c
  BY DEF RInv, IInv, TypeOK, SipType, Matches, Numbered, OldGone, End
<1>2. call_id[c] # c
  BY <1>1 DEF RInv, AnswerOnce, Garbage, Entries
<1>3. e = c
  <2> SUFFICES ASSUME c < e PROVE FALSE
    BY <1>1, MaxStartsAssumption DEF Entries
  <2>1. c \notin m_cameraList
    BY <1>1 DEF RInv, OldGone
  <2>2. ~ (http.pc = "push" /\ http.at = c)
    BY <1>1 DEF RInv, IInv, PushPlan, Entries
  <2>3. Closing(c)
    BY <1>1, <2>1, <2>2 DEF Closing, Erased
  <2> QED
    BY <1>1, <1>2, <2>3 DEF RInv, Closed, OwnId
<1>4. call_id[e] = Garbage
  BY <1>1, <1>2, <1>3 DEF RInv, OwnId
<1> QED
  BY <1>1, <1>3, <1>4 DEF RInv, IInv, CallIds

\* A step of the SIP thread keeps the invariant.
LEMMA RInvSip ==
  ASSUME RInv, IInv', ~ crashed, SipStep
  PROVE  RInv'
<1> USE DEF IInv, TypeOK, SessionTypes, MediaTypes, CallTypes, HttpType, SipType,
            RInv, AnswerOnce, Fresh, OldGone, OwnId, StartOnce, Closed, Closing,
            Acknowledged, CrashCause, Starting, Erased, Timely, Matches, Entries, Garbage, End,
            mediaVars, listVars, callVars, history
<1>1. CASE SipAnswered
  <2> DEFINE c == Head(answers)
  <2>1. PICK n \in m_cameraList \union {End} :
          IsNext(0, n) /\ sip' = [pc |-> "walk", call |-> c, ct |-> n]
    BY <1>1 DEF SipAnswered
  <2>2. /\ sip.pc = "wait"
        /\ invite' = [invite EXCEPT ![c] = IF @ = "answered" THEN "established" ELSE @]
        /\ UNCHANGED <<listVars, call_id, mediaVars, http, crashed, history>>
    BY <1>1 DEF SipAnswered
  <2>3. /\ Len(answers) \in Nat /\ Len(answers) > 0 /\ c = answers[1] /\ c \in Entries
        /\ Len(answers') = Len(answers) - 1
        /\ \A i \in 1 .. Len(answers') : i + 1 \in 1 .. Len(answers) /\ answers'[i] = answers[i + 1]
    BY <1>1 DEF SipAnswered
  <2>4. c <= starts
    BY <2>3 DEF Numbered
  <2>5. AnswerOnce'
    <3> DEFINE N == Len(answers)
    <3>1. /\ \A i, j \in 1 .. N : answers[i] = answers[j] => i = j
          /\ \A i \in 1 .. N : answers[i] \in Entries
          /\ \A i \in 1 .. N : invite[answers[i]] \notin {"none", "inviting"}
      <4>1. answers \in Seq(1 .. MaxStarts)
        OBVIOUS
      <4>2. \A i \in 1 .. Len(answers) : answers[i] \in 1 .. MaxStarts
        BY ONLY <4>1, MaxStartsAssumption
      <4> QED
        BY <4>2
    <3>2. \A i, j \in 1 .. Len(answers') : answers'[i] = answers'[j] => i = j
      BY ONLY <2>3, <3>1 DEF N
    <3>3. \A i \in 1 .. Len(answers') : answers'[i] # c
      BY ONLY <2>3, <3>1 DEF N, c
    <3>4. \A x \in Entries : invite[x] \notin {"none", "inviting"}
                               => invite'[x] \notin {"none", "inviting"}
      BY <2>2, <2>3
    <3>5. \A i \in 1 .. Len(answers') : invite'[answers'[i]] \notin {"none", "inviting"}
      BY ONLY <2>3, <3>1, <3>4 DEF N
    <3>6. invite'[c] \notin {"none", "inviting"}
      BY ONLY <2>3, <3>1, <3>4 DEF N, c
    <3>7. \A e \in Entries : call_id[e] # Garbage =>
            /\ invite'[call_id[e]] \notin {"none", "inviting"}
            /\ \A i \in 1 .. Len(answers') : answers'[i] # call_id[e]
            /\ call_id[e] # c
      <4> SUFFICES ASSUME NEW e \in Entries, call_id[e] # Garbage
                   PROVE  /\ invite'[call_id[e]] \notin {"none", "inviting"}
                          /\ \A i \in 1 .. Len(answers') : answers'[i] # call_id[e]
                          /\ call_id[e] # c
        OBVIOUS
      <4>1. call_id[e] \in Entries
        <5>1. call_id \in [Entries -> Entries \union {Garbage}]
          OBVIOUS
        <5> QED
          BY ONLY <5>1, e \in Entries, call_id[e] # Garbage
      <4>2. /\ invite[call_id[e]] \notin {"none", "inviting"}
            /\ \A i \in 1 .. N : answers[i] # call_id[e]
        BY DEF AnswerOnce
      <4> QED
        BY ONLY <2>3, <3>4, <4>1, <4>2 DEF N, c
    <3> QED
      BY <2>1, <2>2, <3>2, <3>3, <3>5, <3>6, <3>7
  <2>6. Fresh'
    BY <2>1, <2>2 DEF PushPlan
  <2>7. OldGone'
    BY <2>1, <2>2, <2>3, <2>4
  <2>8. OwnId' /\ StartOnce' /\ CrashCause'
    BY <2>1, <2>2
  <2>9. Closed'
    BY <2>1, <2>2, <2>3
  <2>10. Acknowledged'
    BY <2>1, <2>2
  <2> QED
    BY <2>5, <2>6, <2>7, <2>8, <2>9, <2>10
<1>2. CASE SipMissed
  BY <1>2 DEF SipMissed, Wait
<1>3. CASE SipAdvance
  <2>1. PICK n \in m_cameraList \union {End} :
          IsNext(sip.ct, n) /\ sip' = [sip EXCEPT !.ct = n]
    BY <1>3 DEF SipAdvance
  <2>2. /\ sip.pc = "walk"
        /\ UNCHANGED <<listVars, call_id, mediaVars, callVars, http, crashed, history>>
    BY <1>3 DEF SipAdvance
  <2>3. sip'.pc = "walk" /\ sip'.call = sip.call /\ sip'.ct = n
    BY <2>1, <2>2
  <2>4. AnswerOnce' /\ OwnId' /\ StartOnce' /\ Closed' /\ Acknowledged' /\ CrashCause'
    BY <2>2, <2>3
  <2>5. Fresh'
    BY <2>2, <2>3 DEF PushPlan
  <2>6. OldGone'
    <3>1. n # End /\ strCamId[n] = strCamId[sip.call] => n >= sip.call
      <4>1. sip.call \in Entries /\ sip.call <= starts
        BY <2>2 DEF Numbered
      <4>2. n # End => n \in m_cameraList /\ n \in Entries
        BY <2>1
      <4> QED
        BY <4>1, <4>2
    <3> QED
      BY <2>2, <2>3, <3>1
  <2> QED
    BY <2>4, <2>5, <2>6
<1>4. CASE SipRecord
  <2>1. /\ sip.pc = "walk" /\ Matches
        /\ call_id' = [call_id EXCEPT ![sip.ct] = sip.call]
        /\ sip' = [sip EXCEPT !.pc = "start_ffmpeg"]
        /\ UNCHANGED <<listVars, mediaVars, callVars, http, crashed, history>>
    BY <1>4 DEF SipRecord
  <2>2. sip.ct \in Entries /\ sip.call \in Entries
    BY <2>1
  <2>3. Timely(strCamId[sip.ct]) =>
          /\ sip.ct = sip.call
          /\ call_id[sip.ct] = Garbage
          /\ m_pCallInfo[sip.ct] = "wild"
    BY <2>1, RecordsOwnEntry
  <2>4. /\ sip'.pc = "start_ffmpeg" /\ sip'.call = sip.call /\ sip'.ct = sip.ct
        /\ call_id'[sip.ct] = sip.call
        /\ \A e \in Entries : e # sip.ct => call_id'[e] = call_id[e]
    BY <2>1, <2>2
  <2>5. AnswerOnce'
    BY <2>1, <2>2, <2>4
  <2>6. Fresh' /\ OldGone' /\ CrashCause'
    BY <2>1, <2>2, <2>4
  <2>7. OwnId' /\ StartOnce'
    BY <2>1, <2>2, <2>3, <2>4
  <2>8. Closed'
    BY <2>1, <2>2, <2>3, <2>4
  <2>9. Acknowledged'
    BY <2>1, <2>2, <2>3, <2>4
  <2> QED
    BY <2>5, <2>6, <2>7, <2>8, <2>9
<1>5. CASE SipStartTranscoder
  BY <1>5 DEF SipStartTranscoder
<1>6. CASE SipNewCallInfo
  BY <1>6 DEF SipNewCallInfo
<1>7. CASE SipResetExit
  <2>1. PICK info \in InitSendSocket : m_pCallInfo' = [m_pCallInfo EXCEPT ![sip.ct] = info]
    BY <1>7 DEF SipResetExit
  <2>2. /\ sip.pc = "reset" /\ sip' = [sip EXCEPT !.pc = "bind"]
        /\ UNCHANGED <<listVars, call_id, m_bIsRunning, transcoders, receivers,
                       callVars, http, crashed, history>>
    BY <1>7 DEF SipResetExit
  <2>3. \A e \in Entries : e # sip.ct => m_pCallInfo'[e] = m_pCallInfo[e]
    BY <2>1
  <2>4. m_pCallInfo'[sip.ct] \in {"run", "freed"}
    BY <2>1, <2>2 DEF InitSendSocket
  <2>5. AnswerOnce' /\ Fresh' /\ OldGone' /\ OwnId' /\ Acknowledged' /\ CrashCause'
    BY <2>2
  <2>6. StartOnce'
    BY <2>2, <2>3, <2>4
  <2>7. Closed'
    <3>1. \A e \in Entries : Closing(e)' <=> Closing(e)
      BY <2>2
    <3>2. \A e \in Entries : Timely(strCamId[e]) /\ Closing(e) => e # sip.ct
      BY <2>2
    <3>3. \A e \in Entries : Timely(strCamId[e])' <=> Timely(strCamId[e])
      BY <2>2
    <3>4. \A e \in Entries : Timely(strCamId[e]) /\ Closing(e) => m_pCallInfo'[e] = m_pCallInfo[e]
      BY <2>3, <3>2
    <3> HIDE DEF Timely, Closing, Starting
    <3>5. sip'.ct = sip.ct /\ UNCHANGED <<invite, call_id, http, m_cameraList, starts>>
      BY <2>2
    <3>6. \A e \in Entries : Erased(e)' <=> Erased(e)
      BY <3>5
    <3> QED
      BY <3>1, <3>2, <3>3, <3>4, <3>5, <3>6
  <2> QED
    BY <2>5, <2>6, <2>7
<1>8. CASE SipBind
  BY <1>8 DEF SipBind, Wait
<1>9. CASE SipDangling
  <2>1. UNCHANGED <<listVars, call_id, mediaVars, callVars, http, sip, history>>
    BY <1>9 DEF SipDangling
  <2>2. AnswerOnce' /\ Fresh' /\ OldGone' /\ OwnId' /\ StartOnce' /\ Closed' /\ Acknowledged'
    BY <2>1
  <2>3. ASSUME sip.pc \in {"walk", "start_ffmpeg", "start_rtp"}, sip.ct \notin m_cameraList,
               sip.ct # End
        PROVE  CrashCause'
    <3>1. CASE sip.pc = "walk"
      BY <2>1, <2>3, <3>1
    <3>2. CASE sip.pc # "walk"
      <4>1. Erased(sip.ct)
        BY <2>3, <3>2 DEF Numbered
      <4>2. early # {}
        BY <2>3, <3>2, <4>1
      <4> QED
        BY <2>1, <4>2
    <3> QED
      BY <3>1, <3>2
  <2>4. ASSUME sip.pc = "bind", Invalid(sip.ct) PROVE CrashCause'
    <3>1. m_pCallInfo[sip.ct] = "freed"
      BY <2>4 DEF Invalid
    <3> QED
      BY <2>1, <2>4, <3>1
  <2>5. CrashCause'
    BY <1>9, <2>3, <2>4 DEF SipDangling
  <2> QED
    BY <2>2, <2>5
<1> QED
  BY <1>1, <1>2, <1>3, <1>4, <1>5, <1>6, <1>7, <1>8, <1>9 DEF SipStep

\* A step after which no call is back to being invited leaves what is known of
\* answers as it was.
LEMMA AnswerOnceKept ==
  ASSUME RInv, UNCHANGED <<answers, call_id, sip>>,
         \A c \in Entries : invite[c] \notin {"none", "inviting"}
                            => invite'[c] \notin {"none", "inviting"}
  PROVE  AnswerOnce'
<1> USE DEF RInv, IInv, TypeOK, SessionTypes, CallTypes, SipType, AnswerOnce,
            Starting, Entries, Garbage
<1>1. \A i \in 1 .. Len(answers) : answers[i] \in Entries
  <2>1. answers \in Seq(1 .. MaxStarts)
    OBVIOUS
  <2>2. \A i \in 1 .. Len(answers) : answers[i] \in 1 .. MaxStarts
    BY ONLY <2>1, MaxStartsAssumption
  <2> QED
    BY <2>2
<1>2. \A i \in 1 .. Len(answers') : invite'[answers'[i]] \notin {"none", "inviting"}
  BY <1>1
<1>3. sip'.pc # "wait" =>
        /\ invite'[sip'.call] \notin {"none", "inviting"}
        /\ \A i \in 1 .. Len(answers') : answers'[i] # sip'.call
  OBVIOUS
<1>4. \A e \in Entries : call_id'[e] # Garbage =>
        /\ invite'[call_id'[e]] \notin {"none", "inviting"}
        /\ \A i \in 1 .. Len(answers') : answers'[i] # call_id'[e]
        /\ sip'.pc = "walk" => call_id'[e] # sip'.call
  OBVIOUS
<1> QED
  BY <1>2, <1>3, <1>4

\* Nor does an answer that comes in.
LEMMA AnswersAppended ==
  ASSUME RInv, UNCHANGED <<call_id, sip>>, NEW n \in Entries,
         invite[n] = "inviting", invite' = [invite EXCEPT ![n] = "answered"],
         answers' = Append(answers, n)
  PROVE  AnswerOnce'
<1> USE DEF RInv, IInv, TypeOK, SessionTypes, CallTypes, SipType, Starting,
            Entries, Garbage
<1> DEFINE N == Len(answers)
<1>1. N \in Nat /\ \A i \in 1 .. N : answers[i] \in Entries
  <2>1. answers \in Seq(1 .. MaxStarts)
    OBVIOUS
  <2>2. \A i \in 1 .. Len(answers) : answers[i] \in 1 .. MaxStarts
    BY ONLY <2>1, MaxStartsAssumption
  <2>3. Len(answers) \in Nat
    BY ONLY <2>1
  <2> QED
    BY ONLY <2>2, <2>3 DEF N, Entries
<1>2. /\ Len(answers') = N + 1
      /\ answers'[N + 1] = n
      /\ \A i \in 1 .. N : answers'[i] = answers[i]
  OBVIOUS
<1>3. \A i \in 1 .. Len(answers') : i \in 1 .. N \/ i = N + 1
  BY ONLY <1>1, <1>2 DEF N
<1>4. /\ \A i, j \in 1 .. N : answers[i] = answers[j] => i = j
      /\ \A i \in 1 .. N : answers[i] # n
  BY DEF AnswerOnce
<1>5. \A x \in Entries : invite[x] \notin {"none", "inviting"}
                          => invite'[x] \notin {"none", "inviting"} /\ x # n
  OBVIOUS
<1>6. \A i, j \in 1 .. Len(answers') : answers'[i] = answers'[j] => i = j
  BY ONLY <1>2, <1>3, <1>4
<1>7. \A i \in 1 .. Len(answers') : invite'[answers'[i]] \notin {"none", "inviting"}
  <2>1. \A i \in 1 .. N : invite[answers[i]] \notin {"none", "inviting"}
    BY DEF AnswerOnce
  <2>2. invite'[n] = "answered"
    OBVIOUS
  <2> QED
    BY ONLY <1>1, <1>2, <1>3, <1>5, <2>1, <2>2
<1>8. sip'.pc # "wait" =>
        /\ invite'[sip'.call] \notin {"none", "inviting"}
        /\ \A i \in 1 .. Len(answers') : answers'[i] # sip'.call
  <2>1. sip.pc # "wait" =>
          /\ invite[sip.call] \notin {"none", "inviting"}
          /\ \A i \in 1 .. N : answers[i] # sip.call
          /\ sip.call \in Entries
    BY DEF AnswerOnce
  <2> QED
    BY <1>2, <1>3, <1>5, <2>1
<1>9. \A e \in Entries : call_id'[e] # Garbage =>
        /\ invite'[call_id'[e]] \notin {"none", "inviting"}
        /\ \A i \in 1 .. Len(answers') : answers'[i] # call_id'[e]
        /\ sip'.pc = "walk" => call_id'[e] # sip'.call
  <2>1. \A e \in Entries : call_id[e] # Garbage =>
          /\ invite[call_id[e]] \notin {"none", "inviting"}
          /\ \A i \in 1 .. N : answers[i] # call_id[e]
          /\ sip.pc = "walk" => call_id[e] # sip.call
          /\ call_id[e] \in Entries
    BY DEF AnswerOnce
  <2> QED
    BY <1>2, <1>3, <1>5, <2>1
<1> QED
  BY <1>6, <1>7, <1>8, <1>9 DEF AnswerOnce

\* A step of the HTTP thread that touches no entry keeps the invariant.
LEMMA HttpOnly ==
  ASSUME RInv, IInv',
         UNCHANGED <<m_cameraList, starts, strCamId, call_id, m_pCallInfo,
                     transcoders, receivers, invite, answers, sip, crashed, early,
                     missed>>,
         http'.pc \notin {"push", "erase"},
         \A e \in Entries : Closing(e)' => Closing(e)
  PROVE  RInv'
<1> USE DEF RInv
<1>1. AnswerOnce'
  BY AnswerOnceKept
<1>2. Fresh' /\ OldGone' /\ OwnId'
  BY DEF Fresh, OldGone, OwnId, Timely, Matches
<1>3. StartOnce' /\ Acknowledged' /\ CrashCause'
  BY DEF StartOnce, Acknowledged, CrashCause, Timely
<1>4. Closed'
  <2>1. \A e \in Entries : Erased(e)' => Erased(e) \/ http.pc = "push"
    BY DEF Erased
  <2>2. \A e \in Entries : Erased(e)' => Erased(e) \/ ~ Closing(e)
    BY <2>1 DEF Closing
  <2> QED
    BY <2>2 DEF Closed, Timely, Starting
<1> QED
  BY <1>1, <1>2, <1>3, <1>4

\* A step of the HTTP thread keeps the invariant.
LEMMA RInvHttp ==
  ASSUME RInv, IInv', ~ crashed,
         \/ \E cam \in Cameras : Request(cam)
         \/ HttpStep
  PROVE  RInv'
<1> USE DEF IInv, TypeOK, SessionTypes, MediaTypes, CallTypes, HttpType, SipType,
            RInv, AnswerOnce, Fresh, OldGone, OwnId, StartOnce, Closed, Closing,
            Acknowledged, CrashCause, Starting, Erased, Matches, Entries, Garbage, End,
            mediaVars, listVars, callVars, history
<1>1. ASSUME NEW cam \in Cameras, StartLive(cam) PROVE RInv'
  <2>1. http'.pc \notin {"push", "erase"} /\ \A e \in Entries : Closing(e)' => Closing(e)
    BY <1>1 DEF StartLive, Reply
  <2> QED
    BY <1>1, <2>1, HttpOnly DEF StartLive
<1>2. ASSUME NEW cam \in Cameras, StartUnknownPlatform(cam) PROVE RInv'
  <2>1. http'.pc \notin {"push", "erase"} /\ \A e \in Entries : Closing(e)' => Closing(e)
    BY <1>2 DEF StartUnknownPlatform, Reply
  <2> QED
    BY <1>2, <2>1, HttpOnly DEF StartUnknownPlatform
<1>3. ASSUME NEW cam \in Cameras, StartInvite(cam) PROVE RInv'
  <2> DEFINE n == starts + 1
  <2>1. /\ starts \in Nat /\ n \in Entries /\ starts' = n
        /\ http.pc = "idle" /\ ~ IsLive(cam)
        /\ http' = [pc |-> "push", at |-> n, cam |-> cam, reply |-> "none"]
        /\ UNCHANGED <<m_cameraList, call_id, mediaVars, answers, sip, crashed, history>>
    BY <1>3, MaxStartsAssumption DEF StartInvite
  <2>2. /\ strCamId'[n] = cam
        /\ \A e \in Entries : e # n => strCamId'[e] = strCamId[e]
        /\ \A c \in Entries : c # n => invite'[c] = invite[c]
        /\ invite'[n] \in {"inviting", "over"}
    BY <1>3, <2>1 DEF StartInvite
  <2>3. /\ n \notin m_cameraList /\ n \notin early
        /\ \A e \in Entries : e <= starts => e # n
        /\ \A e \in Entries : e <= n /\ e # n => e <= starts
    BY <2>1 DEF Numbered
  <2>4. \A e \in Entries : e # n => (Timely(strCamId[e])' <=> Timely(strCamId[e]))
    BY <2>1, <2>2, <2>3 DEF Timely
  <2>5. AnswerOnce'
    <3>1. \A c \in Entries : invite[c] \notin {"none", "inviting"}
                              => invite'[c] \notin {"none", "inviting"}
      BY <2>2, <2>3 DEF Numbered
    <3> QED
      BY <2>1, <3>1, AnswerOnceKept
  <2>6. Fresh'
    BY <2>1, <2>2, <2>3 DEF Numbered
  <2>7. OldGone'
    BY <2>1, <2>2, <2>3 DEF Numbered, IsLive, IsEntryOf
  <2>8. OwnId' /\ CrashCause'
    BY <2>1, <2>2, <2>3, <2>4 DEF Numbered
  <2>9. StartOnce'
    BY <2>1, <2>2, <2>3, <2>4 DEF Numbered
  <2>10. Closed'
    BY <2>1, <2>2, <2>3, <2>4
  <2>11. Acknowledged'
    BY <2>1, <2>2, <2>3, <2>4
  <2> QED
    BY <2>5, <2>6, <2>7, <2>8, <2>9, <2>10, <2>11
<1>4. CASE StartPush
  <2>1. /\ http.pc = "push" /\ http' = Reply(http.cam, "succeed")
        /\ m_cameraList' = m_cameraList \union {http.at}
        /\ UNCHANGED <<starts, strCamId, call_id, transcoders, m_pCallInfo, receivers,
                       callVars, sip, crashed, history>>
    BY <1>4 DEF StartPush
  <2>2. AnswerOnce' /\ Fresh' /\ OwnId' /\ StartOnce' /\ Acknowledged' /\ CrashCause'
    BY <2>1 DEF Reply, Timely
  <2>3. OldGone'
    BY <2>1 DEF PushPlan
  <2>4. Closed'
    BY <2>1 DEF Reply, Timely
  <2> QED
    BY <2>2, <2>3, <2>4
<1>5. ASSUME NEW cam \in Cameras, StopUnknown(cam) PROVE RInv'
  <2>1. http'.pc \notin {"push", "erase"} /\ \A e \in Entries : Closing(e)' => Closing(e)
    BY <1>5 DEF StopUnknown, Reply
  <2> QED
    BY <1>5, <2>1, HttpOnly DEF StopUnknown
<1>6. ASSUME NEW cam \in Cameras, StopBye(cam) PROVE RInv'
  <2>1. PICK f \in m_cameraList :
          /\ IsEntryOf(f, cam)
          /\ \E c \in IF call_id[f] = Garbage THEN Entries \union {Garbage}
                                              ELSE {call_id[f]} :
               invite' = Terminated(c)
          /\ early' = IF Invalid(f) \/ (sip.pc = "reset" /\ sip.ct = f)
                      THEN early \union {f}
                      ELSE early
          /\ http' = [pc |-> "stop_ffmpeg", at |-> f, cam |-> cam, reply |-> "none"]
    BY <1>6 DEF StopBye
  <2>2. /\ http.pc = "idle"
        /\ UNCHANGED <<listVars, call_id, mediaVars, answers, sip, crashed, missed>>
    BY <1>6 DEF StopBye
  <2>3. f \in Entries /\ f <= starts
    BY DEF Numbered
  <2>4. \A c \in Entries :
          /\ invite[c] \notin {"none", "inviting"} => invite'[c] \notin {"none", "inviting"}
          /\ invite'[c] = "established" => invite[c] = "established"
    BY <2>1 DEF Terminated
  <2>5. \A e \in Entries : Timely(strCamId[e])' => Timely(strCamId[e])
    BY <2>1, <2>2 DEF Timely
  <2>6. AnswerOnce'
    BY <2>2, <2>4, AnswerOnceKept
  <2>7. Fresh'
    BY <2>1, <2>2, <2>3
  <2>8. OldGone' /\ CrashCause'
    BY <2>1, <2>2
  <2>9. OwnId' /\ StartOnce'
    BY <2>2, <2>5
  <2>10. Closed'
    <3>1. ASSUME Timely(strCamId[f])'
          PROVE  /\ call_id[f] # Garbage
                 /\ invite'[f] # "established"
                 /\ m_pCallInfo[f] \in {"run", "exit"}
                 /\ ~ (Starting /\ sip.ct = f)
      <4>1. f \notin early'
        BY <2>2, <2>3, <3>1 DEF Timely
      <4>2. ~ Invalid(f) /\ ~ (sip.pc = "reset" /\ sip.ct = f)
        BY <2>1, <4>1
      <4>3. m_pCallInfo[f] \in {"run", "exit"}
        BY <2>3, <4>2 DEF Invalid
      <4>4. call_id[f] # Garbage
        BY <2>3, <4>3 DEF CallIds
      <4>5. call_id[f] = f
        BY <2>2, <2>3, <2>5, <3>1, <4>4
      <4>6. invite'[f] # "established"
        BY <2>1, <2>3, <4>4, <4>5 DEF Terminated
      <4>7. ~ (Starting /\ sip.ct = f)
        BY <2>2, <2>5, <3>1, <4>2, <4>3
      <4> QED
        BY <4>3, <4>4, <4>6, <4>7
    <3>2. ASSUME NEW e \in Entries, Timely(strCamId[e])', Closing(e)', e # f
          PROVE  Timely(strCamId[e]) /\ Erased(e)
      BY <2>1, <2>2, <2>5, <3>2
    <3>3. http'.pc = "stop_ffmpeg" /\ ~ Erased(f)'
      BY <2>1, <2>2
    <3> QED
      BY <2>2, <2>4, <3>1, <3>2, <3>3
  <2>11. Acknowledged'
    BY <2>2, <2>4, <2>5
  <2> QED
    BY <2>6, <2>7, <2>8, <2>9, <2>10, <2>11
<1>7. CASE StopTranscoder
  <2>1. http'.pc \notin {"push", "erase"} /\ \A e \in Entries : Closing(e)' => Closing(e)
    BY <1>7 DEF StopTranscoder
  <2> QED
    BY <1>7, <2>1, HttpOnly DEF StopTranscoder
<1>8. CASE StopReceiver
  <2>1. /\ http.pc = "stop_rtp" /\ http' = [http EXCEPT !.pc = "erase"]
        /\ m_pCallInfo' = [m_pCallInfo EXCEPT ![http.at] = Stopped(@)]
        /\ UNCHANGED <<listVars, call_id, m_bIsRunning, transcoders, receivers,
                       callVars, sip, crashed, history>>
    BY <1>8 DEF StopReceiver
  <2>2. \A e \in Entries :
          /\ m_pCallInfo'[e] = "wild" <=> m_pCallInfo[e] = "wild"
          /\ m_pCallInfo'[e] # m_pCallInfo[e] => e = http.at
          /\ m_pCallInfo[e] \in {"run", "exit"} => m_pCallInfo'[e] \in {"run", "exit"}
          /\ m_pCallInfo[e] = "exit" => m_pCallInfo'[e] = "exit"
          /\ e = http.at /\ m_pCallInfo[e] = "run" => m_pCallInfo'[e] = "exit"
    BY <2>1 DEF Stopped
  <2>3. AnswerOnce' /\ Fresh' /\ OldGone' /\ OwnId' /\ Acknowledged' /\ CrashCause'
    BY <2>1 DEF Timely
  <2>4. StartOnce'
    BY <2>1, <2>2 DEF Timely
  <2>5. Closed'
    BY <2>1, <2>2 DEF Timely
  <2> QED
    BY <2>3, <2>4, <2>5
<1>9. CASE StopWildPointer
  <2>1. /\ http.pc = "stop_rtp" /\ Invalid(http.at)
        /\ UNCHANGED <<listVars, call_id, mediaVars, callVars, http, sip, history>>
    BY <1>9 DEF StopWildPointer
  <2>2. early # {}
    BY <2>1 DEF Invalid, Timely
  <2>3. AnswerOnce' /\ Fresh' /\ OldGone' /\ OwnId' /\ StartOnce' /\ Closed' /\ Acknowledged'
    BY <2>1 DEF Timely
  <2> QED
    BY <2>1, <2>2, <2>3
<1>10. CASE StopErase
  <2>1. /\ http.pc = "erase" /\ http' = Reply(http.cam, "stopped")
        /\ m_cameraList' = m_cameraList \ {http.at}
        /\ UNCHANGED <<starts, strCamId, call_id, mediaVars, callVars, sip, crashed, history>>
    BY <1>10 DEF StopErase
  <2>2. AnswerOnce'
    BY <2>1, AnswerOnceKept
  <2>3. Fresh' /\ OldGone' /\ OwnId' /\ StartOnce' /\ Acknowledged' /\ CrashCause'
    BY <2>1 DEF Reply, Timely
  <2>4. Closed'
    BY <2>1 DEF Reply, Timely
  <2> QED
    BY <2>2, <2>3, <2>4
<1>11. CASE SendReply
  <2>1. http'.pc \notin {"push", "erase"} /\ \A e \in Entries : Closing(e)' => Closing(e)
    BY <1>11 DEF SendReply, Idle
  <2> QED
    BY <1>11, <2>1, HttpOnly DEF SendReply
<1> QED
  BY <1>1, <1>2, <1>3, <1>4, <1>5, <1>6, <1>7, <1>8, <1>9, <1>10, <1>11
  DEF Request, HttpStep

\* A step of a media thread or of the peer keeps the invariant.
LEMMA RInvEnvironment ==
  ASSUME RInv, IInv', ~ crashed, NEW n \in Entries,
         \/ TranscoderExit(n) \/ ReceiverExit(n) \/ ReceiverFault(n)
         \/ PeerAnswer(n) \/ PeerEnds(n)
  PROVE  RInv'
<1> USE DEF IInv, TypeOK, SessionTypes, MediaTypes, CallTypes, HttpType, SipType,
            RInv, AnswerOnce, Fresh, OldGone, OwnId, StartOnce, Closed, Closing,
            Acknowledged, CrashCause, Starting, Erased, Timely, Matches, Entries, Garbage, End,
            mediaVars, listVars, callVars, history
<1>1. CASE TranscoderExit(n)
  <2>1. UNCHANGED <<m_cameraList, starts, strCamId, call_id, m_pCallInfo, receivers,
                    invite, answers, http, sip, crashed, early, missed>>
    BY <1>1 DEF TranscoderExit
  <2>2. \A e \in Entries : transcoders'[e] > 0 => transcoders[e] > 0
    BY <1>1 DEF TranscoderExit
  <2>3. AnswerOnce'
    BY <2>1, AnswerOnceKept
  <2>4. Fresh' /\ OwnId'
    BY ONLY <2>1, RInv DEF RInv, Fresh, OwnId, Timely
  <2>5. OldGone'
    BY ONLY <2>1, RInv DEF RInv, OldGone, Matches
  <2>6. StartOnce'
    BY <2>1, <2>2
  <2>7. Closed'
    BY <2>1
  <2>8. Acknowledged' /\ CrashCause'
    BY <2>1
  <2> QED
    BY <2>3, <2>4, <2>5, <2>6, <2>7, <2>8
<1>2. CASE ReceiverExit(n)
  <2>1. /\ receivers' = receivers \ {n}
        /\ UNCHANGED <<listVars, call_id, m_bIsRunning, transcoders, m_pCallInfo,
                       callVars, http, sip, crashed, history>>
    BY <1>2 DEF ReceiverExit
  <2>2. AnswerOnce'
    BY <2>1, AnswerOnceKept
  <2>3. Fresh' /\ OldGone' /\ OwnId' /\ StartOnce'
    BY <2>1
  <2>4. Closed' /\ Acknowledged' /\ CrashCause'
    BY <2>1
  <2> QED
    BY <2>2, <2>3, <2>4
<1>3. CASE ReceiverFault(n)
  <2>1. /\ n \in receivers /\ Invalid(n)
        /\ UNCHANGED <<listVars, call_id, mediaVars, callVars, http, sip, history>>
    BY <1>3 DEF ReceiverFault
  <2>2. AnswerOnce'
    BY <2>1, AnswerOnceKept
  <2>3. Fresh' /\ OldGone' /\ OwnId' /\ StartOnce'
    BY <2>1
  <2>4. Closed' /\ Acknowledged' /\ CrashCause'
    BY <2>1 DEF Invalid
  <2> QED
    BY <2>2, <2>3, <2>4
<1>4. CASE PeerAnswer(n)
  <2>1. /\ invite[n] = "inviting" /\ invite' = [invite EXCEPT ![n] = "answered"]
        /\ answers' = Append(answers, n)
        /\ UNCHANGED <<listVars, call_id, mediaVars, http, sip, crashed, history>>
    BY <1>4 DEF PeerAnswer
  <2>2. AnswerOnce'
    BY <2>1, AnswersAppended
  <2>3. Fresh' /\ OldGone' /\ OwnId' /\ StartOnce'
    BY <2>1
  <2>4. Closed' /\ Acknowledged' /\ CrashCause'
    BY <2>1
  <2> QED
    BY <2>2, <2>3, <2>4
<1>5. CASE PeerEnds(n)
  <2>1. /\ invite[n] \in {"inviting", "answered", "established"}
        /\ invite' = [invite EXCEPT ![n] = "over"]
        /\ UNCHANGED <<listVars, call_id, mediaVars, answers, http, sip, crashed, history>>
    BY <1>5 DEF PeerEnds
  <2>2. AnswerOnce'
    <3>1. \A c \in Entries : invite[c] \notin {"none", "inviting"}
                              => invite'[c] \notin {"none", "inviting"}
      BY <2>1
    <3> QED
      BY <2>1, <3>1, AnswerOnceKept
  <2>3. Fresh' /\ OldGone' /\ OwnId' /\ StartOnce'
    BY <2>1
  <2>4. Closed' /\ Acknowledged' /\ CrashCause'
    BY <2>1
  <2> QED
    BY <2>2, <2>3, <2>4
<1> QED
  BY <1>1, <1>2, <1>3, <1>4, <1>5

LEMMA RInvStep == RInv /\ [Next]_vars => RInv'
<1> SUFFICES ASSUME RInv, [Next]_vars PROVE RInv'
  OBVIOUS
<1>1. IInv'
  BY InvStep DEF RInv
<1>2. CASE UNCHANGED vars
  <2>1. AnswerOnce' /\ Fresh' /\ OldGone' /\ OwnId'
    BY <1>2 DEF vars, RInv, AnswerOnce, Fresh, OldGone, OwnId, Matches, Starting, Timely
  <2>2. StartOnce' /\ Closed' /\ Acknowledged' /\ CrashCause'
    BY <1>2 DEF vars, RInv, StartOnce, Closed, Closing, Erased, Starting,
       Acknowledged, Timely, CrashCause
  <2> QED
    BY <1>1, <2>1, <2>2 DEF RInv
<1>3. CASE Next
  BY <1>1, <1>2, <1>3, RInvHttp, RInvSip, RInvEnvironment DEF Next, Halted
<1> QED
  BY <1>2, <1>3

LEMMA RInvCorrect == Spec => []RInv
  BY RInvInit, RInvStep, PTL DEF Spec

-----------------------------------------------------------------------------
(* What follows from it.                                                   *)

\* A well-timed camera has no call that is up and that no stop can end.
THEOREM NoOrphanCallCorrect == Spec => []NoOrphanCall
<1>1. RInv => NoOrphanCall
  <2> SUFFICES ASSUME RInv, NEW c \in Entries, WellTimed(strCamId[c]), Orphan(c)
               PROVE  FALSE
    BY DEF NoOrphanCall
  <2>1. Timely(strCamId[c]) /\ c \notin missed
    BY DEF WellTimed, Timely
  <2>2. call_id[c] = c
    BY <2>1 DEF Orphan, RInv, Acknowledged
  <2>3. c # Garbage /\ c <= starts /\ c \notin m_cameraList
    BY <2>2 DEF Orphan, RInv, IInv, Numbered, Entries, Garbage
  <2>4. Erased(c)
    BY <2>2, <2>3 DEF RInv, Fresh, Erased
  <2> QED
    BY <2>1, <2>4 DEF RInv, Closed, Closing, Orphan
<1> QED
  BY <1>1, RInvCorrect, PTL

\* A well-timed camera has no receivers that nobody can stop.
THEOREM NoRunawayReceiverCorrect == Spec => []NoRunawayReceiver
<1>1. RInv => NoRunawayReceiver
  <2> SUFFICES ASSUME RInv, NEW e \in receivers \ m_cameraList,
                      m_pCallInfo[e] = "run", WellTimed(strCamId[e])
               PROVE  FALSE
    BY DEF NoRunawayReceiver
  <2>1. e \in Entries /\ Timely(strCamId[e])
    BY DEF WellTimed, Timely, RInv, IInv, TypeOK, MediaTypes
  <2>2. call_id[e] # Garbage
    BY <2>1 DEF RInv, IInv, CallIds
  <2>3. Erased(e)
    BY <2>1, <2>2 DEF RInv, IInv, Numbered, Fresh, Erased
  <2> QED
    BY <2>1, <2>3 DEF RInv, Closed, Closing
<1> QED
  BY <1>1, RInvCorrect, PTL

\* The media objects of a well-timed camera's entry are started once.
THEOREM MediaStartedOnceCorrect == Spec => []MediaStartedOnce
<1>1. RInv => MediaStartedOnce
  <2> SUFFICES ASSUME RInv, sip.pc = "start_ffmpeg", WellTimed(strCamId[sip.ct])
               PROVE  m_pCallInfo[sip.ct] = "wild" /\ transcoders[sip.ct] = 0
    BY DEF MediaStartedOnce
  <2>1. sip.ct \in Entries /\ transcoders[sip.ct] \in Nat
    BY DEF RInv, IInv, TypeOK, SipType, MediaTypes
  <2>2. m_pCallInfo[sip.ct] = "wild"
    BY DEF RInv, StartOnce, WellTimed, Timely
  <2> QED
    BY <2>1, <2>2 DEF RInv, StartOnce
<1> QED
  BY <1>1, RInvCorrect, PTL

\* The process dies of an early stop, a node erased under the walk or a
\* CALL_INFO_ST that rtp_socket::run deleted, and of nothing else that this module
\* models.
THEOREM CrashCauseCorrect == Spec => []CrashCause
<1>1. RInv => CrashCause
  BY DEF RInv
<1> QED
  BY <1>1, RInvCorrect, PTL

-----------------------------------------------------------------------------
(* What a stop leaves behind.                                              *)

\* The threads of entry e that are alive or about to be started.
Remaining(e) ==
  transcoders[e] + (IF e \in receivers THEN 1 ELSE 0)
    + (IF sip.pc = "bind" /\ sip.ct = e THEN 1 ELSE 0)

\* The stop of a well-timed camera is final: the entry never returns to the list,
\* what tells its threads to end stays in force, and none is started any more but
\* the receivers that run was about to start.
ErasedForGood(e) ==
  Erased(e) /\ WellTimed(strCamId[e])' =>
    /\ Erased(e)'
    /\ ~ m_bIsRunning'[e] /\ m_pCallInfo'[e] = "exit"
    /\ Remaining(e)' <= Remaining(e)

StopIsFinal == [][\A e \in Entries : ErasedForGood(e)]_vars

\* The numbers that a step gives out are new.
LEMMA NumberSteps ==
  ASSUME TypeOK, [Next]_vars
  PROVE  /\ starts \in Nat /\ (starts' = starts \/ starts' = starts + 1)
         /\ \A f \in Entries : f <= starts => strCamId'[f] = strCamId[f]
         /\ m_cameraList' \subseteq m_cameraList \union (IF http.pc = "push" THEN {http.at} ELSE {})
         /\ http'.pc = "push" => http' = http \/ http'.at = starts + 1
         /\ early \subseteq early'
<1> USE DEF TypeOK, SessionTypes, HttpType, listVars, history
<1>1. starts \in Nat /\ starts + 1 # starts
  BY MaxStartsAssumption
<1>2. ASSUME NEW cam \in Cameras, Request(cam)
      PROVE  /\ starts' = starts \/ starts' = starts + 1
             /\ \A f \in Entries : f <= starts => strCamId'[f] = strCamId[f]
             /\ m_cameraList' = m_cameraList
             /\ http'.pc = "push" => http'.at = starts + 1
             /\ early \subseteq early'
  BY <1>1, <1>2 DEF Request, StartLive, StartUnknownPlatform, StartInvite, StopUnknown, StopBye,
     Reply
<1>3. CASE HttpStep
  <2>1. starts' = starts /\ strCamId' = strCamId /\ early' = early
    BY <1>3 DEF HttpStep, StartPush, StopTranscoder, StopReceiver, StopWildPointer, StopErase,
       SendReply
  <2>2. m_cameraList' \subseteq m_cameraList \union (IF http.pc = "push" THEN {http.at} ELSE {})
    BY <1>3 DEF HttpStep, StartPush, StopTranscoder, StopReceiver, StopWildPointer, StopErase,
       SendReply
  <2>3. http'.pc = "push" => http' = http
    BY <1>3 DEF HttpStep, StartPush, StopTranscoder, StopReceiver, StopWildPointer, StopErase,
       SendReply, Reply, Idle
  <2> QED
    BY <1>1, <2>1, <2>2, <2>3
<1>4. CASE UNCHANGED <<m_cameraList, starts, strCamId, http, early>>
  BY <1>1, <1>4
<1>5. SipStep => UNCHANGED <<m_cameraList, starts, strCamId, http, early>>
  BY DEF SipStep, SipAnswered, SipMissed, SipAdvance, SipRecord, SipStartTranscoder,
     SipNewCallInfo, SipResetExit, SipBind, SipDangling
<1>6. \A n \in Entries :
        TranscoderExit(n) \/ ReceiverExit(n) \/ ReceiverFault(n) \/ PeerAnswer(n) \/ PeerEnds(n)
          => UNCHANGED <<m_cameraList, starts, strCamId, http, early>>
  BY DEF TranscoderExit, ReceiverExit, ReceiverFault, PeerAnswer, PeerEnds
<1> QED
  BY <1>1, <1>2, <1>3, <1>4, <1>5, <1>6 DEF Next, Halted, vars

\* A thread is started only for the entry that the SIP thread stands on.
LEMMA ThreadSteps ==
  ASSUME TypeOK, TypeOK', [Next]_vars, NEW e \in Entries, ~ (Starting /\ sip.ct = e)
  PROVE  Remaining(e)' <= Remaining(e)
<1> USE DEF TypeOK, MediaTypes
<1>1. transcoders[e] \in Nat /\ transcoders'[e] \in Nat
  OBVIOUS
<1>2. CASE /\ transcoders'[e] <= transcoders[e] /\ receivers' \subseteq receivers
           /\ sip'.pc = "bind" /\ sip'.ct = e => sip.pc = "bind" /\ sip.ct = e
  BY <1>1, <1>2 DEF Remaining
<1>3. CASE SipBind
  <2>1. /\ transcoders' = transcoders /\ sip.pc = "bind" /\ sip'.pc = "wait"
        /\ receivers' \subseteq receivers \union {sip.ct}
    BY <1>3 DEF SipBind, Wait
  <2> QED
    BY <1>1, <2>1 DEF Remaining
<1>4. CASE SipStartTranscoder
  <2>1. /\ transcoders' = [transcoders EXCEPT ![sip.ct] = transcoders[sip.ct] + 1]
        /\ receivers' = receivers /\ sip.ct # e /\ sip'.pc = "start_rtp"
    BY <1>4 DEF SipStartTranscoder, Starting, SipType
  <2> QED
    BY <1>1, <1>2, <2>1
<1>5. CASE SipResetExit
  <2>1. transcoders' = transcoders /\ receivers' = receivers /\ sip.ct # e /\ sip'.ct = sip.ct
    BY <1>5 DEF SipResetExit, Starting, SipType
  <2> QED
    BY <1>1, <1>2, <2>1
<1>6. CASE SipAnswered \/ SipMissed \/ SipAdvance \/ SipRecord \/ SipNewCallInfo \/ SipDangling
  <2>1. transcoders' = transcoders /\ receivers' = receivers
    BY <1>6 DEF SipAnswered, SipMissed, SipAdvance, SipRecord, SipNewCallInfo, SipDangling,
       mediaVars
  <2>2. sip' = sip \/ sip'.pc # "bind"
    BY <1>6 DEF SipAnswered, SipMissed, SipAdvance, SipRecord, SipNewCallInfo, SipDangling,
       Wait, SipType
  <2> QED
    BY <1>1, <1>2, <2>1, <2>2
<1>7. ASSUME NEW n \in Entries, TranscoderExit(n)
      PROVE  Remaining(e)' <= Remaining(e)
  <2>1. /\ transcoders' = [transcoders EXCEPT ![n] = transcoders[n] - 1] /\ transcoders[n] \in Nat
        /\ receivers' = receivers /\ sip' = sip
    BY <1>7 DEF TranscoderExit
  <2> QED
    BY <1>1, <1>2, <2>1
<1>8. ASSUME NEW n \in Entries, ReceiverExit(n)
      PROVE  Remaining(e)' <= Remaining(e)
  BY <1>1, <1>2, <1>8 DEF ReceiverExit
<1>9. CASE UNCHANGED <<transcoders, receivers, sip>>
  BY <1>1, <1>2, <1>9
<1>10. \/ SipStep \/ UNCHANGED <<transcoders, receivers, sip>>
       \/ \E n \in Entries : TranscoderExit(n) \/ ReceiverExit(n)
  BY DEF Next, Request, HttpStep, Halted, vars, mediaVars, StartLive, StartUnknownPlatform,
     StartInvite, StartPush, StopUnknown, StopBye, StopTranscoder, StopReceiver,
     StopWildPointer, StopErase, SendReply, ReceiverFault, PeerAnswer, PeerEnds
<1> QED
  BY <1>3, <1>4, <1>5, <1>6, <1>7, <1>8, <1>9, <1>10 DEF SipStep

LEMMA StopIsFinalStep ==
  ASSUME RInv, RInv', [Next]_vars, NEW e \in Entries
  PROVE  ErasedForGood(e)
<1> SUFFICES ASSUME Erased(e), WellTimed(strCamId[e])'
             PROVE  /\ Erased(e)'
                    /\ ~ m_bIsRunning'[e] /\ m_pCallInfo'[e] = "exit"
                    /\ Remaining(e)' <= Remaining(e)
  BY DEF ErasedForGood
<1>1. TypeOK /\ TypeOK'
  BY DEF RInv, IInv
<1>2. /\ starts \in Nat /\ (starts' = starts \/ starts' = starts + 1)
      /\ \A f \in Entries : f <= starts => strCamId'[f] = strCamId[f]
      /\ m_cameraList' \subseteq m_cameraList \union (IF http.pc = "push" THEN {http.at} ELSE {})
      /\ http'.pc = "push" => http' = http \/ http'.at = starts + 1
      /\ early \subseteq early'
  BY <1>1, NumberSteps
<1>3. e \in Nat /\ e <= starts /\ e \notin m_cameraList /\ ~ (http.pc = "push" /\ http.at = e)
  BY DEF Erased, Entries
<1>4. Erased(e)'
  BY <1>2, <1>3 DEF Erased
<1>5. Timely(strCamId[e]) /\ Timely(strCamId[e])'
  <2>1. Timely(strCamId[e])'
    BY DEF WellTimed, Timely
  <2>2. ASSUME NEW f \in early PROVE strCamId[f] # strCamId[e]
    <3>1. f \in Entries /\ f <= starts /\ f \in early'
      BY <1>1, <1>2, <2>2 DEF RInv, Fresh, TypeOK
    <3>2. strCamId'[f] = strCamId[f] /\ strCamId'[e] = strCamId[e]
      BY <1>2, <1>3, <3>1
    <3> QED
      BY <2>1, <3>1, <3>2 DEF Timely
  <2> QED
    BY <2>1, <2>2 DEF Timely
<1>6. m_pCallInfo'[e] = "exit"
  BY <1>4, <1>5 DEF RInv, Closed, Closing
<1>7. ~ m_bIsRunning'[e]
  BY <1>4 DEF RInv, IInv, NoRunawayTranscoder, Erased
<1>8. ~ (Starting /\ sip.ct = e)
  BY <1>5 DEF RInv, Closed, Closing
<1> QED
  BY <1>1, <1>4, <1>6, <1>7, <1>8, ThreadSteps

\* What fairness adds to it is that the threads that remain take their last steps.
THEOREM StopIsFinalCorrect == Spec => StopIsFinal
<1>1. RInv /\ RInv' /\ [Next]_vars => [\A e \in Entries : ErasedForGood(e)]_vars
  BY StopIsFinalStep
<1> QED
  BY <1>1, RInvCorrect, PTL DEF Spec, StopIsFinal
-----------------------------------------------------------------------------
(* What becomes of an answer.                                              *)

\* An answered call is in the queue until it is acknowledged, and a call is taken
\* from the queue once: it is there once, and neither the walk of the SIP thread
\* nor an entry has it already.
AnswerIsKept ==
  /\ \A c \in Entries :
       invite[c] = "answered" => \E i \in 1 .. Len(answers) : answers[i] = c
  /\ \A i, j \in 1 .. Len(answers) : answers[i] = answers[j] => i = j
  /\ \A i \in 1 .. Len(answers) :
       /\ sip.pc # "wait" => answers[i] # sip.call
       /\ \A e \in Entries : call_id[e] # answers[i]

InQueue(c) == \E i \in 1 .. Len(answers) : answers[i] = c

\* A step leaves a call in the queue, unless it is the head and acknowledged.
LEMMA QueueSteps ==
  ASSUME TypeOK, [Next]_vars, NEW c \in Entries, invite'[c] = "answered"
  PROVE  \/ invite[c] = "answered" /\ (InQueue(c) => InQueue(c)')
         \/ InQueue(c)'
<1> USE DEF callVars
<1>0. answers \in Seq(Entries) /\ invite \in [Entries -> InviteStates]
  BY DEF TypeOK, CallTypes
<1>1. CASE UNCHANGED answers /\ invite'[c] = invite[c]
  BY <1>1 DEF InQueue
<1>2. CASE SipAnswered
  <2> DEFINE h == Head(answers)
  <2>1. /\ answers # <<>> /\ answers' = Tail(answers)
        /\ invite' = [invite EXCEPT ![h] = IF invite[h] = "answered" THEN "established" ELSE invite[h]]
    BY <1>2 DEF SipAnswered
  <2>2. c # h /\ invite[c] = "answered"
    BY <1>0, <2>1
  <2>3. ASSUME NEW i \in 1 .. Len(answers), answers[i] = c PROVE InQueue(c)'
    <3>1. i # 1
      BY <1>0, <2>1, <2>2, <2>3
    <3>2. i - 1 \in 1 .. Len(answers') /\ answers'[i - 1] = answers[i]
      BY <1>0, <2>1, <3>1
    <3> QED
      BY <2>3, <3>2 DEF InQueue
  <2> QED
    BY <2>2, <2>3 DEF InQueue
<1>3. ASSUME NEW n \in Entries, PeerAnswer(n) PROVE invite[c] = "answered" \/ InQueue(c)'
  <2>1. answers' = Append(answers, n) /\ invite' = [invite EXCEPT ![n] = "answered"]
    BY <1>3 DEF PeerAnswer
  <2>2. Len(answers') = Len(answers) + 1 /\ answers'[Len(answers) + 1] = n /\ Len(answers) \in Nat
    BY <1>0, <2>1
  <2>3. c = n => InQueue(c)'
    BY <2>2 DEF InQueue
  <2>4. c # n => invite[c] = "answered"
    BY <1>0, <2>1
  <2> QED
    BY <2>3, <2>4
<1>4. ASSUME NEW n \in Entries, PeerAnswer(n) PROVE InQueue(c) => InQueue(c)'
  <2>1. answers' = Append(answers, n)
    BY <1>4 DEF PeerAnswer
  <2>2. Len(answers') = Len(answers) + 1 /\ Len(answers) \in Nat
        /\ \A i \in 1 .. Len(answers) : answers'[i] = answers[i]
    BY <1>0, <2>1
  <2> QED
    BY <2>2 DEF InQueue
<1>5. ASSUME NEW n, NEW s \in {"inviting", "over"}, invite' = [invite EXCEPT ![n] = s] PROVE invite'[c] = invite[c]
  BY <1>0, <1>5
<1>6. ASSUME NEW n, invite' = Terminated(n) PROVE invite'[c] = invite[c]
  BY <1>0, <1>6 DEF Terminated
<1>7. ASSUME NEW cam \in Cameras, Request(cam) PROVE UNCHANGED answers /\ invite'[c] = invite[c]
  BY <1>5, <1>6, <1>7 DEF Request, StartLive, StartUnknownPlatform, StartInvite, StopUnknown, StopBye
<1>8. ASSUME NEW n \in Entries, PeerEnds(n) PROVE UNCHANGED answers /\ invite'[c] = invite[c]
  BY <1>5, <1>8 DEF PeerEnds
<1>9. HttpStep => UNCHANGED callVars
  BY DEF HttpStep, StartPush, StopTranscoder, StopReceiver, StopWildPointer, StopErase, SendReply
<1>10. SipStep /\ ~ SipAnswered => UNCHANGED callVars
  BY DEF SipStep, SipMissed, SipAdvance, SipRecord, SipStartTranscoder, SipNewCallInfo, SipResetExit,
     SipBind, SipDangling
<1>11. \A e \in Entries : TranscoderExit(e) \/ ReceiverExit(e) \/ ReceiverFault(e) => UNCHANGED callVars
  BY DEF TranscoderExit, ReceiverExit, ReceiverFault
<1>12. UNCHANGED vars => UNCHANGED callVars
  BY DEF vars
<1> QED
  BY <1>1, <1>2, <1>3, <1>4, <1>7, <1>8, <1>9, <1>10, <1>11, <1>12 DEF Next, Halted

\* What AnswerIsAcknowledged adds to it is that the SIP thread comes to the answer.
THEOREM AnswerIsKeptCorrect == Spec => []AnswerIsKept
<1> DEFINE Kept == \A c \in Entries : invite[c] = "answered" => InQueue(c)
<1>1. Init => Kept
  BY DEF Init
<1>2. RInv /\ Kept /\ [Next]_vars => Kept'
  BY QueueSteps DEF RInv, IInv
<1>3. RInv /\ Kept => AnswerIsKept
  <2> SUFFICES ASSUME RInv, Kept PROVE AnswerIsKept
    OBVIOUS
  <2>1. \A i \in 1 .. Len(answers) : answers[i] # Garbage
    <3>1. answers \in Seq(1 .. MaxStarts)
      BY DEF RInv, IInv, TypeOK, CallTypes, Entries
    <3>2. \A i \in 1 .. Len(answers) : answers[i] \in 1 .. MaxStarts
      BY ONLY <3>1, MaxStartsAssumption
    <3> QED
      BY <3>2, MaxStartsAssumption DEF Garbage
  <2>2. AnswerOnce
    BY DEF RInv
  <2> QED
    BY <2>1, <2>2 DEF AnswerIsKept, AnswerOnce, InQueue
<1> QED
  BY <1>1, <1>2, <1>3, RInvCorrect, PTL DEF Spec

\* How much the SIP thread still does for an answer: the entries before it on its
\* walk, and what it starts for the one that it finds.
Work ==
  IF sip.pc = "walk" THEN (IF sip.ct = End THEN 1 ELSE 5 + MaxStarts - sip.ct)
  ELSE [wait |-> 0, bind |-> 1, reset |-> 2, start_rtp |-> 3, start_ffmpeg |-> 4][sip.pc]

\* Whatever the HTTP thread appends to the list or erases under the walk, every
\* step of the SIP thread brings it nearer to the next answer.
WalkEnds == [][sip.pc # "wait" => UNCHANGED sip \/ Work' < Work]_vars

LEMMA WorkFalls ==
  ASSUME TypeOK, [Next]_vars, sip.pc # "wait"
  PROVE  UNCHANGED sip \/ Work' < Work
<1> USE DEF Work, End, Wait
<1>0. /\ MaxStarts \in Nat /\ sip.ct \in 0 .. MaxStarts /\ m_cameraList \subseteq 1 .. MaxStarts
      /\ sip.pc \in {"walk", "start_ffmpeg", "start_rtp", "reset", "bind"}
      /\ sip.pc # "walk" => sip.ct # 0
      /\ sip = [pc |-> sip.pc, call |-> sip.call, ct |-> sip.ct]
  BY MaxStartsAssumption DEF TypeOK, SipType, SessionTypes, Entries
<1>1. CASE SipMissed
  BY <1>0, <1>1 DEF SipMissed
<1>2. CASE SipAdvance
  <2>1. PICK n \in m_cameraList \union {End} : IsNext(sip.ct, n) /\ sip' = [sip EXCEPT !.ct = n]
    BY <1>2 DEF SipAdvance
  <2>2. sip.pc = "walk" /\ sip.ct # End /\ sip'.pc = "walk" /\ sip'.ct = n
    BY <1>0, <1>2, <2>1 DEF SipAdvance
  <2>3. n = End \/ (n > sip.ct /\ n \in 1 .. MaxStarts)
    BY <1>0, <2>1 DEF IsNext
  <2> QED
    BY <1>0, <2>2, <2>3
<1>3. CASE SipRecord
  <2>1. sip.pc = "walk" /\ sip.ct # End /\ sip'.pc = "start_ffmpeg"
    BY <1>0, <1>3 DEF SipRecord, Matches
  <2> QED
    BY <1>0, <2>1
<1>4. CASE SipStartTranscoder \/ SipNewCallInfo \/ SipResetExit
  BY <1>0, <1>4 DEF SipStartTranscoder, SipNewCallInfo, SipResetExit
<1>5. CASE SipBind
  BY <1>0, <1>5 DEF SipBind
<1>6. ~ SipAnswered
  BY DEF SipAnswered
<1>7. SipStep \/ UNCHANGED sip
  BY DEF Next, Request, HttpStep, Halted, vars, StartLive, StartUnknownPlatform,
     StartInvite, StartPush, StopUnknown, StopBye, StopTranscoder, StopReceiver,
     StopWildPointer, StopErase, SendReply, TranscoderExit, ReceiverExit, ReceiverFault, PeerAnswer, PeerEnds
<1>8. SipDangling => UNCHANGED sip
  BY DEF SipDangling
<1> QED
  BY <1>1, <1>2, <1>3, <1>4, <1>5, <1>6, <1>7, <1>8 DEF SipStep

\* The walk of the SIP thread, and what it starts, come to an end.
THEOREM WalkEndsCorrect == Spec => WalkEnds
<1>1. TypeOK /\ [Next]_vars => [sip.pc # "wait" => UNCHANGED sip \/ Work' < Work]_vars
  BY WorkFalls
<1> QED
  BY <1>1, TypeCorrect, PTL DEF Spec, WalkEnds
-----------------------------------------------------------------------------
(* What RtpSocket and FfmpegToWeb take for granted.                        *)

\* The media objects of an entry are stopped once: the stop is of a listed entry
\* and ends with its erasure, and an entry erased is never stopped or listed
\* again. Those of a camera that is not stopped too early are run once: run
\* finds m_pCallInfo as it was created, and it is never as it was again.
ObjectUse(e) ==
  /\ http.pc \in {"stop_ffmpeg", "stop_rtp", "erase"} /\ http.at = e =>
       /\ e \in m_cameraList
       /\ \/ http'.at = e /\ http'.pc \in {"stop_ffmpeg", "stop_rtp", "erase"}
          \/ Erased(e)'
  /\ Erased(e) => Erased(e)'
  /\ sip.pc = "start_rtp" /\ sip'.pc = "reset" /\ sip.ct = e /\ Timely(strCamId[e]) =>
       m_pCallInfo[e] = "wild" /\ m_pCallInfo'[e] = "run"
  /\ m_pCallInfo[e] # "wild" => m_pCallInfo'[e] # "wild"

ObjectsAreUsedOnce == [][\A e \in Entries : ObjectUse(e)]_vars

LEMMA ErasedStays ==
  ASSUME TypeOK, [Next]_vars, NEW e \in Entries, Erased(e)
  PROVE  Erased(e)'
<1>1. e \in Nat /\ e <= starts /\ e \notin m_cameraList /\ ~ (http.pc = "push" /\ http.at = e)
  BY DEF Erased, Entries
<1> QED
  BY <1>1, NumberSteps DEF Erased

\* What a step does to m_pCallInfo.
LEMMA CallInfoSteps ==
  ASSUME TypeOK, [Next]_vars, NEW e \in Entries
  PROVE  /\ m_pCallInfo[e] # "wild" => m_pCallInfo'[e] # "wild"
         /\ sip.pc = "start_rtp" /\ sip'.pc = "reset" /\ sip.ct = e => m_pCallInfo'[e] = "run"
<1> USE DEF mediaVars
<1>0. m_pCallInfo \in [Entries -> {"wild", "run", "exit", "freed"}]
  BY DEF TypeOK, MediaTypes
<1>1. CASE UNCHANGED <<m_pCallInfo, sip>>
  BY <1>1
<1>2. CASE StopReceiver
  BY <1>0, <1>2 DEF StopReceiver, Stopped
<1>3. CASE SipNewCallInfo
  BY <1>0, <1>3 DEF SipNewCallInfo
<1>4. CASE SipResetExit
  BY <1>0, <1>4 DEF SipResetExit, InitSendSocket
<1>5. CASE UNCHANGED m_pCallInfo /\ (sip.pc # "start_rtp" \/ sip' = sip)
  BY <1>5
<1>6. SipAnswered \/ SipMissed \/ SipAdvance \/ SipRecord \/ SipStartTranscoder \/ SipBind \/ SipDangling
        => UNCHANGED m_pCallInfo /\ (sip.pc # "start_rtp" \/ sip' = sip)
  BY DEF SipAnswered, SipMissed, SipAdvance, SipRecord, SipStartTranscoder, SipBind, SipDangling
<1>7. SipStep \/ StopReceiver \/ UNCHANGED <<m_pCallInfo, sip>>
  BY DEF Next, Request, HttpStep, Halted, vars, StartLive, StartUnknownPlatform,
     StartInvite, StartPush, StopUnknown, StopBye, StopTranscoder, StopWildPointer, StopErase,
     SendReply, TranscoderExit, ReceiverExit, ReceiverFault, PeerAnswer, PeerEnds
<1> QED
  BY <1>1, <1>2, <1>3, <1>4, <1>5, <1>6, <1>7 DEF SipStep

LEMMA StopSteps ==
  ASSUME RInv, [Next]_vars, NEW e \in Entries,
         http.pc \in {"stop_ffmpeg", "stop_rtp", "erase"}, http.at = e
  PROVE  \/ http'.at = e /\ http'.pc \in {"stop_ffmpeg", "stop_rtp", "erase"}
         \/ Erased(e)'
<1>0. /\ e \in 1 .. starts /\ starts \in Nat
      /\ http = [pc |-> http.pc, at |-> http.at, cam |-> http.cam, reply |-> http.reply]
  BY DEF RInv, IInv, StopPlan, Numbered, TypeOK, SessionTypes, HttpType
<1>1. CASE http' = http
  BY <1>1
<1>2. CASE StopTranscoder \/ StopReceiver
  BY <1>0, <1>2 DEF StopTranscoder, StopReceiver
<1>3. CASE StopErase
  <2>1. m_cameraList' = m_cameraList \ {e} /\ starts' = starts /\ http'.pc = "reply"
    BY <1>3 DEF StopErase, Reply
  <2> QED
    BY <1>0, <2>1 DEF Erased
<1>4. ~ StartPush /\ ~ SendReply /\ \A cam \in Cameras : ~ Request(cam)
  BY DEF StartPush, SendReply, Request, StartLive, StartUnknownPlatform, StartInvite, StopUnknown, StopBye
<1>5. HttpStep \/ http' = http
  BY <1>4 DEF Next, Halted, vars, SipStep, SipAnswered, SipMissed, SipAdvance, SipRecord,
     SipStartTranscoder, SipNewCallInfo, SipResetExit, SipBind, SipDangling, TranscoderExit,
     ReceiverExit, ReceiverFault, PeerAnswer, PeerEnds
<1> QED
  BY <1>1, <1>2, <1>3, <1>4, <1>5 DEF HttpStep, StopWildPointer

\* main.cpp and local_server.cpp use each rtp_socket and each ffmpeg_to_web as
\* RtpSocket and FfmpegToWeb have it.
THEOREM ObjectsAreUsedOnceCorrect == Spec => ObjectsAreUsedOnce
<1>1. ASSUME RInv, [Next]_vars, NEW e \in Entries PROVE ObjectUse(e)
  <2>1. TypeOK
    BY <1>1 DEF RInv, IInv
  <2>2. http.pc \in {"stop_ffmpeg", "stop_rtp", "erase"} /\ http.at = e => e \in m_cameraList
    BY <1>1 DEF RInv, IInv, StopPlan
  <2>3. sip.pc = "start_rtp" /\ sip.ct = e /\ Timely(strCamId[e]) => m_pCallInfo[e] = "wild"
    BY <1>1 DEF RInv, StartOnce
  <2> QED
    BY <1>1, <2>1, <2>2, <2>3, ErasedStays, CallInfoSteps, StopSteps DEF ObjectUse
<1>2. RInv /\ [Next]_vars => [\A e \in Entries : ObjectUse(e)]_vars
  BY <1>1
<1> QED
  BY <1>2, RInvCorrect, PTL DEF Spec, ObjectsAreUsedOnce
=============================================================================
