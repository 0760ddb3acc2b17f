--------------------------- MODULE CameraSessions ---------------------------
(***************************************************************************)
(* The live cameras of the gateway: the list local_server::m_cameraList    *)
(* that two threads share without a lock.                                  *)
(*                                                                         *)
(*   - the HTTP thread runs the handlers of /startGb2Rtmp and              *)
(*     /stopGb2Rtmp (main.cpp), one request at a time: it alone appends to *)
(*     and erases from the list;                                           *)
(*   - the SIP thread runs local_server::gb28181ServerThread: on           *)
(*     EXOSIP_CALL_ANSWERED it walks the list, stores the call's ids in    *)
(*     the entry it finds and starts the entry's two media objects;        *)
(*   - the media threads (ffmpeg_to_web::mainThread and the receivers of   *)
(*     rtp_socket) are detached and appear here only as alive or not.      *)
(*                                                                         *)
(* The SIP stack and the remote platform are the environment. Registration *)
(* and catalogue messages, which the SIP thread handles in between, touch  *)
(* no entry of the list and are left out, as are media ports and urls.     *)
(*                                                                         *)
(* The n-th INVITE and the list entry built for it share the number n.     *)
(* Entries are only appended, in the order of their numbers, and erased,   *)
(* so the std::list is the set of its entries, walked in ascending order.  *)
(***************************************************************************)
EXTENDS Naturals, Sequences

CONSTANTS
  Cameras,    \* device ids a client may name
  Nobody,     \* no device id
  MaxStarts   \* bound on the INVITEs of a behaviour

ASSUME NobodyAssumption == Nobody \notin Cameras
ASSUME MaxStartsAssumption == MaxStarts \in Nat

VARIABLES
  m_cameraList,  \* the entries now in the list
  starts,        \* number of INVITEs so far
  strCamId,      \* device id of each entry, and of its INVITE's request URI
  call_id,       \* call recorded in each entry (call_id and dialog_id)
  m_bIsRunning,  \* run flag of each entry's ffmpeg_to_web
  transcoders,   \* number of live ffmpeg_to_web::mainThread threads per entry
  m_pCallInfo,   \* what each entry's rtp_socket::m_pCallInfo points to
  receivers,     \* entries whose receiver threads are alive
  invite,        \* state of each SIP call, as the stack and the peer see it
  answers,       \* calls whose EXOSIP_CALL_ANSWERED waits in the event queue
  http,          \* HTTP thread: where it is, for which entry, with which reply
  sip,           \* SIP thread: where it is, for which call, at which entry
  crashed,       \* the process died of an access to invalid memory
  early,         \* history: entries stopped while m_pCallInfo was invalid
  missed         \* history: calls whose answer found no entry

vars == <<m_cameraList, starts, strCamId, call_id, m_bIsRunning, transcoders,
          m_pCallInfo, receivers, invite, answers, http, sip, crashed, early,
          missed>>

mediaVars == <<m_bIsRunning, transcoders, m_pCallInfo, receivers>>
listVars  == <<m_cameraList, starts, strCamId>>
callVars  == <<invite, answers>>
history   == <<early, missed>>

Entries == 1 .. MaxStarts

Garbage == 0   \* call_id of an entry whose ids were never written
End     == 0   \* m_cameraList.end()

\* "ended" is a call hung up from this side, "over" one that was never sent,
\* was refused, or that the peer hung up.
InviteStates == {"none", "inviting", "answered", "established", "over", "ended"}

Replies == {"none", "playing", "succeed", "stopped", "not_exist"}

Idle == [pc |-> "idle", at |-> 0, cam |-> Nobody, reply |-> "none"]
Wait == [pc |-> "wait", call |-> 0, ct |-> End]

Reply(cam, text) == [pc |-> "reply", at |-> 0, cam |-> cam, reply |-> text]

\* Mutant: the device id is not compared.
IsAnyEntry(e, cam) == e \in m_cameraList

\* The entry that is_exist_on_live finds for a device id.
IsEntryOf(e, cam) == e \in m_cameraList /\ strCamId[e] = cam

IsLive(cam) == \E e \in m_cameraList : IsEntryOf(e, cam)

\* m_pCallInfo was never set, or what it points to was deleted.
Invalid(e) == m_pCallInfo[e] \in {"wild", "freed"}

\* n is where an iterator of the list stands after one past e.
IsNext(e, n) ==
  \/ /\ n \in m_cameraList
     /\ n > e
     /\ \A x \in m_cameraList : x > e => n <= x
  \/ /\ n = End
     /\ \A x \in m_cameraList : x <= e

-----------------------------------------------------------------------------
(* HTTP thread: /startGb2Rtmp.                                             *)

\* handle_start_gb_to_rtmp for a camera already in the list.
StartLive(cam) ==
  /\ http.pc = "idle"
  /\ IsLive(cam)
  /\ http' = Reply(cam, "playing")
  /\ UNCHANGED <<listVars, call_id, mediaVars, callVars, sip, crashed, history>>

\* ... for a user name no platform has: the loop over m_platformList ends
\* without a match and the reply is the same as after an INVITE.
StartUnknownPlatform(cam) ==
  /\ http.pc = "idle"
  /\ ~ IsLive(cam)
  /\ http' = Reply(cam, "succeed")
  /\ UNCHANGED <<listVars, call_id, mediaVars, callVars, sip, crashed, history>>

\* ... for a known platform: sendInvite. Its result is ignored, so a call
\* that could not be built or sent goes on like the others.
StartInvite(cam) ==
  /\ http.pc = "idle"
  /\ ~ IsLive(cam)
  /\ starts < MaxStarts
  /\ starts' = starts + 1
  /\ strCamId' = [strCamId EXCEPT ![starts + 1] = cam]
  /\ \E s \in {"inviting", "over"} : invite' = [invite EXCEPT ![starts + 1] = s]
  /\ http' = [pc |-> "push", at |-> starts + 1, cam |-> cam, reply |-> "none"]
  /\ UNCHANGED <<m_cameraList, call_id, mediaVars, answers, sip, crashed, history>>

\* The entry is built and appended only after the INVITE has left: its ids
\* and its m_pCallInfo hold whatever the memory held.
StartPush ==
  /\ http.pc = "push"
  /\ m_cameraList' = m_cameraList \union {http.at}
  /\ m_bIsRunning' = [m_bIsRunning EXCEPT ![http.at] = TRUE]
  /\ http' = Reply(http.cam, "succeed")
  /\ UNCHANGED <<starts, strCamId, call_id, transcoders, m_pCallInfo, receivers,
                 callVars, sip, crashed, history>>

-----------------------------------------------------------------------------
(* HTTP thread: /stopGb2Rtmp.                                              *)

StopUnknown(cam) ==
  /\ http.pc = "idle"
  /\ ~ IsLive(cam)
  /\ http' = Reply(cam, "not_exist")
  /\ UNCHANGED <<listVars, call_id, mediaVars, callVars, sip, crashed, history>>

\* Mutant: only a call not yet answered is ended, by a CANCEL.
Cancelled(c) ==
  IF c \in Entries /\ invite[c] = "inviting"
  THEN [invite EXCEPT ![c] = "ended"]
  ELSE invite

\* eXosip_call_terminate: CANCEL or BYE for a call the stack still knows.
Terminated(c) ==
  IF c \in Entries /\ invite[c] \in {"inviting", "answered", "established"}
  THEN [invite EXCEPT ![c] = "ended"]
  ELSE invite

\* is_exist_on_live(cam, true) finds the entry and calls sendBye with the ids
\* stored in it. Ids never written can have any value, a live call's included.
StopBye(cam) ==
  /\ http.pc = "idle"
  /\ \E e \in m_cameraList :
       /\ IsEntryOf(e, cam)
       /\ \E c \in IF call_id[e] = Garbage THEN Entries \union {Garbage}
                                          ELSE {call_id[e]} :
            invite' = Terminated(c)
       /\ early' = IF Invalid(e) \/ (sip.pc = "reset" /\ sip.ct = e)
                   THEN early \union {e}
                   ELSE early
       /\ http' = [pc |-> "stop_ffmpeg", at |-> e, cam |-> cam, reply |-> "none"]
  /\ UNCHANGED <<listVars, call_id, mediaVars, answers, sip, crashed, missed>>

\* Mutant: the run flag is left set.
StopTranscoderForgets ==
  /\ http.pc = "stop_ffmpeg"
  /\ http' = [http EXCEPT !.pc = "stop_rtp"]
  /\ UNCHANGED <<listVars, call_id, mediaVars, callVars, sip, crashed, history>>

\* ffmpeg_to_web::stop
StopTranscoder ==
  /\ http.pc = "stop_ffmpeg"
  /\ m_bIsRunning' = [m_bIsRunning EXCEPT ![http.at] = FALSE]
  /\ http' = [http EXCEPT !.pc = "stop_rtp"]
  /\ UNCHANGED <<listVars, call_id, transcoders, m_pCallInfo, receivers,
                 callVars, sip, crashed, history>>

\* Mutant: the two statements commented out at the end of rtp_socket::stop,
\* delete m_pCallInfo and m_pCallInfo = NULL, are in force.
StoppedAndDeleted(info) == "wild"

Stopped(info) == IF info = "run" THEN "exit" ELSE info

\* rtp_socket::stop. It writes through m_pCallInfo before testing it: through
\* an invalid pointer, the write may go unnoticed or kill the process.
StopReceiver ==
  /\ http.pc = "stop_rtp"
  /\ m_pCallInfo' = [m_pCallInfo EXCEPT ![http.at] = Stopped(@)]
  /\ http' = [http EXCEPT !.pc = "erase"]
  /\ UNCHANGED <<listVars, call_id, m_bIsRunning, transcoders, receivers,
                 callVars, sip, crashed, history>>

StopWildPointer ==
  /\ http.pc = "stop_rtp"
  /\ Invalid(http.at)
  /\ crashed' = TRUE
  /\ UNCHANGED <<listVars, call_id, mediaVars, callVars, http, sip, history>>

\* Mutant: the entry stays in the list.
StopKeepsEntry ==
  /\ http.pc = "erase"
  /\ http' = Reply(http.cam, "stopped")
  /\ UNCHANGED <<listVars, call_id, mediaVars, callVars, sip, crashed, history>>

\* The entry's node is freed; the two media objects are not.
StopErase ==
  /\ http.pc = "erase"
  /\ m_cameraList' = m_cameraList \ {http.at}
  /\ http' = Reply(http.cam, "stopped")
  /\ UNCHANGED <<starts, strCamId, call_id, mediaVars, callVars, sip, crashed, history>>

\* rsp_callback: the reply leaves and the thread takes the next request.
SendReply ==
  /\ http.pc = "reply"
  /\ http' = Idle
  /\ UNCHANGED <<listVars, call_id, mediaVars, callVars, sip, crashed, history>>

-----------------------------------------------------------------------------
(* SIP thread.                                                             *)

\* Mutant: the ACK is sent only if the call's entry is in the list.
SipAnsweredInList ==
  /\ sip.pc = "wait"
  /\ answers # <<>>
  /\ answers' = Tail(answers)
  /\ LET c == Head(answers) IN
       /\ invite' = [invite EXCEPT ![c] = IF @ = "answered" /\ IsLive(strCamId[c])
                                        THEN "established" ELSE @]
       /\ \E n \in m_cameraList \union {End} :
            /\ IsNext(0, n)
            /\ sip' = [pc |-> "walk", call |-> c, ct |-> n]
  /\ UNCHANGED <<listVars, call_id, mediaVars, http, crashed, history>>

\* EXOSIP_CALL_ANSWERED: ACK, then the walk over the list begins. The host of
\* the request URI is that of a platform, since the INVITE went to one.
SipAnswered ==
  /\ sip.pc = "wait"
  /\ answers # <<>>
  /\ answers' = Tail(answers)
  /\ LET c == Head(answers) IN
       /\ invite' = [invite EXCEPT ![c] = IF @ = "answered" THEN "established" ELSE @]
       /\ \E n \in m_cameraList \union {End} :
            /\ IsNext(0, n)
            /\ sip' = [pc |-> "walk", call |-> c, ct |-> n]
  /\ UNCHANGED <<listVars, call_id, mediaVars, http, crashed, history>>

\* Mutant: the iterator is used after the loop, found or not.
SipMissedUsesEnd ==
  /\ sip.pc = "walk"
  /\ sip.ct = End
  /\ sip' = [sip EXCEPT !.pc = "start_ffmpeg"]
  /\ UNCHANGED <<listVars, call_id, mediaVars, callVars, http, crashed, history>>

\* The walk reaches the end: the call stays up and no entry knows of it.
SipMissed ==
  /\ sip.pc = "walk"
  /\ sip.ct = End
  /\ missed' = missed \union {sip.call}
  /\ sip' = Wait
  /\ UNCHANGED <<listVars, call_id, mediaVars, callVars, http, crashed, early>>

\* Mutant: the first entry of the list is taken.
MatchesAny == sip.ct # End

Matches == sip.ct # End /\ strCamId[sip.ct] = strCamId[sip.call]

\* ct++. The node may have been erased meanwhile; read before the allocator
\* has reused it, it still leads to what was its successor then. That one may
\* have been erased since too. The step from it changes nothing but the iterator,
\* so it stands here for one that was taken right after the erasure, followed by
\* the erasure of the entry it came to.
SipAdvance ==
  /\ sip.pc = "walk"
  /\ sip.ct # End
  /\ ~ Matches
  /\ \E n \in m_cameraList \union {End} :
       /\ IsNext(sip.ct, n)
       /\ sip' = [sip EXCEPT !.ct = n]
  /\ UNCHANGED <<listVars, call_id, mediaVars, callVars, http, crashed, history>>

\* ct->call_id = je->cid; ct->dialog_id = je->did
SipRecord ==
  /\ sip.pc = "walk"
  /\ Matches
  /\ call_id' = [call_id EXCEPT ![sip.ct] = sip.call]
  /\ sip' = [sip EXCEPT !.pc = "start_ffmpeg"]
  /\ UNCHANGED <<listVars, mediaVars, callVars, http, crashed, history>>

\* Mutant: ffmpeg_to_web::start sets the run flag.
SipStartTranscoderRunning ==
  /\ sip.pc = "start_ffmpeg"
  /\ m_bIsRunning' = [m_bIsRunning EXCEPT ![sip.ct] = TRUE]
  /\ transcoders' = [transcoders EXCEPT ![sip.ct] = @ + 1]
  /\ sip' = [sip EXCEPT !.pc = "start_rtp"]
  /\ UNCHANGED <<listVars, call_id, m_pCallInfo, receivers, callVars, http,
                 crashed, history>>

\* ffmpeg_to_web::start: a detached thread; m_bIsRunning is left as it is.
SipStartTranscoder ==
  /\ sip.pc = "start_ffmpeg"
  /\ transcoders' = [transcoders EXCEPT ![sip.ct] = @ + 1]
  /\ sip' = [sip EXCEPT !.pc = "start_rtp"]
  /\ UNCHANGED <<listVars, call_id, m_bIsRunning, m_pCallInfo, receivers,
                 callVars, http, crashed, history>>

\* rtp_socket::run: a new CALL_INFO_ST, whatever m_pCallInfo was ...
SipNewCallInfo ==
  /\ sip.pc = "start_rtp"
  /\ m_pCallInfo' = [m_pCallInfo EXCEPT ![sip.ct] = "run"]
  /\ sip' = [sip EXCEPT !.pc = "reset"]
  /\ UNCHANGED <<listVars, call_id, m_bIsRunning, transcoders, receivers,
                 callVars, http, crashed, history>>

\* InitSendSocket may fail, and then the CALL_INFO_ST is deleted.
InitSendSocket == {"run", "freed"}

\* ... with m_bExitThread FALSE, even if a stop has just set it. Without the
\* socket to the transcoder, run goes on with what it has deleted ...
SipResetExit ==
  /\ sip.pc = "reset"
  /\ \E info \in InitSendSocket :
       m_pCallInfo' = [m_pCallInfo EXCEPT ![sip.ct] = info]
  /\ sip' = [sip EXCEPT !.pc = "bind"]
  /\ UNCHANGED <<listVars, call_id, m_bIsRunning, transcoders, receivers,
                 callVars, http, crashed, history>>

\* Mutant: m_bExitThread is reset just before the threads are started.
SipBindResets ==
  /\ sip.pc = "bind"
  /\ m_pCallInfo' = [m_pCallInfo EXCEPT ![sip.ct] = "run"]
  /\ receivers' = receivers \union {sip.ct}
  /\ sip' = Wait
  /\ UNCHANGED <<listVars, call_id, m_bIsRunning, transcoders, callVars, http,
                 crashed, history>>

\* ... then the sockets are bound and the receiver threads started, or a bind
\* fails and run returns.
SipBind ==
  /\ sip.pc = "bind"
  /\ \E started \in SUBSET {sip.ct} : receivers' = receivers \union started
  /\ sip' = Wait
  /\ UNCHANGED <<listVars, call_id, m_bIsRunning, transcoders, m_pCallInfo,
                 callVars, http, crashed, history>>

\* The iterator's node has been freed under the SIP thread, or rtp_socket::run
\* has deleted its own CALL_INFO_ST, and using it kills the process.
SipDangling ==
  /\ \/ /\ sip.pc \in {"walk", "start_ffmpeg", "start_rtp"}
        /\ sip.ct # End
        /\ sip.ct \notin m_cameraList
     \/ sip.pc = "bind" /\ Invalid(sip.ct)
  /\ crashed' = TRUE
  /\ UNCHANGED <<listVars, call_id, mediaVars, callVars, http, sip, history>>

-----------------------------------------------------------------------------
(* Media threads, SIP stack and peer.                                      *)

\* mainThread returns when it sees m_bIsRunning FALSE, or when reading fails.
TranscoderExit(e) ==
  /\ transcoders[e] > 0
  /\ transcoders' = [transcoders EXCEPT ![e] = @ - 1]
  /\ UNCHANGED <<listVars, call_id, m_bIsRunning, m_pCallInfo, receivers,
                 callVars, http, sip, crashed, history>>

\* The receivers return when they see m_bExitThread, or when recvfrom fails.
ReceiverExit(e) ==
  /\ e \in receivers
  /\ receivers' = receivers \ {e}
  /\ UNCHANGED <<listVars, call_id, m_bIsRunning, transcoders, m_pCallInfo,
                 callVars, http, sip, crashed, history>>

\* The receivers read the socket and m_bExitThread through m_pCallInfo.
ReceiverFault(e) ==
  /\ e \in receivers
  /\ Invalid(e)
  /\ crashed' = TRUE
  /\ UNCHANGED <<listVars, call_id, mediaVars, callVars, http, sip, history>>

\* The peer answers. The stack queues the event.
PeerAnswer(c) ==
  /\ invite[c] = "inviting"
  /\ invite' = [invite EXCEPT ![c] = "answered"]
  /\ answers' = Append(answers, c)
  /\ UNCHANGED <<listVars, call_id, mediaVars, http, sip, crashed, history>>

\* The peer, or a timeout of the stack, refuses the call or hangs up. All such
\* events go to the default branch of the SIP thread, which touches no entry.
PeerEnds(c) ==
  /\ invite[c] \in {"inviting", "answered", "established"}
  /\ invite' = [invite EXCEPT ![c] = "over"]
  /\ UNCHANGED <<listVars, call_id, mediaVars, answers, http, sip, crashed, history>>

Halted == crashed /\ UNCHANGED vars

-----------------------------------------------------------------------------
Init ==
  /\ m_cameraList = {}
  /\ starts = 0
  /\ strCamId = [e \in Entries |-> Nobody]
  /\ call_id = [e \in Entries |-> Garbage]
  /\ m_bIsRunning = [e \in Entries |-> FALSE]
  /\ transcoders = [e \in Entries |-> 0]
  /\ m_pCallInfo = [e \in Entries |-> "wild"]
  /\ receivers = {}
  /\ invite = [e \in Entries |-> "none"]
  /\ answers = <<>>
  /\ http = Idle
  /\ sip = Wait
  /\ crashed = FALSE
  /\ early = {}
  /\ missed = {}

Request(cam) ==
  \/ StartLive(cam) \/ StartUnknownPlatform(cam) \/ StartInvite(cam)
  \/ StopUnknown(cam) \/ StopBye(cam)

HttpStep ==
  \/ StartPush \/ StopTranscoder \/ StopReceiver \/ StopWildPointer \/ StopErase
  \/ SendReply

SipStep ==
  \/ SipAnswered \/ SipMissed \/ SipAdvance \/ SipRecord
  \/ SipStartTranscoder \/ SipNewCallInfo \/ SipResetExit \/ SipBind
  \/ SipDangling

Next ==
  \/ /\ ~ crashed
     /\ \/ \E cam \in Cameras : Request(cam)
        \/ HttpStep
        \/ SipStep
        \/ \E e \in Entries : TranscoderExit(e) \/ ReceiverExit(e) \/ ReceiverFault(e)
        \/ \E c \in Entries : PeerAnswer(c) \/ PeerEnds(c)
  \/ Halted

Spec == Init /\ [][Next]_vars

-----------------------------------------------------------------------------
(* Properties.                                                             *)

SessionTypes ==
  /\ m_cameraList \subseteq Entries
  /\ starts \in 0 .. MaxStarts
  /\ strCamId \in [Entries -> Cameras \union {Nobody}]
  /\ call_id \in [Entries -> Entries \union {Garbage}]

MediaTypes ==
  /\ m_bIsRunning \in [Entries -> BOOLEAN]
  /\ transcoders \in [Entries -> Nat]
  /\ m_pCallInfo \in [Entries -> {"wild", "run", "exit", "freed"}]
  /\ receivers \subseteq Entries

CallTypes ==
  /\ invite \in [Entries -> InviteStates]
  /\ answers \in Seq(Entries)

HttpType ==
  /\ http \in [pc : {"idle", "push", "stop_ffmpeg", "stop_rtp", "erase", "reply"},
               at : Entries \union {0}, cam : Cameras \union {Nobody}, reply : Replies]
  /\ http.pc \in {"push", "stop_ffmpeg", "stop_rtp", "erase"} => http.at \in Entries

SipType ==
  /\ sip \in [pc : {"wait", "walk", "start_ffmpeg", "start_rtp", "reset", "bind"},
              call : Entries \union {0}, ct : Entries \union {End}]
  /\ sip.pc # "wait" => sip.call \in Entries
  /\ sip.pc \in {"start_ffmpeg", "start_rtp", "reset", "bind"} => sip.ct \in Entries

\* Type invariant.
TypeOK ==
  /\ SessionTypes
  /\ MediaTypes
  /\ CallTypes
  /\ HttpType
  /\ SipType
  /\ crashed \in BOOLEAN
  /\ early \subseteq Entries
  /\ missed \subseteq Entries

\* The ids in an entry are those of a call to the entry's camera, and no media
\* thread of a listed entry runs before they are there: whatever is playing,
\* a stop can hang up.
MediaHasItsCall ==
  \A e \in m_cameraList :
    /\ call_id[e] # Garbage => strCamId[call_id[e]] = strCamId[e]
    /\ transcoders[e] > 0 \/ e \in receivers => call_id[e] # Garbage

\* ffmpeg_to_web::start may run after ffmpeg_to_web::stop, on an entry erased
\* under the SIP thread. It does not set m_bIsRunning, so no transcoder is
\* left running with nobody to stop it.
NoRunawayTranscoder ==
  \A e \in Entries : m_bIsRunning[e] => e \in m_cameraList

\* A camera none of whose stops came before its media had started and none of
\* whose answers came before its entry was in the list.
WellTimed(cam) == \A e \in early \union missed : strCamId[e] # cam

\* An established call that no entry, and no step of the SIP thread, will
\* ever lead a stop to.
Orphan(c) ==
  /\ invite[c] = "established"
  /\ \A e \in m_cameraList : call_id[e] # c
  /\ ~ (sip.pc = "walk" /\ sip.call = c)

\* For a well-timed camera no call is left up without an entry to end it.
NoOrphanCall ==
  \A c \in Entries : WellTimed(strCamId[c]) => ~ Orphan(c)

\* rtp_socket::run resets m_bExitThread, so a start that overtakes a stop
\* leaves receivers nobody can stop. It does not happen to a well-timed camera.
NoRunawayReceiver ==
  \A e \in receivers \ m_cameraList :
    m_pCallInfo[e] = "run" => ~ WellTimed(strCamId[e])

\* Neither ffmpeg_to_web::start nor rtp_socket::run asks whether its object has
\* been started: two answers that lead to one entry would start it twice. It
\* does not happen to a well-timed camera.
MediaStartedOnce ==
  sip.pc = "start_ffmpeg" /\ WellTimed(strCamId[sip.ct]) =>
    m_pCallInfo[sip.ct] = "wild" /\ transcoders[sip.ct] = 0

\* The process dies of three things only: a stop through a pointer that no
\* start has set yet, a list node erased under the walk of the SIP thread, and
\* a CALL_INFO_ST that run deleted itself. (What a transcoder does with its
\* own contexts is not part of this module.)
CrashCause ==
  crashed => \/ early # {}
             \/ sip.pc = "walk" /\ sip.ct \notin m_cameraList
             \/ \E e \in Entries : m_pCallInfo[e] = "freed"

\* What the client is told holds when it is told: "the camera is playing" and
\* the url only for a listed camera, "succeed" of a stop only when the camera
\* is out of the list, "not_exist" only for a camera not in it.
ReplyIsTrue ==
  http.pc = "reply" =>
    /\ http.reply = "playing" => IsLive(http.cam)
    /\ http.reply \in {"stopped", "not_exist"} => ~ IsLive(http.cam)

Live == {strCamId[e] : e \in m_cameraList}

Told == IF http.pc = "reply" THEN <<http.cam, http.reply>> ELSE <<>>

Directory == INSTANCE LiveCameras WITH None <- <<>>, live <- Live, reply <- Told

\* Each request is one step to its client, although the list is looked up, an
\* INVITE is sent and the entry appended, or a call hung up, two media objects
\* stopped and the entry erased, while the SIP thread walks the same list. So
\* ReplyIsTrue, and a camera that is stopped is live through no other entry.
RequestsAreAtomic == Directory!Spec

\* A stop ends calls of the camera it names, and of no other, unless it came
\* before the answer, when the ids it passes to sendBye are garbage.
StopEndsOwnCall ==
  [][\A c \in Entries :
       invite[c] # "ended" /\ invite'[c] = "ended" =>
         strCamId[c] = http'.cam \/ http'.at \in early']_vars

\* A stopped entry: out of the list, and not because it is not in it yet.
Erased(e) ==
  /\ e <= starts
  /\ e \notin m_cameraList
  /\ ~ (http.pc = "push" /\ http.at = e)

\* local_server.h calls m_cameraList the list of the cameras being played, and
\* a start request for a listed camera is told so. A call that could not be
\* sent, was refused or was hung up leaves its entry in the list all the same.
ListedCamerasArePlaying ==
  http.pc \in {"idle", "reply"} =>
    \A e \in m_cameraList : \E c \in Entries :
      /\ strCamId[c] = strCamId[e]
      /\ invite[c] \in {"inviting", "answered", "established"}
=============================================================================
