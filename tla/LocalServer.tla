----------------------------- MODULE LocalServer -----------------------------
(***************************************************************************)
(* The life of the SIP server, class local_server, and of its platforms:   *)
(*                                                                         *)
(*   - the main thread starts the SIP thread, binds the HTTP port and then *)
(*     serves requests, of which /startPtzControl is modelled here. If the *)
(*     port cannot be bound, main returns and the destructor of testServer *)
(*     runs while the SIP thread goes on;                                  *)
(*   - the SIP thread sets eCtx up and then handles one event at a time:   *)
(*     a registration, a message with a keepalive, a catalogue or both, or *)
(*     an answer to a message. CameraSessions has the answer to an INVITE; *)
(*   - some thread may call stop. Nothing in the repository does.          *)
(*                                                                         *)
(* None of them takes a lock. A platform is its position in m_platformList *)
(* as the configuration was read: isRegister, m_SN and call_id then hold   *)
(* whatever the memory held. eXosip is modelled by what the code relies on. *)
(* An access to memory that was never set up, or was freed, may kill the   *)
(* process or go by unnoticed. The answer to a request is left out (it is  *)
(* "{}" whatever happened), and so is a request for an unknown platform,   *)
(* which changes nothing. A request has its items here: HttpServer's Die   *)
(* has the one without, which brings the process down before any of this.  *)
(***************************************************************************)
EXTENDS PtzCode, Functions

CONSTANTS
  Platforms,     \* length of m_platformList
  Ids,           \* the IDs of platforms
  NoContact,     \* stands for the sender of a message without a Contact header,
                 \* or with one that has no url or no user name
  MaxInt,        \* an int is one of -MaxInt - 1 .. MaxInt
  Memory,        \* what the memory of an m_SN that is not set may hold
  FitsBelow,     \* an int from -FitsBelow ...
  FitsAbove,     \* ... to FitsAbove has at most nine characters
  MaxEvents,     \* bound on the events of the SIP stack
  MaxCommands    \* bound on the PTZ commands

ASSUME LocalServerAssumption ==
  /\ Platforms \in Nat /\ MaxInt \in Nat /\ MaxEvents \in Nat /\ MaxCommands \in Nat
  /\ Memory \subseteq -MaxInt - 1 .. MaxInt
  /\ FitsBelow \in 0 .. MaxInt + 1 /\ FitsAbove \in 0 .. MaxInt
  /\ NoContact \notin Ids

VARIABLES
  main,       \* where the main thread is
  va,         \* position that main's loop over m_platformList stands on
  sip,        \* where the SIP thread is
  event,      \* je, the event in hand
  it,         \* position that the SIP thread's loop stands on
  owner,      \* the thread that calls stop
  m_bIsStop,
  eCtx,       \* what eCtx points to
  listed,     \* the platforms not erased from m_platformList
  platform,   \* the platforms
  crashed,    \* the process died of an access to invalid memory
  events,     \* history: the number of events
  heard,      \* history: the last event in which each ID registered, or 0
  turns,      \* history: how often each m_SN was counted up ...
  commands,   \* ... and the PTZ commands sent to each platform
  due,        \* history: the platforms registered when main returned ...
  byes        \* ... and those for which sendBye has been called since

mainVars == <<main, va>>
sipVars  == <<sip, event, it>>
stopVars == <<owner, m_bIsStop>>
listVars == <<listed, platform>>
told     == <<events, heard>>
history  == <<told, turns, commands, due, byes>>
vars     == <<mainVars, sipVars, stopVars, eCtx, listVars, crashed, history>>

int == -MaxInt - 1 .. MaxInt
Position == 1 .. Platforms
End == Platforms + 1

\* A platform with m_SN in numbers and call_id in calls; 0 is the call_id that
\* the memory held.
Platform(numbers, calls) ==
  [ID : Ids, isRegister : BOOLEAN, m_bKeepAlive : BOOLEAN, m_SN : numbers, call_id : calls]

\* A REGISTER, a MESSAGE with the words found in its body, either of them
\* without a usable Contact, an answer to a MESSAGE.
Event ==
  [type : {"register"}, from : Ids, says : {{}}]
  \union [type : {"message"}, from : Ids, says : SUBSET {"Keepalive", "Catalog"}]
  \union [type : {"message", "answered"}, from : {NoContact}, says : {{}}]

NoEvent == [type |-> "answered", from |-> NoContact, says |-> {}]

Init ==
  /\ main = "boot" /\ va = End
  /\ sip = "none" /\ event = NoEvent /\ it = End
  /\ owner = "idle" /\ m_bIsStop = FALSE
  /\ eCtx = "NULL"
  /\ listed = Position
  /\ platform \in [Position -> Platform(Memory, {0})]
  /\ crashed = FALSE
  /\ events = 0 /\ heard = [i \in Ids |-> 0]
  /\ turns = [p \in Position |-> 0] /\ commands = [p \in Position |-> {}]
  /\ due = {} /\ byes = {}

\* Memory that may be gone is touched, and the process dies of it.
Fault ==
  /\ crashed' = TRUE
  /\ UNCHANGED <<mainVars, sipVars, stopVars, eCtx, listVars, history>>

Usable == eCtx \in {"silent", "listening"}

-----------------------------------------------------------------------------
(* The main thread up to its loop.                                         *)

\* local_server::start, then HttpServer::Start, which binds the port.
Start ==
  /\ main = "boot"
  /\ main' = "bind" /\ sip' = "malloc" /\ m_bIsStop' = FALSE
  /\ UNCHANGED <<va, event, it, owner, eCtx, listVars, crashed, history>>

Bind ==
  /\ main = "bind"
  /\ \/ main' = "serve" /\ UNCHANGED <<va, due>>
     \/ /\ main' = "destroy" /\ va' = 1
        /\ due' = {p \in Position : platform[p].isRegister}
  /\ UNCHANGED <<sipVars, stopVars, eCtx, listVars, crashed, told, turns,
                 commands, byes>>

-----------------------------------------------------------------------------
(* A PTZ command, in the main thread.                                      *)

Requests == FoldFunction(+, 0, turns)

\* The platform with that ID that comes first in the list.
IsFirst(p, id) ==
  platform[p].ID = id /\ \A q \in 1 .. p - 1 : platform[q].ID # id

\* Mutant: the counter stops at the greatest number.
CountedUpOnly(sn) == IF sn = MaxInt THEN sn ELSE sn + 1

CountedUp(sn) == IF sn = MaxInt THEN -MaxInt - 1 ELSE sn + 1

\* is_exist_platform counts m_SN up and then begins to copy xmlCatalog.
FindPlatform(p, id) ==
  /\ main = "serve" /\ IsFirst(p, id) /\ Requests < MaxCommands
  /\ main' = "copy" /\ va' = p
  /\ platform' = [platform EXCEPT ![p].m_SN = CountedUp(@)]
  /\ turns' = [turns EXCEPT ![p] = @ + 1]
  /\ UNCHANGED <<sipVars, stopVars, eCtx, listed, crashed, told, commands, due, byes>>

\* The SIP thread assigns the xmlCatalog that main copies.
CatalogRace == main = "copy" /\ sip = "assign" /\ it = va

Copied ==
  \/ CatalogRace /\ Fault
  \/ /\ main = "copy"
     /\ main' = "send"
     /\ UNCHANGED <<va, sipVars, stopVars, eCtx, listVars, crashed, history>>

\* The number does not fit the ten characters that _itoa prints it to.
TooLong(sn) == sn < -FitsBelow \/ sn > FitsAbove

SendRisk == ~ Usable \/ TooLong(platform[va].m_SN)

\* sendPTZCMD, with the number and the code of PtzCode. Without a transport eXosip builds no request.
SendPtz ==
  /\ main = "send"
  /\ \/ SendRisk /\ Fault
     \/ /\ eCtx # "NULL"
        /\ main' = "serve" /\ va' = End
        /\ \/ UNCHANGED commands
           \/ /\ eCtx = "listening"
              /\ commands' = [commands EXCEPT
                   ![va] = @ \union {[sn |-> platform[va].m_SN, turn |-> turns[va]]}]
        /\ UNCHANGED <<sipVars, stopVars, eCtx, listVars, crashed, told, turns, due, byes>>

-----------------------------------------------------------------------------
(* ~local_server, in the main thread. m_cameraList is empty then: without  *)
(* a port there has been no request.                                       *)

\* Mutant: erase steps to the next platform, and so does the loop.
EraseSkips ==
  /\ main = "destroy" /\ va <= Platforms
  /\ listed' = listed \ {va}
  /\ byes' = IF platform[va].isRegister THEN byes \union {va} ELSE byes
  /\ va' = IF va = Platforms THEN End ELSE va + 2
  /\ UNCHANGED <<main, sipVars, stopVars, eCtx, platform, crashed, told, turns,
                 commands, due>>

\* Calls sendBye for a registered platform, erases it, and steps on from the
\* erased element. What eXosip makes of the call is not asked: with an eCtx that
\* was not set up, or has no such call, nothing is sent.
Erase ==
  /\ main = "destroy" /\ va <= Platforms
  /\ \/ Fault
     \/ /\ platform[va].isRegister => eCtx # "NULL"
        /\ listed' = listed \ {va}
        /\ byes' = IF platform[va].isRegister THEN byes \union {va} ELSE byes
        /\ va' = va + 1
        /\ UNCHANGED <<main, sipVars, stopVars, eCtx, platform, crashed, told, turns,
                       commands, due>>

\* The list goes, and then the process.
Exit ==
  /\ main \in {"destroy", "exit"} /\ va > Platforms
  /\ main' = IF main = "destroy" THEN "exit" ELSE "gone"
  /\ UNCHANGED <<va, sipVars, stopVars, eCtx, listVars, crashed, history>>

-----------------------------------------------------------------------------
(* The SIP thread: eXosipInit.                                             *)

\* The code asks iRet whether eXosip_malloc failed, which nobody has set.
Malloc ==
  /\ sip = "malloc"
  /\ sip' = "init" /\ eCtx' \in {"NULL", "raw"}
  /\ UNCHANGED <<mainVars, event, it, stopVars, listVars, crashed, history>>

\* The thread goes on to its loop whatever the calls return.
InitContext ==
  /\ sip = "init"
  /\ \/ eCtx = "NULL" /\ Fault
     \/ /\ eCtx # "NULL"
        /\ \/ eCtx' = "failed" /\ sip' = "test"
           \/ eCtx' = "silent" /\ sip' = "listen"
        /\ UNCHANGED <<mainVars, event, it, stopVars, listVars, crashed, history>>

Listen ==
  /\ sip = "listen"
  /\ sip' = "test" /\ eCtx' \in {"silent", "listening"}
  /\ UNCHANGED <<mainVars, event, it, stopVars, listVars, crashed, history>>

-----------------------------------------------------------------------------
(* The SIP thread: the loop of gb28181ServerThread.                        *)

\* Mutant: the thread ends and tells the caller of stop.
TestStopTells ==
  /\ sip = "test"
  /\ sip' = IF m_bIsStop THEN "ended" ELSE "wait"
  /\ m_bIsStop' = FALSE
  /\ UNCHANGED <<mainVars, event, it, owner, eCtx, listVars, crashed, history>>

\* Mutant: the thread tells the caller of stop first and then waits once more.
TestStopEarly ==
  /\ sip = "test"
  /\ sip' = "wait" /\ m_bIsStop' = FALSE
  /\ UNCHANGED <<mainVars, event, it, owner, eCtx, listVars, crashed, history>>

TestStop ==
  /\ sip = "test"
  /\ sip' = IF m_bIsStop THEN "ended" ELSE "wait"
  /\ UNCHANGED <<mainVars, event, it, stopVars, eCtx, listVars, crashed, history>>

\* eXosip_event_wait gives up after 4 ms.
NothingYet ==
  /\ sip = "wait"
  /\ \/ ~ Usable /\ Fault
     \/ /\ sip' = "test"
        /\ UNCHANGED <<mainVars, event, it, stopVars, eCtx, listVars, crashed, history>>

GetEvent(e) ==
  /\ sip = "wait" /\ eCtx = "listening" /\ events < MaxEvents
  /\ event' = e
  /\ it' = IF e.type = "answered" THEN End ELSE 1
  /\ sip' = "look"
  /\ events' = events + 1
  /\ heard' = IF e.type = "register" /\ e.from \in Ids
              THEN [heard EXCEPT ![e.from] = events + 1] ELSE heard
  /\ UNCHANGED <<mainVars, stopVars, eCtx, listVars, crashed, turns, commands, due, byes>>

\* The destructor is at the list that the loop walks.
ListRace == main \in {"destroy", "exit"}

\* What an event makes of the platform it comes from.
Registered(pl) == [pl EXCEPT !.isRegister = TRUE, !.call_id = events]

\* The first keepalive counts as a registration, unless the configuration
\* says that the platform sends them.
KeptAlive(pl) ==
  IF pl.m_bKeepAlive THEN pl ELSE [pl EXCEPT !.m_bKeepAlive = TRUE, !.isRegister = TRUE]

\* Mutant: a registration breaks the loop off.
LookBreaks ==
  /\ sip = "look" /\ it <= Platforms /\ event.from # NoContact
  /\ IF event.from # platform[it].ID
     THEN it' = it + 1 /\ UNCHANGED platform
     ELSE it' = End /\ platform' = [platform EXCEPT ![it] = Registered(@)]
  /\ UNCHANGED <<mainVars, sip, event, stopVars, eCtx, listed, crashed, history>>

\* One round of the loop. It goes on to the end of the list after a match. A
\* request without a usable Contact has no user name to compare with, and following
\* its null pointers is a fault.
Look ==
  /\ sip = "look" /\ it <= Platforms
  /\ \/ (ListRace \/ event.from = NoContact) /\ Fault
     \/ /\ event.from # NoContact
        /\ IF event.from # platform[it].ID
           THEN it' = it + 1 /\ UNCHANGED <<sip, platform>>
           ELSE /\ platform' = [platform EXCEPT ![it] =
                     IF event.type = "register" THEN Registered(@)
                     ELSE IF "Keepalive" \in event.says THEN KeptAlive(@) ELSE @]
                /\ IF "Catalog" \in event.says
                   THEN sip' = "assign" /\ UNCHANGED it
                   ELSE it' = it + 1 /\ UNCHANGED sip
        /\ UNCHANGED <<mainVars, event, stopVars, eCtx, listed, crashed, history>>

\* Mutant: a catalogue is assigned to every platform from the sender on.
AssignedOnwards ==
  /\ sip = "assign"
  /\ it' = it + 1
  /\ UNCHANGED <<mainVars, sip, event, stopVars, eCtx, listVars, crashed, history>>

\* The assignment to xmlCatalog comes to an end.
Assigned ==
  /\ sip = "assign"
  /\ \/ (ListRace \/ CatalogRace) /\ Fault
     \/ /\ it' = it + 1 /\ sip' = "look"
        /\ UNCHANGED <<mainVars, event, stopVars, eCtx, listVars, crashed, history>>

\* return200OK
Answer ==
  /\ sip = "look" /\ it > Platforms
  /\ sip' = "test" /\ event' = NoEvent
  /\ UNCHANGED <<mainVars, it, stopVars, eCtx, listVars, crashed, history>>

-----------------------------------------------------------------------------
(* stop.                                                                   *)

Stop ==
  /\ owner = "idle" /\ main \notin {"boot", "gone"}
  /\ owner' = "waiting" /\ m_bIsStop' = TRUE
  /\ UNCHANGED <<mainVars, sipVars, eCtx, listVars, crashed, history>>

\* Every 100 ms, until m_bIsStop is cleared; then eXosipFree.
AwaitStop ==
  /\ owner = "waiting"
  /\ IF m_bIsStop THEN UNCHANGED <<owner, eCtx>> ELSE owner' = "returned" /\ eCtx' = "NULL"
  /\ UNCHANGED <<mainVars, sipVars, m_bIsStop, listVars, crashed, history>>

-----------------------------------------------------------------------------
MainStep ==
  Start \/ Bind \/ Copied \/ SendPtz \/ Erase \/ Exit
  \/ \E p \in Position, id \in Ids : FindPlatform(p, id)

SipStep ==
  \/ Malloc \/ InitContext \/ Listen \/ TestStop \/ NothingYet \/ Look \/ Assigned \/ Answer
  \/ \E e \in Event : GetEvent(e)

Over == crashed \/ main = "gone"

\* The process is over.
Ended == Over /\ UNCHANGED vars

Next ==
  \/ ~ Over /\ (MainStep \/ SipStep \/ Stop \/ AwaitStop)
  \/ Ended

Spec == Init /\ [][Next]_vars

\* The SIP thread runs: no call it makes waits for longer than 4 ms.
FairSpec == Spec /\ WF_vars(~ Over /\ SipStep)

-----------------------------------------------------------------------------
(* Properties.                                                             *)

ThreadTypes ==
  /\ main \in {"boot", "bind", "serve", "copy", "send", "destroy", "exit", "gone"}
  /\ va \in 1 .. End /\ (main \in {"copy", "send"} => va \in Position)
  /\ sip \in {"none", "malloc", "init", "listen", "test", "wait", "look", "assign", "ended"}
  /\ event \in Event
  /\ it \in 1 .. End /\ (sip = "assign" => it \in Position)
  /\ owner \in {"idle", "waiting", "returned"} /\ m_bIsStop \in BOOLEAN
  /\ eCtx \in {"NULL", "raw", "failed", "silent", "listening"}
  /\ crashed \in BOOLEAN

ListTypes ==
  /\ listed \subseteq Position
  /\ platform \in [Position -> Platform(int, 0 .. MaxEvents)]

HistoryTypes ==
  /\ events \in 0 .. MaxEvents /\ heard \in [Ids -> 0 .. events]
  /\ turns \in [Position -> Nat]
  /\ commands \in [Position -> SUBSET [sn : int, turn : Nat]]
  /\ due \subseteq Position /\ byes \subseteq Position

TypeOK == ThreadTypes /\ ListTypes /\ HistoryTypes

\* The process dies of one of these: eXosip_malloc fails, eXosip_init fails; a
\* request without a Contact header, or whose Contact has no url or no user name,
\* is compared with a platform; the SIP thread
\* assigns a catalogue while the HTTP thread copies it, or walks the list while
\* the destructor clears it; a PTZ command is sent before eCtx is set up, or its
\* number does not fit the buffer; the destructor steps on from an element that
\* it has erased. Nothing else that the threads do at once touches bad memory. (A
\* request that lacks an item of its JSON is not among what happens here.)
CrashCause ==
  crashed =>
    \/ sip = "init" /\ eCtx = "NULL"
    \/ sip = "wait" /\ eCtx = "failed"
    \/ sip = "look" /\ event.from = NoContact
    \/ CatalogRace
    \/ ListRace
    \/ main = "send" /\ (eCtx \in {"NULL", "raw", "failed"} \/ TooLong(platform[va].m_SN))

\* Two commands that reach a platform have different numbers, until m_SN has
\* gone through all values of an int.
CommandNumbersDiffer ==
  \A p \in Position : \A c, d \in commands[p] :
    c.turn < d.turn /\ d.turn - c.turn <= 2 * MaxInt + 1 => c.sn # d.sn

\* Between two events every platform of one ID has the call of the last
\* registration with that ID and no other, and is registered if there was one.
\* A platform that kept alive first and never registered has no call: what its
\* BYE names is what the memory held.
RegistrationIsReal ==
  \A p \in Position :
    /\ sip \notin {"look", "assign"} => platform[p].call_id = heard[platform[p].ID]
    /\ platform[p].call_id # 0 => platform[p].isRegister

\* When main has returned, sendBye is called for every platform that was registered
\* then and only for platforms that are registered, also if the SIP thread goes on
\* registering meanwhile.
FarewellsAreDue ==
  /\ \A p \in byes : platform[p].isRegister
  /\ main \in {"exit", "gone"} => due \subseteq byes /\ listed = {}

\* stop ends the SIP thread, unless the process is over before. It does not end
\* itself: m_bIsStop, which it waits for, is cleared by nobody.
StopEndsOnlySipThread ==
  (owner = "waiting") ~> (Over \/ [](sip = "ended" /\ owner = "waiting"))
=============================================================================
