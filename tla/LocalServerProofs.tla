------------------------- MODULE LocalServerProofs -------------------------
(* Theorems about LocalServer, for every list of platforms and every width *)
(* of an int, and about the code of a PTZ command.                         *)
EXTENDS LocalServer, TLAPS

-----------------------------------------------------------------------------
(* Type correctness.                                                       *)

LEMMA CountedUpIsInt ==
  ASSUME NEW sn \in int PROVE CountedUp(sn) \in int
BY LocalServerAssumption DEF int, CountedUp

\* What the events make of a platform.
LEMMA UpdatesKeepPlatform ==
  ASSUME NEW pl \in Platform(int, 0 .. MaxEvents), events \in 0 .. MaxEvents
  PROVE  /\ Registered(pl) \in Platform(int, 0 .. MaxEvents)
         /\ KeptAlive(pl) \in Platform(int, 0 .. MaxEvents)
         /\ Registered(pl).ID = pl.ID /\ KeptAlive(pl).ID = pl.ID
         /\ Registered(pl).m_SN = pl.m_SN /\ KeptAlive(pl).m_SN = pl.m_SN
         /\ Registered(pl).call_id = events /\ KeptAlive(pl).call_id = pl.call_id
         /\ Registered(pl).isRegister /\ (pl.isRegister => KeptAlive(pl).isRegister)
BY DEF Platform, Registered, KeptAlive

\* What a round of the loop does to the platforms.
LEMMA LookUpdates ==
  ASSUME TypeOK, Look
  PROVE  \A p \in Position :
           /\ platform'[p] \in Platform(int, 0 .. MaxEvents)
           /\ platform'[p].ID = platform[p].ID /\ platform'[p].m_SN = platform[p].m_SN
           /\ platform[p].isRegister => platform'[p].isRegister
           /\ \/ platform'[p].call_id = platform[p].call_id
              \/ platform'[p].call_id = events /\ platform'[p].isRegister
<1> SUFFICES ASSUME NEW p \in Position
             PROVE  /\ platform'[p] \in Platform(int, 0 .. MaxEvents)
                    /\ platform'[p].ID = platform[p].ID /\ platform'[p].m_SN = platform[p].m_SN
                    /\ platform[p].isRegister => platform'[p].isRegister
                    /\ \/ platform'[p].call_id = platform[p].call_id
                       \/ platform'[p].call_id = events /\ platform'[p].isRegister
  OBVIOUS
<1>1. platform[p] \in Platform(int, 0 .. MaxEvents) /\ events \in 0 .. MaxEvents
      /\ platform \in [Position -> Platform(int, 0 .. MaxEvents)]
  BY DEF TypeOK, ListTypes, HistoryTypes
<1>2. platform'[p] \in {platform[p], Registered(platform[p]), KeptAlive(platform[p])}
  BY <1>1 DEF Look, Fault, listVars
<1> QED
  BY <1>1, <1>2, UpdatesKeepPlatform

LEMMA NoEventIsEvent == NoEvent \in Event
BY DEF Event, NoEvent

LEMMA TypeInit == Init => TypeOK
<1> SUFFICES ASSUME Init PROVE TypeOK
  OBVIOUS
<1>1. ThreadTypes
  <2>1. event \in Event
    BY NoEventIsEvent DEF Init
  <2>2. va \in 1 .. End /\ it \in 1 .. End
    BY LocalServerAssumption DEF Init, Position, End
  <2> QED
    BY <2>1, <2>2 DEF Init, ThreadTypes
<1>2. ListTypes
  <2>1. Memory \subseteq int /\ 0 \in 0 .. MaxEvents
    BY LocalServerAssumption DEF int
  <2>2. Platform(Memory, {0}) \subseteq Platform(int, 0 .. MaxEvents)
    BY <2>1 DEF Platform
  <2> QED
    BY <2>2 DEF Init, ListTypes
<1>3. HistoryTypes
  BY LocalServerAssumption DEF Init, HistoryTypes
<1> QED
  BY <1>1, <1>2, <1>3 DEF TypeOK

LEMMA TypeThreads == TypeOK /\ Next => ThreadTypes'
<1> SUFFICES ASSUME TypeOK, Next PROVE ThreadTypes'
  OBVIOUS
<1>0. Platforms \in Nat
  BY LocalServerAssumption
<1> USE <1>0 DEF TypeOK, ThreadTypes, mainVars, sipVars, stopVars, Position, End
<1>1. CASE Start
  BY <1>1 DEF Start
<1>2. CASE Bind
  BY <1>2 DEF Bind
<1>3. CASE Copied
  BY <1>3 DEF Copied, Fault
<1>4. CASE SendPtz
  <2>1. UNCHANGED <<sip, event, it, owner, eCtx>>
        /\ (UNCHANGED <<main, va>> \/ (main' = "serve" /\ va' = End))
    BY <1>4 DEF SendPtz, Fault
  <2>2. m_bIsStop' = m_bIsStop /\ crashed' \in BOOLEAN
    BY <1>4, Zenon DEF SendPtz, Fault
  <2> QED
    BY <2>1, <2>2
<1>5. CASE Erase
  <2>1. UNCHANGED <<main, sip, event, it, owner, eCtx>>
        /\ main = "destroy" /\ va \in Position /\ va' \in {va, va + 1}
    BY <1>5 DEF Erase, Fault
  <2>2. m_bIsStop' = m_bIsStop /\ crashed' \in BOOLEAN
    BY <1>5, Zenon DEF Erase, Fault
  <2> QED
    BY <2>1, <2>2
<1>6. CASE Exit
  BY <1>6 DEF Exit
<1>7. ASSUME NEW p \in Position, NEW id \in Ids, FindPlatform(p, id) PROVE ThreadTypes'
  BY <1>7 DEF FindPlatform
<1>8. CASE Malloc
  BY <1>8 DEF Malloc
<1>9. CASE InitContext
  BY <1>9 DEF InitContext, Fault
<1>10. CASE Listen
  BY <1>10 DEF Listen
<1>11. CASE TestStop
  BY <1>11 DEF TestStop
<1>12. CASE NothingYet
  BY <1>12 DEF NothingYet, Fault
<1>13. CASE Look
  <2>1. UNCHANGED <<main, va, event, owner, eCtx>>
        /\ sip = "look" /\ it \in Position
        /\ ((it' = it + 1 /\ sip' = sip) \/ (it' = it /\ sip' \in {sip, "assign"}))
    BY <1>13 DEF Look, Fault
  <2>2. m_bIsStop' = m_bIsStop /\ crashed' \in BOOLEAN
    BY <1>13, Zenon DEF Look, Fault
  <2> QED
    BY <2>1, <2>2
<1>14. CASE Assigned
  <2>1. UNCHANGED <<main, va, event, owner, eCtx>>
        /\ sip = "assign" /\ it \in Position
        /\ ((it' = it + 1 /\ sip' = "look") \/ (it' = it /\ sip' = sip))
    BY <1>14 DEF Assigned, Fault
  <2>2. m_bIsStop' = m_bIsStop /\ crashed' \in BOOLEAN
    BY <1>14, Zenon DEF Assigned, Fault
  <2> QED
    BY <2>1, <2>2
<1>15. CASE Answer
  BY <1>15, NoEventIsEvent DEF Answer
<1>16. ASSUME NEW e \in Event, GetEvent(e) PROVE ThreadTypes'
  BY <1>16 DEF GetEvent
<1>17. CASE Stop
  BY <1>17 DEF Stop
<1>18. CASE AwaitStop
  BY <1>18 DEF AwaitStop
<1>19. CASE Ended
  BY <1>19 DEF Ended, vars
<1> QED
  BY <1>1, <1>2, <1>3, <1>4, <1>5, <1>6, <1>7, <1>8, <1>9, <1>10, <1>11, <1>12, <1>13,
     <1>14, <1>15, <1>16, <1>17, <1>18, <1>19 DEF Next, MainStep, SipStep

\* Which steps change what.
LEMMA Frames ==
  ASSUME Next
  PROVE  /\ \/ UNCHANGED platform
            \/ Look
            \/ \E p \in Position, id \in Ids : FindPlatform(p, id)
         /\ \/ UNCHANGED <<turns, commands>>
            \/ UNCHANGED turns /\ SendPtz
            \/ \E p \in Position, id \in Ids : FindPlatform(p, id)
         /\ UNCHANGED <<events, heard>> \/ \E e \in Event : GetEvent(e)
         /\ UNCHANGED <<due, byes, listed>> \/ Bind \/ Erase
         /\ UNCHANGED <<owner, m_bIsStop>> \/ Start \/ Stop \/ AwaitStop
         /\ UNCHANGED eCtx \/ Malloc \/ InitContext \/ Listen \/ AwaitStop
<1> USE DEF Next, MainStep, SipStep, listVars, stopVars, told, history, vars, Fault, Start, Bind,
            Copied, SendPtz, Erase, Exit, Malloc, InitContext, Listen, TestStop, NothingYet,
            Assigned, Answer, GetEvent, Stop, AwaitStop, Ended, FindPlatform, Look
<1>1. \/ UNCHANGED platform
      \/ Look
      \/ \E p \in Position, id \in Ids : FindPlatform(p, id)
  OBVIOUS
<1>2. \/ UNCHANGED <<turns, commands>>
      \/ UNCHANGED turns /\ SendPtz
      \/ \E p \in Position, id \in Ids : FindPlatform(p, id)
  OBVIOUS
<1>3. UNCHANGED <<events, heard>> \/ \E e \in Event : GetEvent(e)
  OBVIOUS
<1>4. UNCHANGED <<due, byes, listed>> \/ Bind \/ Erase
  OBVIOUS
<1>5. UNCHANGED <<owner, m_bIsStop>> \/ Start \/ Stop \/ AwaitStop
  OBVIOUS
<1>6. UNCHANGED eCtx \/ Malloc \/ InitContext \/ Listen \/ AwaitStop
  OBVIOUS
<1> HIDE DEF Next, MainStep, SipStep, listVars, stopVars, told, history, vars, Fault, Start, Bind,
            Copied, SendPtz, Erase, Exit, Malloc, InitContext, Listen, TestStop, NothingYet,
            Assigned, Answer, GetEvent, Stop, AwaitStop, Ended, FindPlatform, Look
<1> QED
  BY <1>1, <1>2, <1>3, <1>4, <1>5, <1>6

\* A PTZ command changes one m_SN and nothing else of the platforms.
LEMMA FindUpdates ==
  ASSUME TypeOK, NEW p \in Position, NEW id \in Ids, FindPlatform(p, id), NEW q \in Position
  PROVE  /\ platform'[q] \in Platform(int, 0 .. MaxEvents)
         /\ platform'[q].ID = platform[q].ID /\ platform'[q].call_id = platform[q].call_id
         /\ platform'[q].isRegister = platform[q].isRegister
         /\ platform'[q].m_SN = IF q = p THEN CountedUp(platform[q].m_SN) ELSE platform[q].m_SN
         /\ turns'[q] = IF q = p THEN turns[q] + 1 ELSE turns[q]
<1>1. /\ platform[q] \in Platform(int, 0 .. MaxEvents)
      /\ platform \in [Position -> Platform(int, 0 .. MaxEvents)]
      /\ turns \in [Position -> Nat]
  BY DEF TypeOK, ListTypes, HistoryTypes
<1>2. platform'[q] = IF q = p THEN [platform[q] EXCEPT !.m_SN = CountedUp(@)] ELSE platform[q]
  BY <1>1 DEF FindPlatform
<1>3. CountedUp(platform[q].m_SN) \in int
  BY <1>1, CountedUpIsInt DEF Platform
<1>4. turns'[q] = IF q = p THEN turns[q] + 1 ELSE turns[q]
  BY <1>1 DEF FindPlatform
<1> HIDE DEF int
<1> QED
  BY <1>1, <1>2, <1>3, <1>4 DEF Platform

LEMMA TypeLists == TypeOK /\ Next => ListTypes'
<1> SUFFICES ASSUME TypeOK, Next PROVE ListTypes'
  OBVIOUS
<1>1. \A p \in Position : platform'[p] \in Platform(int, 0 .. MaxEvents)
  BY Frames, LookUpdates, FindUpdates DEF TypeOK, ListTypes
<1>2. DOMAIN platform' = Position /\ platform' = [p \in Position |-> platform'[p]]
  <2>1. platform \in [Position -> Platform(int, 0 .. MaxEvents)]
    BY DEF TypeOK, ListTypes
  <2>2. CASE UNCHANGED platform
    BY <2>1, <2>2
  <2>3. CASE Look
    BY <2>1, <2>3 DEF Look, Fault, listVars
  <2>4. ASSUME NEW p \in Position, NEW id \in Ids, FindPlatform(p, id)
        PROVE  DOMAIN platform' = Position /\ platform' = [q \in Position |-> platform'[q]]
    BY <2>1, <2>4 DEF FindPlatform
  <2> QED
    BY <2>2, <2>3, <2>4, Frames
<1>3. listed' \subseteq Position
  BY Frames DEF Bind, Erase, Fault, listVars, TypeOK, ListTypes
<1> QED
  BY <1>1, <1>2, <1>3 DEF ListTypes

LEMMA TypeHistory == TypeOK /\ Next => HistoryTypes'
<1> SUFFICES ASSUME TypeOK, Next PROVE HistoryTypes'
  OBVIOUS
<1>1. /\ HistoryTypes /\ platform \in [Position -> Platform(int, 0 .. MaxEvents)]
      /\ MaxEvents \in Nat /\ Platforms \in Nat
  BY LocalServerAssumption DEF TypeOK, ListTypes
<1>2. events' \in 0 .. MaxEvents /\ heard' \in [Ids -> 0 .. events']
  <2>1. ASSUME NEW e \in Event, GetEvent(e)
        PROVE  events' \in 0 .. MaxEvents /\ heard' \in [Ids -> 0 .. events']
    <3>1. events' = events + 1 /\ events < MaxEvents /\ 0 .. events \subseteq 0 .. events'
          /\ events' \in 0 .. events'
      BY <1>1, <2>1 DEF GetEvent, HistoryTypes
    <3>2. heard' = heard \/ (e.from \in Ids /\ heard' = [heard EXCEPT ![e.from] = events'])
      BY <2>1, <3>1 DEF GetEvent
    <3>3. heard \in [Ids -> 0 .. events']
      BY <1>1, <3>1 DEF HistoryTypes
    <3> QED
      BY <1>1, <3>1, <3>2, <3>3 DEF HistoryTypes
  <2> QED
    BY <1>1, <2>1, Frames DEF HistoryTypes
<1>3. turns' \in [Position -> Nat]
  BY <1>1, Frames DEF HistoryTypes, FindPlatform
<1>4. commands' \in [Position -> SUBSET [sn : int, turn : Nat]]
  <2>1. CASE SendPtz
    <3>1. va \in Position \/ commands' = commands
      BY <2>1 DEF SendPtz, TypeOK, ThreadTypes
    <3>2. ASSUME va \in Position
          PROVE  [sn |-> platform[va].m_SN, turn |-> turns[va]] \in [sn : int, turn : Nat]
      BY <1>1, <3>2 DEF HistoryTypes, Platform
    <3>3. \/ commands' = commands
          \/ commands' = [commands EXCEPT
               ![va] = @ \union {[sn |-> platform[va].m_SN, turn |-> turns[va]]}]
      BY <2>1 DEF SendPtz, Fault, history
    <3> QED
      BY <1>1, <3>1, <3>2, <3>3 DEF HistoryTypes
  <2>2. ASSUME NEW p \in Position, NEW id \in Ids, FindPlatform(p, id)
        PROVE  commands' = commands
    BY <2>2 DEF FindPlatform
  <2> QED
    BY <1>1, <2>1, <2>2, Frames DEF HistoryTypes
<1>5. due' \subseteq Position /\ byes' \subseteq Position
  <2>1. CASE Bind
    BY <1>1, <2>1 DEF HistoryTypes, Bind
  <2>2. CASE Erase
    <3>1. va \in Position
      BY <1>1, <2>2 DEF Erase, TypeOK, ThreadTypes, Position, End
    <3>2. due' = due /\ byes' \in {byes, byes \union {va}}
      BY <2>2 DEF Erase, Fault, history
    <3> QED
      BY <1>1, <3>1, <3>2 DEF HistoryTypes
  <2> QED
    BY <1>1, <2>1, <2>2, Frames DEF HistoryTypes
<1> QED
  BY <1>2, <1>3, <1>4, <1>5 DEF HistoryTypes

LEMMA TypeStep == TypeOK /\ [Next]_vars => TypeOK'
<1> SUFFICES ASSUME TypeOK, [Next]_vars PROVE TypeOK'
  OBVIOUS
<1>1. CASE Next
  BY <1>1, TypeThreads, TypeLists, TypeHistory DEF TypeOK
<1>2. CASE UNCHANGED vars
  BY <1>2 DEF TypeOK, ThreadTypes, ListTypes, HistoryTypes, vars, mainVars, sipVars, stopVars,
              listVars, history, told
<1> QED
  BY <1>1, <1>2

\* The type invariant of the life of the SIP server.
THEOREM TypeCorrect == Spec => []TypeOK
  BY TypeInit, TypeStep, PTL DEF Spec

-----------------------------------------------------------------------------
(* Crashes: how far the SIP thread is says what eCtx points to, for stop   *)
(* never gets to free it.                                                  *)

ContextPlan ==
  /\ main = "boot" <=> sip = "none"
  /\ sip \in {"none", "malloc"} => eCtx = "NULL"
  /\ sip = "init" => eCtx \in {"NULL", "raw"}
  /\ sip = "listen" => eCtx = "silent"
  /\ sip \in {"test", "wait", "look", "assign", "ended"} =>
       eCtx \in {"failed", "silent", "listening"}
  /\ main = "boot" => owner = "idle"
  /\ owner = "waiting" => m_bIsStop
  /\ owner # "returned"

CInv == TypeOK /\ ContextPlan /\ CrashCause

LEMMA ContextStep == TypeOK /\ ContextPlan /\ Next => ContextPlan'
<1> SUFFICES ASSUME TypeOK, ContextPlan, Next PROVE ContextPlan'
  OBVIOUS
<1> USE DEF ContextPlan, mainVars, sipVars, stopVars
<1>1. CASE Start
  BY <1>1 DEF Start
<1>2. CASE Bind
  BY <1>2 DEF Bind
<1>3. CASE Copied
  BY <1>3 DEF Copied, Fault
<1>4. CASE SendPtz
  BY <1>4 DEF SendPtz, Fault
<1>5. CASE Erase
  BY <1>5 DEF Erase, Fault
<1>6. CASE Exit
  BY <1>6 DEF Exit
<1>7. ASSUME NEW p \in Position, NEW id \in Ids, FindPlatform(p, id) PROVE ContextPlan'
  BY <1>7 DEF FindPlatform
<1>8. CASE Malloc
  BY <1>8 DEF Malloc
<1>9. CASE InitContext
  BY <1>9 DEF InitContext, Fault
<1>10. CASE Listen
  BY <1>10 DEF Listen
<1>11. CASE TestStop
  BY <1>11 DEF TestStop
<1>12. CASE NothingYet
  BY <1>12 DEF NothingYet, Fault
<1>13. CASE Look
  BY <1>13 DEF Look, Fault
<1>14. CASE Assigned
  BY <1>14 DEF Assigned, Fault
<1>15. CASE Answer
  BY <1>15 DEF Answer
<1>16. ASSUME NEW e \in Event, GetEvent(e) PROVE ContextPlan'
  BY <1>16 DEF GetEvent
<1>17. CASE Stop
  BY <1>17 DEF Stop
<1>18. CASE AwaitStop
  BY <1>18 DEF AwaitStop
<1>19. CASE Ended
  BY <1>19 DEF Ended, vars
<1> QED
  BY <1>1, <1>2, <1>3, <1>4, <1>5, <1>6, <1>7, <1>8, <1>9, <1>10, <1>11, <1>12, <1>13,
     <1>14, <1>15, <1>16, <1>17, <1>18, <1>19 DEF Next, MainStep, SipStep

\* Which steps a process can die of.
LEMMA Faults ==
  ASSUME Next, crashed' # crashed
  PROVE  /\ Fault
         /\ \/ CatalogRace
            \/ main = "send" /\ SendRisk
            \/ main = "destroy"
            \/ sip = "init" /\ eCtx = "NULL"
            \/ sip = "wait" /\ ~ Usable
            \/ sip = "look" /\ (ListRace \/ event.from = NoContact)
            \/ sip = "assign" /\ ListRace
BY DEF Next, MainStep, SipStep, vars, Start, Bind, Copied, SendPtz, Erase, Exit, Malloc,
       InitContext, Listen, TestStop, NothingYet, Look, Assigned, Answer, GetEvent,
       FindPlatform, Stop, AwaitStop, Ended

LEMMA CrashStep == CInv /\ Next => CrashCause'
<1> SUFFICES ASSUME CInv, Next, crashed' PROVE CrashCause'
  BY DEF CrashCause
<1>1. CASE crashed' = crashed
  <2>1. UNCHANGED vars
    BY <1>1, Zenon DEF Next, Over, Ended
  <2> QED
    BY <1>1, <2>1 DEF CInv, CrashCause, vars, mainVars, sipVars, stopVars, listVars, history,
       CatalogRace, ListRace, TooLong
<1>2. CASE crashed' # crashed
  <2>1. UNCHANGED <<main, va, sip, event, it, eCtx, platform>>
    BY <1>2, Faults DEF Fault, mainVars, sipVars, listVars
  <2>2. Usable \/ eCtx \in {"NULL", "raw", "failed"}
    BY DEF CInv, TypeOK, ThreadTypes, Usable
  <2>3. sip = "wait" /\ ~ Usable => eCtx = "failed"
    BY DEF CInv, ContextPlan, Usable
  <2> QED
    BY <1>2, <2>1, <2>2, <2>3, Faults
    DEF CrashCause, CatalogRace, ListRace, SendRisk, TooLong
<1> QED
  BY <1>1, <1>2

LEMMA CInvInit == Init => CInv
BY TypeInit DEF Init, CInv, ContextPlan, CrashCause

LEMMA CInvStep == CInv /\ [Next]_vars => CInv'
<1>1. CInv /\ Next => CInv'
  BY TypeStep, ContextStep, CrashStep DEF CInv
<1>2. CInv /\ UNCHANGED vars => CInv'
  BY TypeStep DEF CInv, ContextPlan, CrashCause, vars, mainVars, sipVars, stopVars, listVars,
     history, CatalogRace, ListRace, TooLong
<1> QED
  BY <1>1, <1>2

\* The process dies of the causes that CrashCause lists and of no other of what this
\* module models, whatever the platforms and events are and whichever platforms the
\* requests, which have their items, are about.
THEOREM CrashCauseCorrect == Spec => []CrashCause
<1>1. CInv => CrashCause
  BY DEF CInv
<1> QED
  BY <1>1, CInvInit, CInvStep, PTL DEF Spec

-----------------------------------------------------------------------------
(* Registrations: while the SIP thread walks the list with a registration, *)
(* the entries behind it have the new call, those ahead the old one.       *)

Behind(p) ==
  sip \notin {"look", "assign"} \/ p < it \/ event.type # "register" \/ platform[p].ID # event.from

RegistrationPlan ==
  /\ \A p \in Position : Behind(p) => platform[p].call_id = heard[platform[p].ID]
  /\ \A p \in Position : platform[p].call_id # 0 => platform[p].isRegister
  /\ sip \in {"look", "assign"} /\ event.type = "register" => heard[event.from] = events
  /\ sip = "assign" => event.type # "register"

RInv == TypeOK /\ ContextPlan /\ RegistrationPlan

LEMMA RegistrationStep == RInv /\ Next => RegistrationPlan'
<1> SUFFICES ASSUME RInv, Next PROVE RegistrationPlan'
  OBVIOUS
<1>0. /\ TypeOK /\ platform \in [Position -> Platform(int, 0 .. MaxEvents)]
      /\ events \in Nat /\ heard \in [Ids -> 0 .. events] /\ event \in Event /\ it \in Nat /\ 1 <= it
      /\ \A p \in Position : p \in Nat /\ platform[p].ID \in Ids
      /\ NoContact \notin Ids
  <2>1. TypeOK
    BY DEF RInv
  <2>2. platform \in [Position -> Platform(int, 0 .. MaxEvents)]
    BY <2>1 DEF TypeOK, ListTypes
  <2>3. events \in 0 .. MaxEvents /\ heard \in [Ids -> 0 .. events]
    BY <2>1 DEF TypeOK, HistoryTypes
  <2>4. event \in Event /\ it \in 1 .. Platforms + 1
    BY <2>1 DEF TypeOK, ThreadTypes, End
  <2>5. ASSUME NEW p \in Position PROVE platform[p].ID \in Ids
    BY <2>2 DEF Platform
  <2>6. \A p \in Position : p \in Nat
    BY LocalServerAssumption DEF Position
  <2> QED
    BY <2>1, <2>2, <2>3, <2>4, <2>5, <2>6, LocalServerAssumption
<1>1. \A e \in Event : /\ e.type = "register" => e.from \in Ids /\ e.says = {}
  BY DEF Event
<1>2. ASSUME UNCHANGED <<platform, heard, events, it, event>>, sip' = sip PROVE RegistrationPlan'
  BY <1>2 DEF RInv, RegistrationPlan, Behind
<1>3. ASSUME UNCHANGED <<platform, heard, events>>, sip' \notin {"look", "assign"},
             sip \notin {"look", "assign"} \/ (sip = "look" /\ it > Platforms)
      PROVE  RegistrationPlan'
  <2>1. \A p \in Position : Behind(p)
    BY <1>0, <1>3, LocalServerAssumption DEF Behind, Position
  <2> QED
    BY <1>3, <2>1 DEF RInv, RegistrationPlan
<1>4. CASE Look /\ it' = it /\ sip' = sip /\ platform' = platform
  BY <1>2, <1>4 DEF Look, Fault, sipVars, history, told
<1>5. CASE Look /\ ~ Fault
  <2>1. /\ sip = "look" /\ it \in Position /\ UNCHANGED <<event, heard, events>>
        /\ \/ it' = it + 1 /\ sip' = "look"
           \/ it' = it /\ sip' = "assign" /\ "Catalog" \in event.says
        /\ platform' = IF event.from # platform[it].ID THEN platform
                       ELSE [platform EXCEPT ![it] =
                         IF event.type = "register" THEN Registered(@)
                         ELSE IF "Keepalive" \in event.says THEN KeptAlive(@) ELSE @]
    BY <1>0, <1>5 DEF Look, history, told, Position
  <2>2. event.type = "register" => it' = it + 1
    BY <1>0, <1>1, <2>1
  <2>3. \A p \in Position : platform'[p].ID = platform[p].ID
    BY <1>0, <1>5, LookUpdates
  <2>4. \A p \in Position :
          platform'[p].call_id = IF p = it /\ event.type = "register" /\ event.from = platform[p].ID
                                 THEN events ELSE platform[p].call_id
    <3> TAKE p \in Position
    <3>1. platform[p] \in Platform(int, 0 .. MaxEvents)
      BY <1>0
    <3>2. KeptAlive(platform[p]).call_id = platform[p].call_id
          /\ Registered(platform[p]).call_id = events
      BY <3>1 DEF KeptAlive, Registered, Platform
    <3> QED
      BY <1>0, <2>1, <3>2
  <2>5. \A p \in Position : Behind(p)' => platform'[p].call_id = heard'[platform'[p].ID]
    <3> SUFFICES ASSUME NEW p \in Position, Behind(p)'
                 PROVE  platform'[p].call_id = heard'[platform'[p].ID]
      OBVIOUS
    <3>1. Behind(p) => platform[p].call_id = heard[platform[p].ID]
      BY DEF RInv, RegistrationPlan
    <3>2. event.type = "register" => heard[event.from] = events
      BY <2>1 DEF RInv, RegistrationPlan
    <3>3. Behind(p) \/ (p = it /\ event.type = "register" /\ event.from = platform[p].ID)
      BY <1>0, <2>1, <2>2, <2>3 DEF Behind
    <3> QED
      BY <2>1, <2>3, <2>4, <3>1, <3>2, <3>3 DEF Behind
  <2>6. \A p \in Position : platform'[p].call_id # 0 => platform'[p].isRegister
    BY <1>0, <1>5, LookUpdates DEF RInv, RegistrationPlan
  <2> QED
    BY <1>0, <1>1, <2>1, <2>2, <2>5, <2>6 DEF RInv, RegistrationPlan
<1>6. CASE Assigned
  <2>1. /\ UNCHANGED <<platform, heard, events, event>> /\ sip = "assign"
        /\ (it' = it /\ sip' = sip) \/ (it' = it + 1 /\ sip' = "look")
    BY <1>6 DEF Assigned, Fault, sipVars, listVars, history, told
  <2>2. event.type # "register"
    BY <2>1 DEF RInv, RegistrationPlan
  <2> QED
    BY <2>1, <2>2 DEF RInv, RegistrationPlan, Behind
<1>7. ASSUME NEW e \in Event, GetEvent(e) PROVE RegistrationPlan'
  <2>1. /\ platform' = platform /\ sip = "wait" /\ sip' = "look" /\ event' = e
        /\ events' = events + 1
        /\ heard' = IF e.type = "register" /\ e.from \in Ids
                    THEN [heard EXCEPT ![e.from] = events + 1] ELSE heard
    BY <1>7 DEF GetEvent, listVars
  <2>2. \A p \in Position : platform[p].call_id = heard[platform[p].ID]
    BY <2>1 DEF RInv, RegistrationPlan, Behind
  <2>3. /\ e.type = "register" => heard'[e.from] = events'
        /\ \A i \in Ids : e.type # "register" \/ e.from # i => heard'[i] = heard[i]
    BY <1>0, <1>1, <2>1
  <2>4. it' \in {1, End}
    BY <1>7 DEF GetEvent
  <2>5. \A p \in Position : Behind(p)' => e.type # "register" \/ e.from # platform[p].ID
    BY <1>0, <2>1, <2>4, LocalServerAssumption, <1>7 DEF Behind, Position, GetEvent
  <2> QED
    BY <1>0, <2>1, <2>2, <2>3, <2>5 DEF RInv, RegistrationPlan
<1>8. ASSUME NEW p \in Position, NEW id \in Ids, FindPlatform(p, id) PROVE RegistrationPlan'
  <2>1. UNCHANGED <<sip, it, event, heard, events>>
    BY <1>8 DEF FindPlatform, sipVars, told
  <2>2. \A q \in Position : /\ platform'[q].ID = platform[q].ID
                            /\ platform'[q].call_id = platform[q].call_id
                            /\ platform'[q].isRegister = platform[q].isRegister
    BY <1>0, <1>8, FindUpdates
  <2> QED
    BY <2>1, <2>2 DEF RInv, RegistrationPlan, Behind
<1>9. CASE Start \/ Malloc \/ InitContext \/ Listen \/ TestStop \/ NothingYet \/ Answer
  <2>1. /\ UNCHANGED <<platform, heard, events>>
        /\ \/ UNCHANGED <<it, event, sip>>
           \/ /\ sip' \notin {"look", "assign"}
              /\ sip \notin {"look", "assign"} \/ (sip = "look" /\ it > Platforms)
    <3>1. main = "boot" => sip = "none"
      BY DEF RInv, ContextPlan
    <3> QED
      BY <1>9, <3>1 DEF Start, Malloc, InitContext, Listen, TestStop, NothingYet, Answer, Fault,
         sipVars, listVars, history, told
  <2> QED
    BY <1>2, <1>3, <2>1
<1>10. CASE Bind \/ Copied \/ SendPtz \/ Erase \/ Exit \/ Stop \/ AwaitStop \/ Ended
  BY <1>2, <1>10 DEF Bind, Copied, SendPtz, Erase, Exit, Stop, AwaitStop, Ended, Fault, sipVars,
     listVars, history, told, vars
<1>11. CASE Look /\ Fault
  BY <1>4, <1>11 DEF Fault, sipVars, listVars
<1> QED
  BY <1>5, <1>6, <1>7, <1>8, <1>9, <1>10, <1>11 DEF Next, MainStep, SipStep

LEMMA RInvInit == Init => RInv
<1> SUFFICES ASSUME Init PROVE RInv
  OBVIOUS
<1>1. \A p \in Position : platform[p].call_id = 0 /\ platform[p].ID \in Ids
  BY DEF Init, Platform
<1> QED
  BY <1>1, CInvInit DEF CInv, RInv, RegistrationPlan, Init

LEMMA RInvStep == RInv /\ [Next]_vars => RInv'
<1>1. RInv /\ Next => RInv'
  BY TypeStep, ContextStep, RegistrationStep DEF RInv
<1>2. RInv /\ UNCHANGED vars => RInv'
  BY TypeStep DEF RInv, ContextPlan, RegistrationPlan, Behind, vars, mainVars, sipVars, stopVars,
     listVars, history, told
<1> QED
  BY <1>1, <1>2

\* Every platform of an ID has the call of the last registration with it.
THEOREM RegistrationIsRealCorrect == Spec => []RegistrationIsReal
<1>1. RInv => RegistrationIsReal
  BY DEF RInv, RegistrationPlan, Behind, RegistrationIsReal
<1> QED
  BY <1>1, RInvInit, RInvStep, PTL DEF Spec

-----------------------------------------------------------------------------
(* Farewells: the destructor has said goodbye to the platforms it has left *)
(* behind, and a registration is never taken back.                         *)

Leaving == main \in {"destroy", "exit", "gone"}

FarewellPlan ==
  /\ \A p \in byes \union due : platform[p].isRegister
  /\ ~ Leaving => due = {} /\ byes = {} /\ listed = Position
  /\ main = "destroy" => listed = va .. Platforms /\ \A p \in due : p < va => p \in byes
  /\ main \in {"exit", "gone"} => due \subseteq byes /\ listed = {}

FInv == TypeOK /\ FarewellPlan

LEMMA FarewellStep == FInv /\ Next => FarewellPlan'
<1> SUFFICES ASSUME FInv, Next PROVE FarewellPlan'
  OBVIOUS
<1>0. /\ Platforms \in Nat /\ va \in Nat /\ 1 <= va /\ va <= Platforms + 1
      /\ due \subseteq Position /\ byes \subseteq Position /\ FarewellPlan /\ TypeOK
      /\ \A p \in Position : p \in Nat /\ 1 <= p /\ p <= Platforms
  BY LocalServerAssumption DEF FInv, TypeOK, ThreadTypes, HistoryTypes, Position, End
<1>1. \A p \in Position : platform[p].isRegister => platform'[p].isRegister
  BY <1>0, Frames, LookUpdates, FindUpdates
<1>2. ASSUME UNCHANGED <<due, byes, listed>>,
             \/ UNCHANGED <<main, va>>
             \/ ~ Leaving /\ ~ Leaving'
             \/ main \in {"exit", "gone"} /\ main' \in {"exit", "gone"}
             \/ main = "destroy" /\ va > Platforms /\ main' \in {"exit", "gone"}
      PROVE  FarewellPlan'
  <2>1. \A p \in byes' \union due' : platform'[p].isRegister
    BY <1>0, <1>1, <1>2 DEF FarewellPlan
  <2>2. CASE UNCHANGED <<main, va>>
    BY <1>0, <1>2, <2>1, <2>2 DEF FarewellPlan, Leaving
  <2>3. CASE ~ Leaving /\ ~ Leaving'
    BY <1>0, <1>2, <2>1, <2>3 DEF FarewellPlan, Leaving
  <2>4. CASE main \in {"exit", "gone"} /\ main' \in {"exit", "gone"}
    BY <1>0, <1>2, <2>1, <2>4 DEF FarewellPlan, Leaving
  <2>5. CASE main = "destroy" /\ va > Platforms /\ main' \in {"exit", "gone"}
    <3>1. listed = {} /\ due \subseteq byes
      BY <1>0, <2>5 DEF FarewellPlan
    <3> QED
      BY <1>2, <2>1, <2>5, <3>1 DEF FarewellPlan, Leaving
  <2> QED
    BY <1>2, <2>2, <2>3, <2>4, <2>5
<1>3. CASE Bind
  <2>1. CASE main' = "serve" /\ UNCHANGED <<va, due>>
    BY <1>2, <1>3, <2>1 DEF Bind, Leaving, listVars
  <2>2. CASE main' = "destroy" /\ va' = 1 /\ due' = {p \in Position : platform[p].isRegister}
    <3>1. platform' = platform /\ listed' = listed /\ byes' = byes /\ byes = {} /\ listed = Position
      BY <1>0, <1>3 DEF Bind, listVars, FarewellPlan, Leaving
    <3>2. \A p \in due' : ~ (p < va')
      BY <1>0, <2>2
    <3> QED
      BY <2>2, <3>1, <3>2 DEF FarewellPlan, Leaving, Position
  <2> QED
    BY <1>3, <2>1, <2>2 DEF Bind
<1>4. CASE Erase /\ ~ Fault
  <2>1. /\ main = "destroy" /\ main' = main /\ va \in Position /\ va' = va + 1 /\ due' = due
        /\ listed' = listed \ {va} /\ platform' = platform
        /\ byes' = IF platform[va].isRegister THEN byes \union {va} ELSE byes
    BY <1>0, <1>4 DEF Erase, Position
  <2>2. \A p \in byes' \union due' : platform'[p].isRegister
    BY <1>0, <2>1 DEF FarewellPlan
  <2>3. listed' = va' .. Platforms
    BY <1>0, <2>1 DEF FarewellPlan
  <2>4. \A p \in due' : p < va' => p \in byes'
    BY <1>0, <2>1 DEF FarewellPlan
  <2> QED
    BY <2>1, <2>2, <2>3, <2>4 DEF FarewellPlan, Leaving
<1>5. CASE Erase /\ Fault
  BY <1>2, <1>5 DEF Fault, mainVars, listVars, history
<1>6. CASE ~ Bind /\ ~ Erase
  <2>1. UNCHANGED <<due, byes, listed>>
    BY <1>6, Frames
  <2>2. \/ UNCHANGED <<main, va>>
        \/ ~ Leaving /\ ~ Leaving'
        \/ main \in {"exit", "gone"} /\ main' \in {"exit", "gone"}
        \/ main = "destroy" /\ va > Platforms /\ main' \in {"exit", "gone"}
    BY <1>6 DEF Next, MainStep, SipStep, mainVars, vars, Fault, Start, Copied, SendPtz, Exit, Malloc,
       InitContext, Listen, TestStop, NothingYet, Look, Assigned, Answer, GetEvent, Stop,
       AwaitStop, Ended, FindPlatform, Leaving
  <2> QED
    BY <1>2, <2>1, <2>2
<1> QED
  BY <1>3, <1>4, <1>5, <1>6

LEMMA FInvStep == FInv /\ [Next]_vars => FInv'
<1>1. FInv /\ Next => FInv'
  BY TypeStep, FarewellStep DEF FInv
<1>2. FInv /\ UNCHANGED vars => FInv'
  BY TypeStep DEF FInv, FarewellPlan, Leaving, vars, mainVars, listVars, history
<1> QED
  BY <1>1, <1>2

\* The destructor calls sendBye for every platform that was registered when it
\* began, and for registered ones only.
THEOREM FarewellsAreDueCorrect == Spec => []FarewellsAreDue
<1>1. Init => FInv
  BY TypeInit DEF Init, FInv, FarewellPlan, Leaving
<1>2. FInv => FarewellsAreDue
  BY DEF FInv, FarewellPlan, FarewellsAreDue
<1> QED
  BY <1>1, <1>2, FInvStep, PTL DEF Spec

-----------------------------------------------------------------------------
(* Command numbers: m_SN is ahead of the number of a command by the turns  *)
(* since, less the values of an int if it has wrapped around.              *)

Ahead(p, c) ==
  LET d == turns[p] - c.turn
  IN  d <= 2 * MaxInt + 1 =>
        platform[p].m_SN = c.sn + d \/ platform[p].m_SN = c.sn + d - (2 * MaxInt + 2)

NumberPlan ==
  /\ \A p \in Position : \A c \in commands[p] : c.turn <= turns[p] /\ Ahead(p, c)
  /\ CommandNumbersDiffer

NInv == TypeOK /\ NumberPlan

LEMMA CountingGoesOn ==
  ASSUME NEW M \in Nat, NEW sn \in -M - 1 .. M, NEW c \in -M - 1 .. M, NEW d \in Nat,
         d + 1 <= 2 * M + 1, sn = c + d \/ sn = c + d - (2 * M + 2),
         NEW next, next = IF sn = M THEN -M - 1 ELSE sn + 1
  PROVE  next = c + (d + 1) \/ next = c + (d + 1) - (2 * M + 2)
OBVIOUS

LEMMA AheadMeansOther ==
  ASSUME NEW M \in Nat, NEW sn \in Int, NEW c \in Int, NEW d \in Nat, 0 < d, d <= 2 * M + 1,
         sn = c + d \/ sn = c + d - (2 * M + 2)
  PROVE  sn # c
OBVIOUS

LEMMA NumberStep == NInv /\ Next => NumberPlan'
<1> SUFFICES ASSUME NInv, Next PROVE NumberPlan'
  OBVIOUS
<1>0. /\ TypeOK /\ NumberPlan /\ MaxInt \in Nat
      /\ turns \in [Position -> Nat] /\ commands \in [Position -> SUBSET [sn : int, turn : Nat]]
      /\ \A p \in Position : platform[p].m_SN \in int /\ turns[p] \in Nat
      /\ \A p \in Position : \A c \in commands[p] : c.sn \in int /\ c.turn \in Nat
  BY LocalServerAssumption DEF NInv, TypeOK, ListTypes, HistoryTypes, Platform
<1>1. ASSUME UNCHANGED <<turns, commands>>,
             \A p \in Position : platform'[p].m_SN = platform[p].m_SN
      PROVE  NumberPlan'
  BY <1>0, <1>1 DEF NumberPlan, Ahead, CommandNumbersDiffer
<1>2. ASSUME NEW p \in Position, NEW id \in Ids, FindPlatform(p, id) PROVE NumberPlan'
  <2>1. commands' = commands
    BY <1>2 DEF FindPlatform
  <2>2. \A q \in Position :
          /\ platform'[q].m_SN = IF q = p THEN CountedUp(platform[q].m_SN) ELSE platform[q].m_SN
          /\ turns'[q] = IF q = p THEN turns[q] + 1 ELSE turns[q]
    BY <1>0, <1>2, FindUpdates
  <2>3. ASSUME NEW q \in Position, NEW c \in commands[q]
        PROVE  c.turn <= turns'[q] /\ Ahead(q, c)'
    <3>1. c.turn <= turns[q] /\ Ahead(q, c) /\ c.turn \in Nat /\ turns[q] \in Nat
      BY <1>0 DEF NumberPlan
    <3>2. CASE q # p
      BY <2>2, <3>1, <3>2 DEF Ahead
    <3>3. CASE q = p
      <4> DEFINE d == turns[q] - c.turn
      <4>1. d \in Nat /\ turns'[q] - c.turn = d + 1 /\ c.turn <= turns'[q]
        BY <2>2, <3>1, <3>3
      <4>2. ASSUME d + 1 <= 2 * MaxInt + 1
            PROVE  \/ platform'[q].m_SN = c.sn + (d + 1)
                   \/ platform'[q].m_SN = c.sn + (d + 1) - (2 * MaxInt + 2)
        <5>1. platform[q].m_SN = c.sn + d \/ platform[q].m_SN = c.sn + d - (2 * MaxInt + 2)
          BY <1>0, <3>1, <4>1, <4>2 DEF Ahead
        <5>2. platform[q].m_SN \in -MaxInt - 1 .. MaxInt /\ c.sn \in -MaxInt - 1 .. MaxInt
          BY <1>0 DEF int
        <5>3. platform'[q].m_SN = IF platform[q].m_SN = MaxInt THEN -MaxInt - 1
                                  ELSE platform[q].m_SN + 1
          BY <2>2, <3>3 DEF CountedUp
        <5> HIDE DEF d
        <5> QED
          BY <1>0, <4>1, <4>2, <5>1, <5>2, <5>3, CountingGoesOn
      <4> QED
        BY <4>1, <4>2 DEF Ahead
    <3> QED
      BY <3>2, <3>3
  <2>4. CommandNumbersDiffer'
    BY <1>0, <2>1 DEF NumberPlan, CommandNumbersDiffer
  <2> QED
    BY <2>1, <2>3, <2>4 DEF NumberPlan
<1>3. CASE SendPtz /\ commands' # commands
  <2> DEFINE new == [sn |-> platform[va].m_SN, turn |-> turns[va]]
  <2>1. /\ va \in Position /\ platform' = platform /\ turns' = turns
        /\ commands' = [commands EXCEPT ![va] = @ \union {new}]
    BY <1>0, <1>3 DEF SendPtz, Fault, history, listVars, TypeOK, ThreadTypes
  <2>2. new.sn = platform[va].m_SN /\ new.turn = turns[va]
    OBVIOUS
  <2> HIDE DEF new
  <2>3. \A q \in Position : commands'[q] = IF q = va THEN commands[q] \union {new} ELSE commands[q]
    BY <1>0, <2>1
  <2>4. new.turn <= turns[va] /\ Ahead(va, new)
    <3>1. new.turn = turns[va] /\ new.sn = platform[va].m_SN /\ new.sn \in Int /\ new.turn \in Nat
      BY <1>0, <2>1, <2>2 DEF int
    <3> QED
      BY <3>1 DEF Ahead
  <2>5. \A q \in Position : \A c \in commands'[q] : c.turn <= turns'[q] /\ Ahead(q, c)'
    BY <1>0, <2>1, <2>3, <2>4 DEF NumberPlan, Ahead
  <2>6. ASSUME NEW c \in commands[va], c.turn < new.turn, new.turn - c.turn <= 2 * MaxInt + 1
        PROVE  c.sn # new.sn
    <3>1. new.turn - c.turn \in Nat /\ 0 < new.turn - c.turn /\ c.sn \in Int /\ new.sn \in Int
      BY <1>0, <2>1, <2>2, <2>6 DEF int
    <3>2. \/ new.sn = c.sn + (new.turn - c.turn)
          \/ new.sn = c.sn + (new.turn - c.turn) - (2 * MaxInt + 2)
      BY <1>0, <2>1, <2>2, <2>6 DEF NumberPlan, Ahead
    <3> QED
      BY <1>0, <2>6, <3>1, <3>2, AheadMeansOther
  <2>7. \A c \in commands[va] : ~ (new.turn < c.turn)
    BY <1>0, <2>1, <2>2 DEF NumberPlan
  <2>8. CommandNumbersDiffer'
    BY <1>0, <2>1, <2>2, <2>3, <2>6, <2>7 DEF NumberPlan, CommandNumbersDiffer
  <2> QED
    BY <2>5, <2>8 DEF NumberPlan
<1>4. CASE Look
  BY <1>0, <1>1, <1>4, LookUpdates DEF Look, Fault, history
<1>5. CASE SendPtz /\ commands' = commands
  BY <1>1, <1>5 DEF SendPtz, Fault, history, listVars
<1>6. CASE UNCHANGED <<platform, turns, commands>>
  BY <1>1, <1>6
<1>7. SendPtz => UNCHANGED turns
  BY DEF SendPtz, Fault, history
<1> QED
  BY <1>2, <1>3, <1>4, <1>5, <1>6, <1>7, Frames

LEMMA NInvStep == NInv /\ [Next]_vars => NInv'
<1>1. NInv /\ Next => NInv'
  BY TypeStep, NumberStep DEF NInv
<1>2. NInv /\ UNCHANGED vars => NInv'
  BY TypeStep DEF NInv, NumberPlan, Ahead, CommandNumbersDiffer, vars, listVars, history
<1> QED
  BY <1>1, <1>2

\* Whatever m_SN held at first and however often it wraps around, the commands
\* of a platform differ in their numbers as long as an int allows.
THEOREM CommandNumbersDifferCorrect == Spec => []CommandNumbersDiffer
<1>1. Init => NInv
  BY TypeInit DEF Init, NInv, NumberPlan, CommandNumbersDiffer
<1>2. NInv => CommandNumbersDiffer
  BY DEF NInv, NumberPlan
<1> QED
  BY <1>1, <1>2, NInvStep, PTL DEF Spec

-----------------------------------------------------------------------------
(* How much the SIP thread still does after stop, and that stop waits on.   *)

\* At most so many steps are left of the SIP thread: it handles one event more at
\* most, and looks at each platform for it.
Left ==
  IF sip = "wait" THEN 2 * Platforms + 3
  ELSE IF sip = "look" THEN 2 * (End - it) + 2
  ELSE IF sip = "assign" THEN 2 * (End - it) + 1
  ELSE [none |-> 5, malloc |-> 4, init |-> 3, listen |-> 2, test |-> 1, ended |-> 0][sip]

\* A stop is final: whatever comes in and whatever main does, each step of the SIP
\* thread takes it nearer to its end, and stop does not return, during its life
\* or after it.
StopIsFinal ==
  [][owner = "waiting" =>
       owner' = "waiting" /\ m_bIsStop' /\ (UNCHANGED <<sip, it>> \/ Left' < Left)]_vars

LEMMA LeftFalls ==
  ASSUME TypeOK, SipStep, m_bIsStop
  PROVE  UNCHANGED <<sip, it>> \/ Left' < Left
<1>0. it \in 1 .. End /\ Platforms \in Nat /\ End = Platforms + 1
  BY LocalServerAssumption DEF TypeOK, ThreadTypes, End
<1> USE DEF Left, sipVars
<1>1. CASE Fault
  BY <1>1 DEF Fault
<1>2. CASE Malloc \/ InitContext \/ Listen
  BY <1>2 DEF Malloc, InitContext, Listen, Fault
<1>3. CASE TestStop
  BY <1>3 DEF TestStop
<1>4. CASE NothingYet
  BY <1>0, <1>4 DEF NothingYet, Fault
<1>5. ASSUME NEW e \in Event, GetEvent(e) PROVE Left' < Left
  <2>1. sip = "wait" /\ sip' = "look" /\ (it' = End \/ it' = 1)
    BY <1>5 DEF GetEvent
  <2>2. Left = 2 * Platforms + 3 /\ Left' = 2 * (End - it') + 2
    BY <2>1 DEF End
  <2> QED
    BY <1>0, <2>1, <2>2
<1>6. CASE Look
  <2>1. sip = "look" /\ it <= Platforms
    BY <1>6 DEF Look
  <2>2. \/ UNCHANGED <<sip, it>>
        \/ it' = it + 1 /\ sip' = sip
        \/ it' = it /\ sip' = "assign"
    BY <1>6 DEF Look, Fault
  <2> QED
    BY <1>0, <2>1, <2>2 DEF End
<1>7. CASE Assigned
  <2>1. sip = "assign" /\ (UNCHANGED <<sip, it>> \/ (it' = it + 1 /\ sip' = "look"))
    BY <1>7 DEF Assigned, Fault
  <2> QED
    BY <1>0, <2>1 DEF End
<1>8. CASE Answer
  <2>1. sip = "look" /\ sip' = "test" /\ it' = it
    BY <1>8 DEF Answer
  <2> QED
    BY <1>0, <2>1
<1> QED
  BY <1>2, <1>3, <1>4, <1>5, <1>6, <1>7, <1>8 DEF SipStep

LEMMA StopFrame ==
  ASSUME TypeOK, ContextPlan, [Next]_vars, owner = "waiting"
  PROVE  /\ owner' = "waiting" /\ m_bIsStop /\ m_bIsStop'
         /\ SipStep \/ UNCHANGED <<sip, it>>
<1>1. m_bIsStop /\ main # "boot"
  BY DEF ContextPlan
<1>2. CASE MainStep
  BY <1>1, <1>2 DEF MainStep, Start, Bind, Copied, SendPtz, Erase, Exit, FindPlatform, Fault, sipVars, stopVars
<1>3. CASE SipStep
  BY <1>1, <1>3 DEF SipStep, Malloc, InitContext, Listen, TestStop, NothingYet, GetEvent, Look, Assigned,
     Answer, Fault, stopVars
<1>4. CASE Stop \/ AwaitStop
  BY <1>1, <1>4 DEF Stop, AwaitStop, sipVars
<1>5. CASE UNCHANGED vars
  BY <1>1, <1>5 DEF vars, sipVars, stopVars
<1> QED
  BY <1>2, <1>3, <1>4, <1>5 DEF Next, Ended

\* What StopEndsOnlySipThread adds to it is that the SIP thread takes those steps.
THEOREM StopIsFinalCorrect == Spec => StopIsFinal
<1>1. CInv /\ [Next]_vars =>
        [owner = "waiting" =>
           owner' = "waiting" /\ m_bIsStop' /\ (UNCHANGED <<sip, it>> \/ Left' < Left)]_vars
  BY StopFrame, LeftFalls DEF CInv
<1> QED
  BY <1>1, CInvInit, CInvStep, PTL DEF Spec, StopIsFinal

-----------------------------------------------------------------------------
\* The code of each command is well formed and moves the camera as it was told
\* and in no other way.
THEOREM CodesAreUnderstoodCorrect == CodesAreUnderstood
<1> USE DEF SUB_UP, SUB_DOWN, SUB_LEFT, SUB_RIGHT, SUB_ZOOMIN, SUB_ZOOMOUT, SUB_STOP
<1>1. getPTZCode(SUB_UP) = <<165, 15, 0, 8, 0, 200, 0, 132>>
  BY DEF getPTZCode, Check, Motion, Pan, Tilt, Zoom, Sum7, m_iSpeed
<1>2. getPTZCode(SUB_DOWN) = <<165, 15, 0, 4, 0, 200, 0, 128>>
  BY DEF getPTZCode, Check, Motion, Pan, Tilt, Zoom, Sum7, m_iSpeed
<1>3. getPTZCode(SUB_LEFT) = <<165, 15, 0, 2, 200, 0, 0, 126>>
  BY DEF getPTZCode, Check, Motion, Pan, Tilt, Zoom, Sum7, m_iSpeed
<1>4. getPTZCode(SUB_RIGHT) = <<165, 15, 0, 1, 200, 0, 0, 125>>
  BY DEF getPTZCode, Check, Motion, Pan, Tilt, Zoom, Sum7, m_iSpeed
<1>5. getPTZCode(SUB_ZOOMIN) = <<165, 15, 0, 16, 0, 0, 128, 68>>
  BY DEF getPTZCode, Check, Motion, Pan, Tilt, Zoom, Sum7, m_iSpeed
<1>6. getPTZCode(SUB_ZOOMOUT) = <<165, 15, 0, 32, 0, 0, 128, 84>>
  BY DEF getPTZCode, Check, Motion, Pan, Tilt, Zoom, Sum7, m_iSpeed
<1>7. getPTZCode(SUB_STOP) = <<165, 15, 0, 0, 0, 0, 0, 180>>
  BY DEF getPTZCode, Check, Motion, Pan, Tilt, Zoom, Sum7, m_iSpeed
<1>8. \A m \in SUB_UP .. SUB_STOP : WellFormed(getPTZCode(m))
  <2>1. WellFormed(getPTZCode(SUB_UP))
    BY <1>1 DEF WellFormed, Sum7, Byte
  <2>2. WellFormed(getPTZCode(SUB_DOWN))
    BY <1>2 DEF WellFormed, Sum7, Byte
  <2>3. WellFormed(getPTZCode(SUB_LEFT))
    BY <1>3 DEF WellFormed, Sum7, Byte
  <2>4. WellFormed(getPTZCode(SUB_RIGHT))
    BY <1>4 DEF WellFormed, Sum7, Byte
  <2>5. WellFormed(getPTZCode(SUB_ZOOMIN))
    BY <1>5 DEF WellFormed, Sum7, Byte
  <2>6. WellFormed(getPTZCode(SUB_ZOOMOUT))
    BY <1>6 DEF WellFormed, Sum7, Byte
  <2>7. WellFormed(getPTZCode(SUB_STOP))
    BY <1>7 DEF WellFormed, Sum7, Byte
  <2> QED
    BY <2>1, <2>2, <2>3, <2>4, <2>5, <2>6, <2>7
<1>9. \A m \in SUB_UP .. SUB_STOP : Moves(getPTZCode(m)) = {m} \ {SUB_STOP}
  BY <1>1, <1>2, <1>3, <1>4, <1>5, <1>6, <1>7 DEF Moves, Bit
<1> QED
  BY <1>8, <1>9 DEF CodesAreUnderstood
=============================================================================
