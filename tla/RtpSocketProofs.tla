--------------------------- MODULE RtpSocketProofs ---------------------------
(* Theorems about RtpSocket, for every number of objects and of sockets and *)
(* for every number of tries.                                               *)
EXTENDS RtpSocket, TLAPS

\* Where run has not opened a socket yet, and where it has not set its field.
Unopened(r) ==
  {"idle", "reset", "U"} \union (IF r = "U" THEN {} ELSE {"R"}) \union (IF r = "C" THEN {"C"} ELSE {})
Unset(r) ==
  {"idle", "reset", "U", "R", "C", "setU"} \union (IF r = "U" THEN {} ELSE {"setR"})
    \union (IF r = "C" THEN {"setC"} ELSE {})

\* stop is past the closing of r.
Past(o, r) ==
  stop[o] \in IF r = "C" THEN {"R", "U", "done"} ELSE IF r = "R" THEN {"U", "done"} ELSE {"done"}

Open(o, r) == \E h \in Handles : table[h] = <<o, r>>

\* A socket that is open is the one that run has in its variable ...
Owned ==
  \A o \in Objects, r \in Roles :
    /\ \A h \in Handles : table[h] = <<o, r>> => local[o][r] = h
    /\ run[o] \in Unopened(r) => local[o][r] = Closed
    /\ run[o] \notin Unopened(r) /\ o \notin broke /\ r # "U" => local[o][r] \in Handles

\* ... and that its field holds once it is set.
Fields ==
  \A o \in Objects, r \in Roles :
    field[o][r] = IF run[o] \in Unset(r) \/ o \in broke THEN Closed ELSE local[o][r]

\* A run that gave up leaves no socket but the first, and no threads.
GaveUp ==
  \A o \in Objects :
    /\ o \in broke => run[o] = "done" /\ ~ Open(o, "R") /\ ~ Open(o, "C")
    /\ \A t \in Threads : pc[o][t] # "none" => run[o] = "done" /\ o \notin broke

\* stop closes what it finds set.
Closes ==
  \A o \in Objects, r \in Roles :
    Past(o, r) /\ o \notin early =>
      /\ run[o] \notin Unset(r)
      /\ Open(o, r) => r = "U" /\ o \in broke

LeakInv == Owned /\ Fields /\ GaveUp /\ Closes

\* A thread waits only at a socket that is open; one whose sockets stop missed
\* gets no further than its first test.
Waits ==
  \A o \in Objects, t \in Threads :
    /\ pc[o][t] = "waiting" => table[Source(o, t)] # Closed
    /\ o \in early => stop[o] # "idle" /\ (m_bExitThread[o] => pc[o][t] \in {"none", "test", "ended"})

\* A thread that has read a stray datagram does not call recvfrom again.
Strays ==
  \A o \in Objects, t \in Threads :
    strayReads[o][t] > 0 =>
      strayReads[o][t] = 1 /\ m_bExitThread[o] /\ pc[o][t] \in {"test", "try", "ended"}

\* The RTCP thread calls recvfrom only if it has a try left.
Tries == \A o \in Objects : pc[o]["rtcp"] \in {"call", "waiting"} => i[o] < Retries

IInv == TypeOK /\ Tries /\ LeakInv /\ Waits /\ Strays

-----------------------------------------------------------------------------
(* Type correctness.                                                       *)

LEMMA FailTypes ==
  ASSUME TypeOK, NEW ps,
         \A o \in Objects : <<o, "rtcp">> \in ps => i[o] < Retries,
         Fail(ps)
  PROVE  /\ pc' \in [Objects -> [Threads -> {"none", "test", "try", "call", "waiting", "ended"}]]
         /\ len' \in [Objects -> {"error", "read"}] /\ i' \in [Objects -> 0 .. Retries]
BY RtpSocketAssumption DEF TypeOK, Fail, Threads

\* Only a thread that waits is woken, and it has a try left.
LEMMA ReleaseTypes ==
  ASSUME TypeOK, Tries, NEW hs, Release(hs)
  PROVE  /\ table' \in [Handles -> {Closed} \union (Objects \X Roles)]
         /\ pc' \in [Objects -> [Threads -> {"none", "test", "try", "call", "waiting", "ended"}]]
         /\ len' \in [Objects -> {"error", "read"}] /\ i' \in [Objects -> 0 .. Retries]
<1>1. \A o \in Objects : <<o, "rtcp">> \in Waiting(hs) => i[o] < Retries
  BY DEF Waiting, Tries
<1>2. table' \in [Handles -> {Closed} \union (Objects \X Roles)]
  BY DEF Release, TypeOK
<1> QED
  BY <1>1, <1>2, FailTypes DEF Release

LEMMA GoesType ==
  ASSUME TypeOK, NEW o \in Objects, NEW t \in Threads,
         NEW next \in {"none", "test", "try", "call", "waiting", "ended"}, Goes(o, t, next)
  PROVE  pc' \in [Objects -> [Threads -> {"none", "test", "try", "call", "waiting", "ended"}]]
BY DEF TypeOK, Goes

LEMMA GoesAt ==
  ASSUME TypeOK, NEW o \in Objects, NEW t \in Threads, NEW next, Goes(o, t, next),
         NEW q \in Objects, NEW u \in Threads
  PROVE  pc'[q][u] = IF q = o /\ u = t THEN next ELSE pc[q][u]
BY DEF TypeOK, Goes

LEMMA CountTypes ==
  ASSUME TypeOK, NEW o \in Objects,
         i' = i \/ i' = [i EXCEPT ![o] = 0] \/ (i[o] < Retries /\ i' = [i EXCEPT ![o] = i[o] + 1])
  PROVE  i' \in [Objects -> 0 .. Retries]
<1>1. i \in [Objects -> 0 .. Retries] /\ 0 \in 0 .. Retries
  BY RtpSocketAssumption DEF TypeOK
<1>2. i[o] < Retries => i[o] + 1 \in 0 .. Retries
  BY <1>1, RtpSocketAssumption
<1> QED
  BY <1>1, <1>2

LEMMA TypeInit == Init => TypeOK
BY RtpSocketAssumption DEF Init, TypeOK, Roles, Threads

LEMMA TypeStep == ASSUME TypeOK, Tries, NEW o \in Objects, Step(o) PROVE TypeOK'
<1> USE DEF runVars, stopVars, infoVars, threadVars
<1>1. ASSUME NewCallInfo(o) \/ ResetExit(o) PROVE TypeOK'
  BY <1>1 DEF TypeOK, NewCallInfo, ResetExit
<1>2. ASSUME NEW r \in Roles, Opens(o, r)
      PROVE  /\ table' \in [Handles -> {Closed} \union (Objects \X Roles)]
             /\ local' \in [Objects -> [Roles -> Handles \union {Closed}]]
  BY <1>2 DEF TypeOK, Opens
<1>3. CASE OpenU(o)
  BY <1>2, <1>3 DEF TypeOK, OpenU, Roles
<1>4. CASE OpenR(o)
  <2>1. CASE Opens(o, "R") /\ run' = [run EXCEPT ![o] = "C"] /\ UNCHANGED broke
    BY <1>2, <1>4, <2>1 DEF TypeOK, OpenR, Roles
  <2>2. CASE /\ run' = [run EXCEPT ![o] = "done"] /\ broke' = broke \union {o}
             /\ UNCHANGED <<table, local>>
    BY <1>4, <2>2 DEF TypeOK, OpenR
  <2> QED
    BY <1>4, <2>1, <2>2 DEF OpenR
<1>5. CASE OpenC(o)
  <2>1. CASE Opens(o, "C") /\ run' = [run EXCEPT ![o] = "setU"] /\ UNCHANGED <<broke, threadVars>>
    BY <1>2, <1>5, <2>1 DEF TypeOK, OpenC, Roles
  <2>2. CASE /\ run' = [run EXCEPT ![o] = "done"] /\ broke' = broke \union {o}
             /\ Release({local[o]["R"]}) /\ UNCHANGED local
    BY <1>5, <2>2, ReleaseTypes DEF TypeOK, OpenC
  <2> QED
    BY <1>5, <2>1, <2>2 DEF OpenC
<1>6. ASSUME NEW r \in Roles, NEW here, NEW next \in {"setR", "setC", "start"},
             SetField(o, r, here, next)
      PROVE  TypeOK'
  BY <1>6 DEF TypeOK, SetField
<1>7. CASE StartThreads(o)
  BY <1>7 DEF TypeOK, StartThreads, Threads
<1>8. CASE Raise(o)
  BY <1>8 DEF TypeOK, Raise
<1>9. ASSUME NEW r \in Roles, NEW next \in {"R", "U", "done"}, CloseField(o, r, next) PROVE TypeOK'
  BY <1>9, ReleaseTypes DEF TypeOK, CloseField
<1>10. ASSUME NEW t \in Threads, Test(o, t) PROVE TypeOK'
  <2>1. pc' \in [Objects -> [Threads -> {"none", "test", "try", "call", "waiting", "ended"}]]
    BY <1>10, GoesType DEF Test
  <2>2. len' \in [Objects -> {"error", "read"}]
    BY <1>10 DEF TypeOK, Test
  <2> QED
    BY <1>10, <2>1, <2>2 DEF TypeOK, Test
<1>11. CASE Try(o)
  <2>1. pc' \in [Objects -> [Threads -> {"none", "test", "try", "call", "waiting", "ended"}]]
    BY <1>11, GoesType DEF Try, Threads
  <2>2. i' = i \/ i' = [i EXCEPT ![o] = 0]
    BY <1>11 DEF Try
  <2>3. i' \in [Objects -> 0 .. Retries]
    BY <2>2, CountTypes
  <2> QED
    BY <1>11, <2>1, <2>3 DEF TypeOK, Try
<1>12. ASSUME NEW t \in Threads, Call(o, t) PROVE TypeOK'
  <2>1. CASE table[Source(o, t)] = Closed
    <3>1. \A q \in Objects : <<q, "rtcp">> \in {<<o, t>>} => i[q] < Retries
      BY <1>12 DEF Call, Tries
    <3> QED
      BY <1>12, <2>1, <3>1, FailTypes DEF Call, TypeOK
  <2>2. CASE table[Source(o, t)] # Closed
    BY <1>12, <2>2, GoesType DEF TypeOK, Call
  <2> QED
    BY <2>1, <2>2
<1>13. ASSUME NEW t \in Threads, Receive(o, t) PROVE TypeOK'
  <2>1. i[o] < Retries \/ t # "rtcp"
    BY <1>13 DEF Receive, Tries
  <2>2. strayReads' \in [Objects -> [Threads -> 0 .. 2]]
    BY <1>13 DEF TypeOK, Receive
  <2>3. pc' \in [Objects -> [Threads -> {"none", "test", "try", "call", "waiting", "ended"}]]
    BY <1>13, GoesType DEF Receive
  <2>4. len' \in [Objects -> {"error", "read"}]
    BY <1>13 DEF TypeOK, Receive
  <2>5. i' = i \/ i' = [i EXCEPT ![o] = 0] \/ (t = "rtcp" /\ i' = [i EXCEPT ![o] = i[o] + 1])
    BY <1>13 DEF Receive
  <2>6. i' \in [Objects -> 0 .. Retries]
    BY <2>1, <2>5, CountTypes
  <2> QED
    BY <1>13, <2>2, <2>3, <2>4, <2>6 DEF TypeOK, Receive
<1>14. ASSUME NEW t \in Threads, Error(o, t) PROVE TypeOK'
  <2>1. \A q \in Objects : <<q, "rtcp">> \in {<<o, t>>} => i[q] < Retries
    BY <1>14 DEF Error, Tries
  <2> QED
    BY <1>14, <2>1, FailTypes DEF Error, TypeOK
<1>15. CASE RunStep(o)
  BY <1>1, <1>3, <1>4, <1>5, <1>6, <1>7, <1>15 DEF RunStep, Roles
<1>16. CASE CloseStep(o)
  BY <1>9, <1>16 DEF CloseStep, Roles
<1> QED
  BY <1>8, <1>10, <1>11, <1>12, <1>13, <1>14, <1>15, <1>16 DEF Step, ThreadStep

-----------------------------------------------------------------------------
(* The frames: what the threads' steps leave alone, and what a step of one  *)
(* object does to the threads.                                              *)

Thread(o) == \E t \in Threads : ThreadStep(o, t) \/ Receive(o, t) \/ Error(o, t)

LEMMA ThreadFrame ==
  ASSUME NEW o \in Objects, Thread(o)
  PROVE  UNCHANGED <<table, run, local, broke, stop, early, m_bExitThread, field>>
BY DEF Thread, ThreadStep, Test, Try, Call, Receive, Error, runVars, stopVars, infoVars

\* A try is counted before the next call.
LEMMA TriesStep == ASSUME TypeOK, Tries, NEW o \in Objects, Step(o) PROVE Tries'
<1> USE DEF threadVars
<1> SUFFICES ASSUME NEW q \in Objects, pc'[q]["rtcp"] \in {"call", "waiting"} PROVE i'[q] < Retries
  BY DEF Tries
<1>1. "rtcp" \in Threads /\ (pc[q]["rtcp"] \in {"call", "waiting"} => i[q] < Retries)
  BY DEF Tries, Threads
<1>2. ASSUME NEW ps, Fail(ps) PROVE i'[q] < Retries
  BY <1>1, <1>2 DEF Fail
<1>3. ASSUME UNCHANGED threadVars PROVE i'[q] < Retries
  BY <1>1, <1>3
<1>4. CASE RunStep(o)
  <2>1. CASE StartThreads(o)
    BY <1>1, <2>1 DEF StartThreads, TypeOK
  <2>2. CASE OpenC(o)
    BY <1>2, <1>3, <2>2 DEF OpenC, Release
  <2> QED
    BY <1>3, <1>4, <2>1, <2>2 DEF RunStep, NewCallInfo, ResetExit, OpenU, OpenR, SetField
<1>5. CASE Raise(o)
  BY <1>3, <1>5 DEF Raise
<1>6. CASE CloseStep(o)
  BY <1>2, <1>6 DEF CloseStep, CloseField, Release
<1>7. ASSUME NEW t \in Threads, Test(o, t) PROVE i'[q] < Retries
  BY <1>1, <1>7, GoesAt DEF Test
<1>8. CASE Try(o)
  <2>1. CASE i[o] < Retries /\ Goes(o, "rtcp", "call") /\ UNCHANGED i
    BY <1>1, <2>1, GoesAt
  <2>2. CASE /\ Goes(o, "rtcp", "ended") \/ Goes(o, "rtcp", "test")
             /\ i' = [i EXCEPT ![o] = 0]
    <3>1. q # o
      BY <1>1, <2>2, GoesAt
    <3> QED
      BY <1>1, <2>2, <3>1, GoesAt DEF TypeOK
  <2> QED
    BY <1>8, <2>1, <2>2 DEF Try
<1>9. ASSUME NEW t \in Threads, Call(o, t) PROVE i'[q] < Retries
  <2>1. CASE Goes(o, t, "waiting") /\ UNCHANGED i
    <3>1. pc[o][t] = "call"
      BY <1>9 DEF Call
    <3> QED
      BY <1>1, <2>1, <3>1, GoesAt
  <2> QED
    BY <1>2, <1>9, <2>1 DEF Call
<1>10. ASSUME NEW t \in Threads, Receive(o, t) PROVE i'[q] < Retries
  <2>1. Goes(o, t, "test") \/ Goes(o, t, "try")
    BY <1>10 DEF Receive
  <2>2. q # o \/ t # "rtcp"
    BY <1>1, <2>1, GoesAt
  <2>3. pc[q]["rtcp"] \in {"call", "waiting"}
    BY <1>1, <2>1, <2>2, GoesAt
  <2> QED
    BY <1>1, <1>10, <2>2, <2>3 DEF Receive, TypeOK
<1>11. ASSUME NEW t \in Threads, Error(o, t) PROVE i'[q] < Retries
  BY <1>2, <1>11 DEF Error
<1> QED
  BY <1>4, <1>5, <1>6, <1>7, <1>8, <1>9, <1>10, <1>11 DEF Step, ThreadStep

-----------------------------------------------------------------------------
(* The sockets.                                                            *)

LEMMA Closing ==
  ASSUME NEW g, table' = [h \in Handles |-> IF h = g THEN Closed ELSE table[h]],
         NEW q \in Objects, NEW r \in Roles, NEW h \in Handles, table'[h] = <<q, r>>
  PROVE  table[h] = <<q, r>> /\ h # g
<1>1. Closed # <<q, r>>
  BY RtpSocketAssumption
<1> QED
  BY <1>1

\* The steps of run that open nothing.
Ahead(x) ==
  IF x = "idle" THEN "reset" ELSE IF x = "reset" THEN "U" ELSE IF x = "setU" THEN "setR"
  ELSE IF x = "setR" THEN "setC" ELSE IF x = "setC" THEN "start" ELSE "done"

\* What a step does to the sockets of the system and to the variables of run.
LEMMA SocketFrame ==
  ASSUME TypeOK, NEW o \in Objects, Step(o)
  PROVE  \/ UNCHANGED <<run, broke, table, local>>
         \/ /\ run[o] \notin {"U", "R", "C", "done"} /\ UNCHANGED <<broke, table, local>>
            /\ run' = [run EXCEPT ![o] = Ahead(run[o])]
         \/ \E r \in Roles : run[o] = r /\ Opens(o, r) /\ UNCHANGED broke
              /\ run' = [run EXCEPT ![o] = IF r = "U" THEN "R" ELSE IF r = "R" THEN "C" ELSE "setU"]
         \/ run[o] = "U" /\ run' = [run EXCEPT ![o] = "R"] /\ UNCHANGED <<broke, table, local>>
         \/ /\ run[o] \in {"R", "C"} /\ run' = [run EXCEPT ![o] = "done"]
            /\ broke' = broke \union {o} /\ UNCHANGED local
            /\ IF run[o] = "R" THEN UNCHANGED table
               ELSE table' = [h \in Handles |-> IF h = local[o]["R"] THEN Closed ELSE table[h]]
         \/ /\ UNCHANGED <<run, broke, local>>
            /\ \E r \in Roles : stop[o] = r
                 /\ table' = [h \in Handles |-> IF h = field[o][r] THEN Closed ELSE table[h]]
<1> USE DEF runVars, Roles
<1>1. CASE NewCallInfo(o) \/ ResetExit(o)
  BY <1>1 DEF NewCallInfo, ResetExit, Ahead
<1>2. CASE OpenU(o) \/ OpenR(o)
  BY <1>2 DEF OpenU, OpenR
<1>3. CASE OpenC(o)
  BY <1>3 DEF OpenC, Release
<1>4. CASE StartThreads(o)
  BY <1>4 DEF StartThreads, Ahead
<1>5. ASSUME NEW r, NEW here \in {"setU", "setR", "setC"}, SetField(o, r, here, Ahead(here))
      PROVE  /\ run[o] \notin {"U", "R", "C", "done"} /\ UNCHANGED <<broke, table, local>>
             /\ run' = [run EXCEPT ![o] = Ahead(run[o])]
  BY <1>5 DEF SetField
<1>6. CASE Raise(o)
  BY <1>6 DEF Raise
<1>7. CASE CloseStep(o)
  BY <1>7 DEF CloseStep, CloseField, Release
<1>8. CASE Thread(o)
  BY <1>8, ThreadFrame
<1>9. Ahead("setU") = "setR" /\ Ahead("setR") = "setC" /\ Ahead("setC") = "start"
  BY DEF Ahead
<1> QED
  BY <1>1, <1>2, <1>3, <1>4, <1>5, <1>6, <1>7, <1>8, <1>9 DEF Step, RunStep, Thread

\* What is open was open before, unless run opens it.
LEMMA OpenFrame ==
  ASSUME TypeOK, NEW o \in Objects, Step(o), NEW q \in Objects, NEW r \in Roles, NEW h \in Handles,
         table'[h] = <<q, r>>
  PROVE  table[h] = <<q, r>> \/ (q = o /\ run[o] = r)
<1>1. CASE UNCHANGED table
  BY <1>1
<1>2. ASSUME NEW x \in Roles, run[o] = x, Opens(o, x) PROVE table[h] = <<q, r>> \/ (q = o /\ run[o] = r)
  <2>1. PICK g \in Handles : table' = [table EXCEPT ![g] = <<o, x>>]
    BY <1>2 DEF Opens
  <2>2. table \in [Handles -> {Closed} \union (Objects \X Roles)]
    BY DEF TypeOK
  <2> QED
    BY <1>2, <2>1, <2>2
<1>3. ASSUME NEW g, table' = [x \in Handles |-> IF x = g THEN Closed ELSE table[x]]
      PROVE  table[h] = <<q, r>>
  BY <1>3, Closing
<1> QED
  BY <1>1, <1>2, <1>3, SocketFrame

\* Nothing more happens to an object whose run is done.
LEMMA DoneFrame ==
  ASSUME TypeOK, NEW o \in Objects, Step(o), NEW q \in Objects, run[q] = "done"
  PROVE  run'[q] = "done" /\ (q \in broke' <=> q \in broke)
<1>1. run \in [Objects -> {"idle", "reset", "U", "R", "C", "setU", "setR", "setC", "start", "done"}]
  BY DEF TypeOK
<1> QED
  BY <1>1, SocketFrame DEF Roles

LEMMA OwnedStep == ASSUME TypeOK, Owned, NEW o \in Objects, Step(o) PROVE Owned'
<1> DEFINE Holds(q, r) ==
      /\ \A h \in Handles : table[h] = <<q, r>> => local[q][r] = h
      /\ run[q] \in Unopened(r) => local[q][r] = Closed
      /\ run[q] \notin Unopened(r) /\ q \notin broke /\ r # "U" => local[q][r] \in Handles
<1> SUFFICES ASSUME NEW q \in Objects, NEW r \in Roles PROVE Holds(q, r)'
  BY DEF Owned
<1>0. Holds(q, r)
  BY DEF Owned
<1> USE RtpSocketAssumption DEF Roles, Unopened, TypeOK, Ahead
<1>1. CASE UNCHANGED <<run, broke, table, local>>
  BY <1>0, <1>1
<1>2. CASE /\ run[o] \notin {"U", "R", "C", "done"} /\ UNCHANGED <<broke, table, local>>
           /\ run' = [run EXCEPT ![o] = Ahead(run[o])]
  BY <1>0, <1>2
<1>3. ASSUME NEW x \in Roles, run[o] = x, Opens(o, x), UNCHANGED broke,
             run' = [run EXCEPT ![o] = IF x = "U" THEN "R" ELSE IF x = "R" THEN "C" ELSE "setU"]
      PROVE  Holds(q, r)'
  <2>1. PICK h \in Handles : /\ table[h] = Closed /\ table' = [table EXCEPT ![h] = <<o, x>>]
                             /\ local' = [local EXCEPT ![o][x] = h]
    BY <1>3 DEF Opens
  <2>2. local[o][x] = Closed /\ \A g \in Handles : table[g] # <<o, x>>
    <3>1. run[o] \in Unopened(x)
      BY <1>3
    <3>2. local[o][x] = Closed /\ \A g \in Handles : table[g] = <<o, x>> => local[o][x] = g
      BY <3>1 DEF Owned
    <3> QED
      BY <3>2
  <2>3. CASE q = o /\ r = x
    BY <1>0, <1>3, <2>1, <2>2, <2>3
  <2>4. CASE ~ (q = o /\ r = x)
    <3>1. local'[q][r] = local[q][r] /\ \A g \in Handles : table'[g] = <<q, r>> => table[g] = <<q, r>>
      BY <2>1, <2>4
    <3>2. run'[q] \in Unopened(r) <=> run[q] \in Unopened(r)
      BY <1>3, <2>4
    <3> QED
      BY <1>0, <1>3, <3>1, <3>2
  <2> QED
    BY <2>3, <2>4
<1>4. CASE run[o] = "U" /\ run' = [run EXCEPT ![o] = "R"] /\ UNCHANGED <<broke, table, local>>
  BY <1>0, <1>4
<1>5. CASE /\ run[o] \in {"R", "C"} /\ run' = [run EXCEPT ![o] = "done"]
           /\ broke' = broke \union {o} /\ UNCHANGED local
           /\ IF run[o] = "R" THEN UNCHANGED table
              ELSE table' = [h \in Handles |-> IF h = local[o]["R"] THEN Closed ELSE table[h]]
  <2>1. \A h \in Handles : table'[h] = <<q, r>> => table[h] = <<q, r>>
    <3>1. CASE UNCHANGED table
      BY <3>1
    <3>2. CASE table' = [h \in Handles |-> IF h = local[o]["R"] THEN Closed ELSE table[h]]
      BY ONLY <3>2, Closing
    <3> QED
      BY <1>5, <3>1, <3>2
  <2> QED
    BY <1>0, <1>5, <2>1
<1>6. CASE /\ UNCHANGED <<run, broke, local>>
           /\ \E x \in Roles : stop[o] = x
                /\ table' = [h \in Handles |-> IF h = field[o][x] THEN Closed ELSE table[h]]
  <2>1. \A h \in Handles : table'[h] = <<q, r>> => table[h] = <<q, r>>
    <3>1. PICK x \in Roles :
            table' = [h \in Handles |-> IF h = field[o][x] THEN Closed ELSE table[h]]
      BY <1>6
    <3> QED
      BY ONLY <3>1, Closing
  <2> QED
    BY <1>0, <1>6, <2>1
<1> QED
  BY <1>1, <1>2, <1>3, <1>4, <1>5, <1>6, SocketFrame

\* What a step does to the fields.
SetAt(r) == IF r = "U" THEN "setU" ELSE IF r = "R" THEN "setR" ELSE "setC"

Sets(o, r) ==
  /\ UNCHANGED <<broke, local>> /\ field' = [field EXCEPT ![o][r] = local[o][r]]
  /\ run[o] = SetAt(r) /\ run' = [run EXCEPT ![o] = Ahead(run[o])]

LEMMA FieldFrame ==
  ASSUME NEW o \in Objects, Step(o)
  PROVE  \/ UNCHANGED field /\ (UNCHANGED run \/ run[o] \notin {"setU", "setR", "setC"})
         \/ \E r \in Roles : Sets(o, r)
<1> USE DEF infoVars, runVars
<1>1. CASE NewCallInfo(o) \/ ResetExit(o) \/ OpenU(o) \/ OpenR(o) \/ OpenC(o) \/ StartThreads(o)
  BY <1>1 DEF NewCallInfo, ResetExit, OpenU, OpenR, OpenC, StartThreads
<1>2. ASSUME NEW r \in Roles, SetField(o, r, SetAt(r), Ahead(SetAt(r))) PROVE Sets(o, r)
  BY <1>2 DEF SetField, Sets
<1>3. /\ SetAt("U") = "setU" /\ SetAt("R") = "setR" /\ SetAt("C") = "setC"
      /\ Ahead("setU") = "setR" /\ Ahead("setR") = "setC" /\ Ahead("setC") = "start"
      /\ Roles = {"U", "R", "C"}
  BY DEF SetAt, Ahead, Roles
<1>4. ASSUME \/ SetField(o, "U", "setU", "setR") \/ SetField(o, "R", "setR", "setC")
             \/ SetField(o, "C", "setC", "start")
      PROVE  \E r \in Roles : Sets(o, r)
  BY <1>2, <1>3, <1>4
<1>5. CASE Raise(o) \/ CloseStep(o)
  BY <1>5 DEF Raise, CloseStep, CloseField
<1>6. CASE Thread(o)
  BY <1>6, ThreadFrame
<1> QED
  BY <1>1, <1>2, <1>3, <1>4, <1>5, <1>6 DEF Step, RunStep, Thread

LEMMA FieldsStep == ASSUME TypeOK, Owned, Fields, GaveUp, NEW o \in Objects, Step(o) PROVE Fields'
<1> DEFINE Holds(q, r) ==
      field[q][r] = IF run[q] \in Unset(r) \/ q \in broke THEN Closed ELSE local[q][r]
<1> SUFFICES ASSUME NEW q \in Objects, NEW r \in Roles PROVE Holds(q, r)'
  BY DEF Fields
<1>0. Holds(q, r) /\ (q \in broke => run[q] = "done")
  BY DEF Fields, GaveUp
<1> USE DEF Roles, Unset, TypeOK, Ahead
<1>1. CASE UNCHANGED field /\ (UNCHANGED run \/ run[o] \notin {"setU", "setR", "setC"})
  <2>1. CASE UNCHANGED <<run, broke, local>>
    BY <1>0, <1>1, <2>1
  <2>2. CASE /\ run[o] \notin {"U", "R", "C", "done"} /\ UNCHANGED <<broke, local>>
             /\ run' = [run EXCEPT ![o] = Ahead(run[o])]
    BY <1>0, <1>1, <2>2
  <2>3. ASSUME NEW x \in Roles, run[o] = x, Opens(o, x),
               UNCHANGED broke,
               run' = [run EXCEPT ![o] = IF x = "U" THEN "R" ELSE IF x = "R" THEN "C" ELSE "setU"]
        PROVE  Holds(q, r)'
    BY <1>0, <1>1, <2>3 DEF Opens
  <2>4. CASE run[o] = "U" /\ run' = [run EXCEPT ![o] = "R"] /\ UNCHANGED <<broke, local>>
    BY <1>0, <1>1, <2>4
  <2>5. CASE /\ run[o] \in {"R", "C"} /\ run' = [run EXCEPT ![o] = "done"]
             /\ broke' = broke \union {o} /\ UNCHANGED local
    BY <1>0, <1>1, <2>5
  <2> QED
    BY <2>1, <2>2, <2>3, <2>4, <2>5, SocketFrame
<1>2. ASSUME NEW x \in Roles, Sets(o, x) PROVE Holds(q, r)'
  <2>1. o \notin broke
    BY <1>2 DEF GaveUp, Sets, SetAt
  <2>2. CASE q = o /\ r = x
    BY <1>0, <1>2, <2>1, <2>2 DEF Sets, SetAt
  <2>3. CASE q = o /\ r # x
    BY <1>0, <1>2, <2>1, <2>3 DEF Sets, SetAt
  <2>4. CASE q # o
    BY <1>0, <1>2, <2>4 DEF Sets, SetAt
  <2> QED
    BY <2>2, <2>3, <2>4
<1> QED
  BY <1>1, <1>2, FieldFrame

-----------------------------------------------------------------------------
(* The threads.                                                            *)

\* What a step does to a thread.
LEMMA PcFrame ==
  ASSUME TypeOK, NEW o \in Objects, Step(o), NEW q \in Objects, NEW t \in Threads
  PROVE  \/ /\ pc'[q][t] = pc[q][t]
            /\ pc[q][t] = "waiting" /\ Source(q, t) \in Handles /\ table[Source(q, t)] # Closed
                 => table'[Source(q, t)] # Closed
         \/ /\ q = o /\ run[o] = "start" /\ run' = [run EXCEPT ![o] = "done"] /\ UNCHANGED broke
            /\ pc'[q][t] = "test"
         \/ pc[q][t] \in {"waiting", "call"} /\ pc'[q][t] \in {"ended", "try", "test"}
         \/ /\ pc[q][t] = "test" \/ pc[q][t] = "try"
            /\ \/ pc'[q][t] = "ended"
               \/ pc[q][t] = "try" /\ pc'[q][t] = "test"
               \/ ~ m_bExitThread[q] /\ pc'[q][t] \in {"call", "try"}
         \/ /\ pc[q][t] = "call" /\ pc'[q][t] = "waiting" /\ UNCHANGED table
            /\ table[Source(q, t)] # Closed
<1> DEFINE Stays == /\ pc'[q][t] = pc[q][t]
                    /\ pc[q][t] = "waiting" /\ Source(q, t) \in Handles /\ table[Source(q, t)] # Closed
                         => table'[Source(q, t)] # Closed
           Wakes == pc[q][t] \in {"waiting", "call"} /\ pc'[q][t] \in {"ended", "try", "test"}
<1>1. ASSUME NEW hs, Release(hs) PROVE Stays \/ Wakes
  <2>1. CASE pc[q][t] = "waiting" /\ Source(q, t) \in hs
    <3>1. <<q, t>> \in Waiting(hs)
      BY <2>1 DEF Waiting
    <3> QED
      BY <1>1, <2>1, <3>1 DEF Release, Fail
  <2>2. CASE ~ (pc[q][t] = "waiting" /\ Source(q, t) \in hs)
    <3>1. <<q, t>> \notin Waiting(hs)
      BY <2>2 DEF Waiting
    <3> QED
      BY <1>1, <2>2, <3>1 DEF Release, Fail
  <2> QED
    BY <2>1, <2>2
<1>2. ASSUME UNCHANGED pc, \/ UNCHANGED table
                           \/ \E r \in Roles : Opens(o, r)
      PROVE  Stays
  <2>1. ASSUME NEW r \in Roles, Opens(o, r) PROVE Stays
    <3>1. Closed # <<o, r>>
      BY RtpSocketAssumption
    <3>2. table \in [Handles -> {Closed} \union (Objects \X Roles)]
      BY DEF TypeOK
    <3> QED
      BY <1>2, <2>1, <3>1, <3>2 DEF Opens
  <2> QED
    BY <1>2, <2>1
<1>3. CASE NewCallInfo(o) \/ ResetExit(o) \/ OpenU(o) \/ OpenR(o)
  BY <1>2, <1>3 DEF NewCallInfo, ResetExit, OpenU, OpenR, Roles, threadVars
<1>4. CASE OpenC(o)
  BY <1>1, <1>2, <1>4 DEF OpenC, Roles, threadVars
<1>5. ASSUME NEW r, NEW here, NEW next, SetField(o, r, here, next) PROVE Stays
  BY <1>2, <1>5 DEF SetField, threadVars
<1>6. CASE StartThreads(o)
  BY <1>6 DEF StartThreads, TypeOK, runVars
<1>7. CASE Raise(o)
  BY <1>2, <1>7 DEF Raise, threadVars
<1>8. CASE CloseStep(o)
  BY <1>1, <1>8 DEF CloseStep, CloseField
<1>9. ASSUME NEW u \in Threads, NEW next, Goes(o, u, next), ~ (q = o /\ t = u), UNCHANGED table
      PROVE  Stays
  BY <1>9, GoesAt
<1>10. ASSUME NEW u \in Threads, Fail({<<o, u>>}), pc[o][u] \in {"waiting", "call"}, UNCHANGED table
       PROVE  Stays \/ Wakes
  BY <1>10 DEF Fail
<1>11. ASSUME NEW u \in Threads, Error(o, u) PROVE Stays \/ Wakes
  BY <1>10, <1>11 DEF Error
<1>12. ASSUME NEW u \in Threads, Receive(o, u) PROVE Stays \/ Wakes
  <2>1. (Goes(o, u, "test") \/ Goes(o, u, "try")) /\ UNCHANGED table /\ pc[o][u] = "waiting"
    BY <1>12 DEF Receive
  <2> QED
    BY <1>9, <2>1, GoesAt
<1>13. ASSUME NEW u \in Threads, Call(o, u), ~ (Stays \/ Wakes)
       PROVE  /\ pc[q][t] = "call" /\ pc'[q][t] = "waiting" /\ UNCHANGED table
              /\ table[Source(q, t)] # Closed
  <2>1. table[Source(o, u)] # Closed /\ Goes(o, u, "waiting") /\ UNCHANGED table /\ pc[o][u] = "call"
    BY <1>10, <1>13 DEF Call
  <2> QED
    BY <1>9, <1>13, <2>1, GoesAt
<1>14. ASSUME NEW u \in Threads, Test(o, u), ~ Stays
       PROVE  /\ pc[q][t] = "test"
              /\ \/ pc'[q][t] = "ended"
                 \/ ~ m_bExitThread[q] /\ pc'[q][t] \in {"call", "try"}
  <2>1. /\ UNCHANGED table /\ pc[o][u] = "test"
        /\ \/ Goes(o, u, "ended")
           \/ ~ m_bExitThread[o] /\ (Goes(o, u, "call") \/ Goes(o, u, "try"))
    BY <1>14 DEF Test
  <2> QED
    BY <1>9, <1>14, <2>1, GoesAt
<1>15. ASSUME Try(o), ~ Stays
       PROVE  /\ pc[q][t] = "try"
              /\ \/ pc'[q][t] = "ended"
                 \/ pc'[q][t] = "test"
                 \/ ~ m_bExitThread[q] /\ pc'[q][t] \in {"call", "try"}
  <2>1. /\ UNCHANGED table /\ pc[o]["rtcp"] = "try" /\ "rtcp" \in Threads
        /\ \/ Goes(o, "rtcp", "ended") \/ Goes(o, "rtcp", "test")
           \/ ~ m_bExitThread[o] /\ Goes(o, "rtcp", "call")
    BY <1>15 DEF Try, Threads
  <2> QED
    BY <1>9, <1>15, <2>1, GoesAt
<1> QED
  BY <1>3, <1>4, <1>5, <1>6, <1>7, <1>8, <1>11, <1>12, <1>13, <1>14, <1>15
  DEF Step, RunStep, ThreadStep

LEMMA GaveUpStep == ASSUME TypeOK, Owned, GaveUp, NEW o \in Objects, Step(o) PROVE GaveUp'
<1> SUFFICES ASSUME NEW q \in Objects
             PROVE  /\ q \in broke' => run'[q] = "done" /\ ~ Open(q, "R")' /\ ~ Open(q, "C")'
                    /\ \A t \in Threads : pc'[q][t] # "none" => run'[q] = "done" /\ q \notin broke'
  BY DEF GaveUp
<1>0. /\ q \in broke => run[q] = "done" /\ ~ Open(q, "R") /\ ~ Open(q, "C")
      /\ \A t \in Threads : pc[q][t] # "none" => run[q] = "done" /\ q \notin broke
      /\ "R" \in Roles /\ "C" \in Roles
  BY DEF GaveUp, Roles
<1>1. q \in broke' => run'[q] = "done" /\ ~ Open(q, "R")' /\ ~ Open(q, "C")'
  <2> SUFFICES ASSUME q \in broke' PROVE run'[q] = "done" /\ ~ Open(q, "R")' /\ ~ Open(q, "C")'
    OBVIOUS
  <2>1. CASE q \in broke
    <3>1. run'[q] = "done" /\ (o = q => run[o] = "done")
      BY <1>0, <2>1, SocketFrame DEF TypeOK, Roles
    <3>2. ASSUME NEW r \in Roles, NEW h \in Handles, table'[h] = <<q, r>> PROVE table[h] = <<q, r>>
      BY <1>0, <2>1, <3>1, <3>2, OpenFrame DEF Roles
    <3> QED
      BY <1>0, <2>1, <3>1, <3>2 DEF Open
  <2>2. CASE q \notin broke
    <3>1. /\ q = o /\ run[o] \in {"R", "C"} /\ run' = [run EXCEPT ![o] = "done"]
          /\ IF run[o] = "R" THEN UNCHANGED table
             ELSE table' = [h \in Handles |-> IF h = local[o]["R"] THEN Closed ELSE table[h]]
      BY <2>2, SocketFrame
    <3>2. \A r \in Roles : run[o] \in Unopened(r) => ~ Open(o, r)
      BY RtpSocketAssumption DEF Owned, Open
    <3>3. ~ Open(o, "C")
      BY <1>0, <3>1, <3>2 DEF Unopened
    <3>4. CASE run[o] = "R"
      BY <1>0, <3>1, <3>2, <3>3, <3>4 DEF Unopened, Open, TypeOK
    <3>5. CASE run[o] = "C"
      <4>1. table' = [h \in Handles |-> IF h = local[o]["R"] THEN Closed ELSE table[h]]
        BY <3>1, <3>5
      <4>2. \A h \in Handles : table[h] = <<o, "R">> => local[o]["R"] = h
        BY <1>0 DEF Owned
      <4>3. ASSUME NEW r \in {"R", "C"}, NEW h \in Handles, table'[h] = <<o, r>> PROVE FALSE
        <5>1. <<o, r>> # Closed
          BY <1>0, RtpSocketAssumption
        <5>2. table'[h] = IF h = local[o]["R"] THEN Closed ELSE table[h]
          BY ONLY <4>1, h \in Handles
        <5>3. h # local[o]["R"] /\ table[h] = <<o, r>>
          BY ONLY <4>3, <5>1, <5>2
        <5>4. CASE r = "R"
          BY ONLY <4>2, <5>3, <5>4, h \in Handles
        <5>5. CASE r = "C"
          BY ONLY <3>3, <5>3, <5>5, h \in Handles DEF Open
        <5> QED
          BY <5>4, <5>5
      <4>4. ~ Open(o, "R")' /\ ~ Open(o, "C")'
        BY <4>3 DEF Open
      <4> QED
        BY <3>1, <4>4 DEF TypeOK
    <3> QED
      BY <3>1, <3>4, <3>5
  <2> QED
    BY <2>1, <2>2
<1>2. ASSUME NEW t \in Threads, pc'[q][t] # "none" PROVE run'[q] = "done" /\ q \notin broke'
  <2>1. CASE pc[q][t] # "none"
    <3>1. run[q] = "done" /\ q \notin broke
      BY <1>0, <2>1
    <3> QED
      BY <3>1, DoneFrame
  <2>2. CASE pc[q][t] = "none"
    <3>1. q = o /\ run[o] = "start" /\ run' = [run EXCEPT ![o] = "done"] /\ UNCHANGED broke
      BY <1>2, <2>2, PcFrame
    <3> QED
      BY <1>0, <3>1 DEF TypeOK
  <2> QED
    BY <2>1, <2>2
<1> QED
  BY <1>1, <1>2

\* What a step does to the exit flags and to stop.
LEMMA StopFrame ==
  ASSUME NEW o \in Objects, Step(o)
  PROVE  \/ UNCHANGED <<stop, early, m_bExitThread>>
         \/ run[o] = "reset" /\ UNCHANGED <<stop, early>> /\ m_bExitThread' = [m_bExitThread EXCEPT ![o] = FALSE]
         \/ /\ stop[o] = "idle" /\ stop' = [stop EXCEPT ![o] = "C"] /\ UNCHANGED early
            /\ m_bExitThread' = [m_bExitThread EXCEPT ![o] = TRUE]
         \/ \E r \in Roles :
              /\ stop[o] = r
              /\ stop' = [stop EXCEPT ![o] = IF r = "C" THEN "R" ELSE IF r = "R" THEN "U" ELSE "done"]
              /\ early' = IF field[o][r] = Closed /\ run[o] # "done" THEN early \union {o} ELSE early
              /\ table' = [h \in Handles |-> IF h = field[o][r] THEN Closed ELSE table[h]]
              /\ UNCHANGED <<run, local, broke, m_bExitThread, field>>
<1> USE DEF stopVars, infoVars, runVars
<1>1. CASE NewCallInfo(o) \/ OpenU(o) \/ OpenR(o) \/ OpenC(o) \/ StartThreads(o)
  BY <1>1 DEF NewCallInfo, OpenU, OpenR, OpenC, StartThreads
<1>2. CASE ResetExit(o)
  BY <1>2 DEF ResetExit
<1>3. ASSUME NEW r, NEW here, NEW next, SetField(o, r, here, next)
      PROVE  UNCHANGED <<stop, early, m_bExitThread>>
  BY <1>3 DEF SetField
<1>4. CASE Raise(o)
  BY <1>4 DEF Raise
<1>5. CASE CloseStep(o)
  BY <1>5 DEF CloseStep, CloseField, Release, Roles
<1>6. CASE Thread(o)
  BY <1>6, ThreadFrame
<1> QED
  BY <1>1, <1>2, <1>3, <1>4, <1>5, <1>6 DEF Step, RunStep, Thread

LEMMA ClosesStep ==
  ASSUME TypeOK, LeakInv, NEW o \in Objects, Step(o)
  PROVE  Closes'
<1> SUFFICES ASSUME NEW q \in Objects, NEW r \in Roles, Past(q, r)', q \notin early'
             PROVE  run'[q] \notin Unset(r) /\ (Open(q, r)' => r = "U" /\ q \in broke')
  BY DEF Closes
<1>0. /\ Past(q, r) /\ q \notin early =>
           run[q] \notin Unset(r) /\ (Open(q, r) => r = "U" /\ q \in broke)
      /\ field[q][r] = IF run[q] \in Unset(r) \/ q \in broke THEN Closed ELSE local[q][r]
      /\ \A h \in Handles : table[h] = <<q, r>> => local[q][r] = h
      /\ q \in broke => run[q] = "done" /\ ~ Open(q, "R") /\ ~ Open(q, "C")
  BY DEF LeakInv, Closes, Fields, Owned, GaveUp
<1>1. run \in [Objects -> {"idle", "reset", "U", "R", "C", "setU", "setR", "setC", "start", "done"}]
      /\ stop \in [Objects -> {"idle", "C", "R", "U", "done"}]
  BY DEF TypeOK
<1>2. CASE Past(q, r) /\ q \notin early
  <2>1. run'[q] \notin Unset(r) /\ broke \subseteq broke'
    <3>1. run[q] \notin Unset(r)
      BY <1>0, <1>2
    <3> QED
      BY <1>1, <3>1, SocketFrame DEF Unset, Ahead, Roles
  <2>2. ASSUME NEW h \in Handles, table'[h] = <<q, r>> PROVE r = "U" /\ q \in broke
    <3>1. run[q] # r
      BY <1>0, <1>2 DEF Unset, Roles
    <3>2. table[h] = <<q, r>>
      BY <2>2, <3>1, OpenFrame
    <3> QED
      BY <1>0, <1>2, <3>2 DEF Open
  <2> QED
    BY <2>1, <2>2 DEF Open
<1>3. CASE ~ Past(q, r) \/ q \in early
  <2>1. early \subseteq early'
    BY StopFrame
  <2>2. ~ Past(q, r)
    BY <1>3, <2>1
  <2>3. /\ q = o /\ stop[o] = r
        /\ field[q][r] = Closed => run[q] = "done"
        /\ table' = [h \in Handles |-> IF h = field[q][r] THEN Closed ELSE table[h]]
        /\ UNCHANGED <<run, broke>>
    <3>1. CASE UNCHANGED stop
      BY <2>2, <3>1 DEF Past
    <3>2. CASE stop' = [stop EXCEPT ![o] = "C"]
      BY <1>1, <2>2, <3>2 DEF Past
    <3>3. ASSUME NEW x \in Roles, stop[o] = x,
                 stop' = [stop EXCEPT ![o] = IF x = "C" THEN "R" ELSE IF x = "R" THEN "U" ELSE "done"],
                 early' = IF field[o][x] = Closed /\ run[o] # "done" THEN early \union {o} ELSE early,
                 table' = [h \in Handles |-> IF h = field[o][x] THEN Closed ELSE table[h]],
                 UNCHANGED <<run, broke>>
          PROVE  /\ q = o /\ stop[o] = r
                 /\ field[q][r] = Closed => run[q] = "done"
                 /\ table' = [h \in Handles |-> IF h = field[q][r] THEN Closed ELSE table[h]]
                 /\ UNCHANGED <<run, broke>>
      <4>1. q = o /\ r = x
        BY <1>1, <2>2, <3>3 DEF Past, Roles
      <4> QED
        BY <3>3, <4>1
    <3> QED
      BY <3>1, <3>2, <3>3, StopFrame
  <2>4. ASSUME NEW h \in Handles, table'[h] = <<q, r>>
        PROVE  table[h] = <<q, r>> /\ h # field[q][r] /\ local[q][r] = h
    BY <1>0, <2>3, <2>4, Closing
  <2>5. CASE field[q][r] # Closed
    BY <1>0, <2>3, <2>4, <2>5 DEF Open
  <2>6. CASE field[q][r] = Closed
    <3>1. run'[q] \notin Unset(r)
      BY <2>3, <2>6 DEF Unset
    <3>2. ASSUME NEW h \in Handles, table'[h] = <<q, r>> PROVE r = "U" /\ q \in broke'
      <4>1. q \in broke
        BY <1>0, <2>3, <2>4, <2>6, <3>1, <3>2, RtpSocketAssumption
      <4>2. Open(q, r)
        BY <2>4, <3>2 DEF Open
      <4> QED
        BY <1>0, <2>3, <4>1, <4>2 DEF Roles
    <3> QED
      BY <3>1, <3>2 DEF Open
  <2> QED
    BY <2>5, <2>6
<1> QED
  BY <1>2, <1>3

-----------------------------------------------------------------------------
(* Waiting and stray reading.                                              *)

LEMMA WaitsStep ==
  ASSUME TypeOK, LeakInv, Waits, NEW o \in Objects, Step(o)
  PROVE  Waits'
<1> SUFFICES ASSUME NEW q \in Objects, NEW t \in Threads
             PROVE  /\ pc'[q][t] = "waiting" => table'[Source(q, t)'] # Closed
                    /\ q \in early' => /\ stop'[q] # "idle"
                                       /\ m_bExitThread'[q] => pc'[q][t] \in {"none", "test", "ended"}
  BY DEF Waits
<1>0. /\ pc[q][t] = "waiting" => table[Source(q, t)] # Closed
      /\ q \in early => stop[q] # "idle" /\ (m_bExitThread[q] => pc[q][t] \in {"none", "test", "ended"})
      /\ pc[q][t] # "none" => run[q] = "done" /\ q \notin broke
  BY DEF Waits, LeakInv, GaveUp
<1>1. ASSUME pc[q][t] # "none" PROVE Source(q, t) \in Handles /\ Source(q, t)' = Source(q, t)
  <2>1. run[q] = "done" /\ q \notin broke
    BY <1>0, <1>1
  <2>2. \A r \in {"R", "C"} : field[q][r] \in Handles
    BY <2>1 DEF LeakInv, Fields, Owned, Unopened, Unset, Roles
  <2>3. field'[q] = field[q]
    <3>1. field \in [Objects -> [Roles -> Handles \union {Closed}]]
      BY DEF TypeOK
    <3> QED
      BY <2>1, <3>1, FieldFrame DEF Sets, SetAt
  <2> QED
    BY <2>2, <2>3 DEF Source
<1>2. ASSUME pc'[q][t] = "waiting" PROVE table'[Source(q, t)'] # Closed
  BY <1>0, <1>1, <1>2, PcFrame
<1>3. ASSUME q \in early' PROVE stop'[q] # "idle"
  <2>1. stop \in [Objects -> {"idle", "C", "R", "U", "done"}]
    BY DEF TypeOK
  <2>2. CASE UNCHANGED <<stop, early>>
    BY <1>0, <1>3, <2>2
  <2>3. CASE stop[o] = "idle" /\ stop' = [stop EXCEPT ![o] = "C"]
    BY <1>0, <1>3, <2>1, <2>3, StopFrame DEF Roles
  <2>4. ASSUME NEW r \in Roles, stop[o] = r, early' \subseteq early \union {o},
               stop' = [stop EXCEPT ![o] = IF r = "C" THEN "R" ELSE IF r = "R" THEN "U" ELSE "done"]
        PROVE  stop'[q] # "idle"
    BY <1>0, <1>3, <2>1, <2>4
  <2> QED
    BY <2>2, <2>3, <2>4, StopFrame
<1>4. ASSUME q \in early', m_bExitThread'[q] PROVE pc'[q][t] \in {"none", "test", "ended"}
  <2>1. CASE q \in early
    <3>1. m_bExitThread[q]
      BY <1>0, <1>4, <2>1, StopFrame DEF TypeOK
    <3> QED
      BY <1>0, <2>1, <3>1, PcFrame
  <2>2. CASE q \notin early
    <3>1. q = o /\ run[q] # "done" /\ UNCHANGED run
      BY <1>4, <2>2, StopFrame
    <3>2. pc[q][t] = "none"
      BY <1>0, <3>1
    <3> QED
      BY <3>1, <3>2, PcFrame
  <2> QED
    BY <2>1, <2>2
<1> QED
  BY <1>2, <1>3, <1>4

LEMMA StraysStep ==
  ASSUME TypeOK, GaveUp, Strays, NEW o \in Objects, Step(o)
  PROVE  Strays'
<1> SUFFICES ASSUME NEW q \in Objects, NEW t \in Threads, strayReads'[q][t] > 0
             PROVE  strayReads'[q][t] = 1 /\ m_bExitThread'[q] /\ pc'[q][t] \in {"test", "try", "ended"}
  BY DEF Strays
<1>0. /\ strayReads[q][t] > 0 => strayReads[q][t] = 1 /\ m_bExitThread[q]
                                /\ pc[q][t] \in {"test", "try", "ended"}
      /\ pc[q][t] # "none" => run[q] = "done"
      /\ strayReads[q][t] \in 0 .. 2
  BY DEF Strays, GaveUp, TypeOK
<1>1. CASE UNCHANGED strayReads
  <2>1. strayReads[q][t] = 1 /\ m_bExitThread[q] /\ pc[q][t] \in {"test", "try", "ended"} /\ run[q] = "done"
    BY <1>0, <1>1
  <2>2. m_bExitThread'[q]
    <3>1. m_bExitThread \in [Objects -> BOOLEAN]
      BY DEF TypeOK
    <3> QED
      BY <2>1, <3>1, StopFrame
  <2> QED
    BY <1>1, <2>1, <2>2, PcFrame
<1>2. ASSUME NEW u \in Threads, Receive(o, u), ~ UNCHANGED strayReads
      PROVE  strayReads'[q][t] = 1 /\ m_bExitThread'[q] /\ pc'[q][t] \in {"test", "try", "ended"}
  <2>1. /\ pc[o][u] = "waiting" /\ m_bExitThread[o] /\ UNCHANGED m_bExitThread
        /\ strayReads' = [strayReads EXCEPT ![o][u] = IF strayReads[o][u] = 0 THEN 1 ELSE 2]
        /\ Goes(o, u, "test") \/ Goes(o, u, "try")
    BY <1>2 DEF Receive, infoVars
  <2>2. strayReads \in [Objects -> [Threads -> 0 .. 2]]
    BY DEF TypeOK
  <2>3. CASE q = o /\ t = u
    <3>1. strayReads[q][t] = 0
      BY <1>0, <2>1, <2>3
    <3>2. strayReads'[q][t] = 1
      BY <2>1, <2>2, <2>3, <3>1
    <3> QED
      BY <2>1, <2>3, <3>2, GoesAt
  <2>4. CASE ~ (q = o /\ t = u)
    <3>1. strayReads'[q][t] = strayReads[q][t]
      BY <2>1, <2>2, <2>4
    <3> QED
      BY <1>0, <2>1, <2>4, <3>1, GoesAt
  <2> QED
    BY <2>3, <2>4
<1>3. UNCHANGED strayReads \/ \E u \in Threads : Receive(o, u)
  BY DEF Step, RunStep, NewCallInfo, ResetExit, OpenU, OpenR, OpenC, SetField, StartThreads, Raise,
     CloseStep, CloseField, ThreadStep, Test, Try, Call, Error
<1> QED
  BY <1>1, <1>2, <1>3

-----------------------------------------------------------------------------
(* The theorems.                                                           *)

LEMMA IInvInit == Init => IInv
BY TypeInit, RtpSocketAssumption
DEF Init, IInv, Tries, LeakInv, Owned, Fields, GaveUp, Closes, Waits, Strays, Unopened, Unset, Past, Open,
    Roles, Threads

LEMMA IInvStep == IInv /\ [Next]_vars => IInv'
<1> SUFFICES ASSUME IInv, [Next]_vars PROVE IInv'
  OBVIOUS
<1>1. CASE UNCHANGED vars
  BY <1>1 DEF vars, runVars, stopVars, infoVars, threadVars, IInv, TypeOK, Tries, LeakInv, Owned, Fields,
     GaveUp, Closes, Waits, Strays, Past, Open, Source
<1>2. ASSUME NEW o \in Objects, Step(o) PROVE IInv'
  BY <1>2, TypeStep, TriesStep, OwnedStep, FieldsStep, GaveUpStep, ClosesStep, WaitsStep, StraysStep
  DEF IInv, LeakInv
<1> QED
  BY <1>1, <1>2 DEF Next, Ended

LEMMA IInvInvariant == Spec => []IInv
BY IInvInit, IInvStep, PTL DEF Spec

\* The variables have their types; the RTCP thread counts no more tries than
\* there are.
THEOREM TypeCorrect == Spec => []TypeOK
<1>1. IInv => TypeOK
  BY DEF IInv
<1> QED
  BY <1>1, IInvInvariant, PTL

\* A thread told to end reads at most one datagram from the socket of another
\* object, whatever numbers the system gives out.
THEOREM StrayUseCorrect == Spec => []StrayUse
<1>1. ASSUME IInv, NEW o \in Objects, NEW t \in Threads PROVE strayReads[o][t] < 2
  <2>1. strayReads[o][t] \in 0 .. 2 /\ (strayReads[o][t] > 0 => strayReads[o][t] = 1)
    BY <1>1 DEF IInv, TypeOK, Strays
  <2> QED
    BY <2>1
<1>2. IInv => StrayUse
  BY <1>1 DEF StrayUse
<1> QED
  BY <1>2, IInvInvariant, PTL

\* Only a run that gives up and a stop that comes too early leave sockets open.
THEOREM LeakCauseCorrect == Spec => []LeakCause
<1>1. IInv => LeakCause
  BY DEF IInv, LeakInv, Closes, Past, Open, OpenRoles, LeakCause, Roles, GaveUp
<1> QED
  BY <1>1, IInvInvariant, PTL

\* After a stop a thread waits only where another object has its number.
THEOREM OnlyStraysWaitCorrect == Spec => []OnlyStraysWait
<1>1. ASSUME IInv, NEW o \in Objects, NEW t \in Threads,
             m_bExitThread[o], stop[o] = "done", pc[o][t] = "waiting"
      PROVE  Stray(Source(o, t), o)
  <2>1. table[Source(o, t)] # Closed /\ o \notin early /\ run[o] = "done" /\ o \notin broke
    BY <1>1 DEF IInv, Waits, LeakInv, GaveUp
  <2>2. Source(o, t) \in Handles
    BY <2>1, <1>1 DEF IInv, LeakInv, Fields, Owned, Unopened, Unset, Source, Roles
  <2>3. \A r \in Roles : ~ Open(o, r)
    BY <1>1, <2>1 DEF IInv, LeakInv, Closes, Past
  <2>4. PICK q \in Objects, r \in Roles : table[Source(o, t)] = <<q, r>>
    BY <1>1, <2>1, <2>2 DEF IInv, TypeOK
  <2>5. q # o
    BY <2>2, <2>3, <2>4 DEF Open
  <2> QED
    BY <2>1, <2>2, <2>4, <2>5, RtpSocketAssumption DEF Stray
<1>2. IInv => OnlyStraysWait
  BY <1>1 DEF OnlyStraysWait
<1> QED
  BY <1>2, IInvInvariant, PTL
-----------------------------------------------------------------------------
(* How much a thread still does that has been told to end.                  *)

\* At most so many steps are left of a thread from here on.
Left == [none |-> 2, call |-> 4, waiting |-> 3, try |-> 2, test |-> 1, ended |-> 0]

\* Only run, when it resets the flag after stop has raised it, takes an order to
\* end back. After that the order is final, and each step takes a thread nearer to
\* its end, whatever comes to its socket and whoever opens and closes it.
ToldIsFinal ==
  [][\A o \in Objects :
       m_bExitThread[o] /\ run[o] # "reset" =>
         /\ m_bExitThread'[o] /\ run'[o] # "reset"
         /\ \A t \in Threads : pc'[o][t] = pc[o][t] \/ Left[pc'[o][t]] < Left[pc[o][t]]]_vars

\* stop comes after the beginning of run.
Begun == \A o \in Objects : m_bExitThread[o] => run[o] # "idle"

LEMMA RaiseFrame ==
  ASSUME NEW o \in Objects, Step(o)
  PROVE  \/ UNCHANGED m_bExitThread
         \/ run[o] = "reset" /\ run' = [run EXCEPT ![o] = "U"]
         \/ /\ run[o] # "idle" /\ UNCHANGED run
            /\ m_bExitThread' = [m_bExitThread EXCEPT ![o] = TRUE]
<1> USE DEF stopVars, infoVars, runVars
<1>1. CASE RunStep(o)
  BY <1>1 DEF RunStep, NewCallInfo, ResetExit, OpenU, OpenR, OpenC, StartThreads, SetField
<1>2. CASE Raise(o)
  BY <1>2 DEF Raise
<1>3. CASE CloseStep(o)
  BY <1>3 DEF CloseStep, CloseField
<1>4. CASE Thread(o)
  BY <1>4, ThreadFrame
<1> QED
  BY <1>1, <1>2, <1>3, <1>4 DEF Step, Thread

\* run goes forward.
LEMMA RunFrame ==
  ASSUME TypeOK, NEW o \in Objects, Step(o), NEW q \in Objects
  PROVE  \/ run'[q] = run[q]
         \/ run'[q] # "idle" /\ (run'[q] = "reset" => run[q] = "idle")
<1>1. run \in [Objects -> {"idle", "reset", "U", "R", "C", "setU", "setR", "setC", "start", "done"}]
  BY DEF TypeOK
<1> QED
  BY <1>1, SocketFrame DEF Ahead, Roles

LEMMA BegunStep == ASSUME TypeOK, Begun, NEW o \in Objects, Step(o) PROVE Begun'
<1> SUFFICES ASSUME NEW q \in Objects, m_bExitThread'[q] PROVE run'[q] # "idle"
  BY DEF Begun
<1>1. CASE m_bExitThread[q]
  BY <1>1, RunFrame DEF Begun
<1>2. CASE ~ m_bExitThread[q]
  <2>1. m_bExitThread' # m_bExitThread
    BY <1>2
  <2>2. CASE run[o] = "reset" /\ run' = [run EXCEPT ![o] = "U"]
    <3>1. q = o \/ (run'[q] = run[q] /\ m_bExitThread'[q] = m_bExitThread[q])
      BY <2>2, StopFrame DEF TypeOK
    <3> QED
      BY <1>2, <2>2, <3>1 DEF TypeOK
  <2>3. CASE /\ run[o] # "idle" /\ UNCHANGED run
             /\ m_bExitThread' = [m_bExitThread EXCEPT ![o] = TRUE]
    BY <1>2, <2>3 DEF TypeOK
  <2> QED
    BY <2>1, <2>2, <2>3, RaiseFrame
<1> QED
  BY <1>1, <1>2

LEMMA ToldStep ==
  ASSUME TypeOK, GaveUp, Begun, NEW o \in Objects, Step(o),
         NEW q \in Objects, m_bExitThread[q], run[q] # "reset"
  PROVE  /\ m_bExitThread'[q] /\ run'[q] # "reset"
         /\ \A t \in Threads : pc'[q][t] = pc[q][t] \/ Left[pc'[q][t]] < Left[pc[q][t]]
<1>1. m_bExitThread \in [Objects -> BOOLEAN] /\ pc \in
        [Objects -> [Threads -> {"none", "test", "try", "call", "waiting", "ended"}]]
  BY DEF TypeOK
<1>2. run'[q] # "reset"
  BY RunFrame DEF Begun
<1>3. m_bExitThread'[q]
  BY <1>1, StopFrame
<1>4. ASSUME NEW t \in Threads
      PROVE  pc'[q][t] = pc[q][t] \/ Left[pc'[q][t]] < Left[pc[q][t]]
  <2>1. CASE pc[q][t] = "none"
    BY <2>1, PcFrame DEF Left
  <2>2. CASE pc[q][t] # "none"
    <3>1. run[q] = "done"
      BY <2>2 DEF GaveUp
    <3> QED
      BY <2>2, <3>1, PcFrame DEF Left
  <2> QED
    BY <2>1, <2>2
<1> QED
  BY <1>2, <1>3, <1>4

\* What ends the threads is that they take those steps; OnlyStraysWait has where
\* one of them may not.
THEOREM ToldIsFinalCorrect == Spec => ToldIsFinal
<1>1. Init => Begun
  BY DEF Init, Begun
<1>2. IInv /\ Begun /\ [Next]_vars => Begun'
  <2>1. CASE UNCHANGED vars
    BY <2>1 DEF Begun, vars, runVars, infoVars
  <2> QED
    BY <2>1, BegunStep DEF Next, Ended, IInv
<1>3. IInv /\ Begun /\ [Next]_vars =>
        [\A o \in Objects :
           m_bExitThread[o] /\ run[o] # "reset" =>
             /\ m_bExitThread'[o] /\ run'[o] # "reset"
             /\ \A t \in Threads : pc'[o][t] = pc[o][t] \/ Left[pc'[o][t]] < Left[pc[o][t]]]_vars
  BY ToldStep DEF Next, Ended, IInv, LeakInv
<1> QED
  BY <1>1, <1>2, <1>3, IInvInvariant, PTL DEF Spec, ToldIsFinal
=============================================================================
