------------------------------ MODULE RtpSocket ------------------------------
(***************************************************************************)
(* The sockets of the cameras, class rtp_socket. Each camera has one       *)
(* object: run opens a socket to forward by (U), one for RTP (R) and one   *)
(* for RTCP (C), and starts a thread on each of the last two; stop raises  *)
(* m_bExitThread and closes the three. run is called by the SIP thread and *)
(* stop by the HTTP thread, each once for an object (CameraSessions), in   *)
(* any order.                                                              *)
(*                                                                         *)
(* A socket is a number that the system gives out. When it is closed, the  *)
(* number is free, and the next socket opened may get it, while a thread   *)
(* of the object that had it still reads it. RtpReorder has what the media *)
(* thread does with a packet; here it only reads.                          *)
(*                                                                         *)
(* When InitSendSocket fails, run and everyone after it use memory that    *)
(* has been deleted: the process may die of it, or go on as if it were     *)
(* there. Dying is to take no more steps.                                  *)
(***************************************************************************)
EXTENDS Naturals

CONSTANTS
  Objects,   \* the objects of rtp_socket
  Handles,   \* the numbers for sockets
  Closed,    \* stands for a number that is no socket
  Retries    \* how often the RTCP thread tries to read; 10 in the code

Roles == {"U", "R", "C"}
Threads == {"media", "rtcp"}

ASSUME RtpSocketAssumption ==
  Closed \notin Handles \union (Objects \X Roles) /\ Retries \in Nat \ {0}

VARIABLES
  table,          \* the system: who opened each socket and what for, or Closed
  run,            \* where run is
  stop,           \* where stop is
  m_bExitThread,
  local,          \* the sockets in the variables of run ...
  field,          \* ... and those in *m_pCallInfo
  pc,             \* where each thread of an object is
  len,            \* the RTCP thread's len, and ...
  i,              \* ... how often it has tried
  broke,          \* history: the objects whose run gave up
  early,          \* history: those whose stop found a socket not set yet
  strayReads      \* history: how often a thread that m_bExitThread tells to end has
                  \* read a socket of another object; 2 is more than once

runVars    == <<run, local, broke>>
stopVars   == <<stop, early>>
infoVars   == <<m_bExitThread, field>>
threadVars == <<pc, len, i>>
vars       == <<table, runVars, stopVars, infoVars, threadVars, strayReads>>

Init ==
  /\ table = [h \in Handles |-> Closed]
  /\ run = [o \in Objects |-> "idle"] /\ stop = [o \in Objects |-> "idle"]
  /\ m_bExitThread = [o \in Objects |-> FALSE]
  /\ local = [o \in Objects |-> [r \in Roles |-> Closed]] /\ field = local
  /\ pc = [o \in Objects |-> [t \in Threads |-> "none"]]
  /\ len = [o \in Objects |-> "error"] /\ i = [o \in Objects |-> 0]
  /\ broke = {} /\ early = {}
  /\ strayReads = [o \in Objects |-> [t \in Threads |-> 0]]

\* The socket that a thread reads from.
Source(o, t) == field[o][IF t = "media" THEN "R" ELSE "C"]

Waiting(hs) == {p \in Objects \X Threads : pc[p[1]][p[2]] = "waiting" /\ Source(p[1], p[2]) \in hs}

\* recvfrom returns an error to the threads ps, each an object and a name: the
\* media thread ends, the RTCP thread tries again.
Fail(ps) ==
  /\ pc' = [o \in Objects |-> [t \in Threads |->
              IF <<o, t>> \notin ps THEN pc[o][t] ELSE IF t = "media" THEN "ended" ELSE "try"]]
  /\ len' = [o \in Objects |-> IF <<o, "rtcp">> \in ps THEN "error" ELSE len[o]]
  /\ i' = [o \in Objects |-> IF <<o, "rtcp">> \in ps THEN i[o] + 1 ELSE i[o]]

\* Mutant: closing a socket ends no recvfrom.
ReleaseQuietly(hs) ==
  table' = [h \in Handles |-> IF h \in hs THEN Closed ELSE table[h]] /\ UNCHANGED threadVars

\* The sockets hs are closed, which ends every recvfrom that waits at one.
Release(hs) ==
  /\ table' = [h \in Handles |-> IF h \in hs THEN Closed ELSE table[h]]
  /\ Fail(Waiting(hs))

-----------------------------------------------------------------------------
(* run, in the SIP thread.                                                 *)

NewCallInfo(o) ==
  /\ run[o] = "idle"
  /\ run' = [run EXCEPT ![o] = "reset"]
  /\ UNCHANGED <<table, local, broke, stopVars, infoVars, threadVars, strayReads>>

ResetExit(o) ==
  /\ run[o] = "reset"
  /\ run' = [run EXCEPT ![o] = "U"]
  /\ m_bExitThread' = [m_bExitThread EXCEPT ![o] = FALSE]
  /\ UNCHANGED <<table, local, broke, stopVars, field, threadVars, strayReads>>

\* socket, and bind where the code binds.
Opens(o, r) ==
  \E h \in Handles :
    /\ table[h] = Closed
    /\ table' = [table EXCEPT ![h] = <<o, r>>]
    /\ local' = [local EXCEPT ![o][r] = h]

\* InitSendSocket. When it fails, the CALL_INFO_ST is deleted and run goes on.
OpenU(o) ==
  /\ run[o] = "U"
  /\ run' = [run EXCEPT ![o] = "R"]
  /\ Opens(o, "U") \/ UNCHANGED <<table, local>>
  /\ UNCHANGED <<broke, stopVars, infoVars, threadVars, strayReads>>

\* A socket that cannot be bound is closed again.
OpenR(o) ==
  /\ run[o] = "R"
  /\ \/ /\ Opens(o, "R")
        /\ run' = [run EXCEPT ![o] = "C"] /\ UNCHANGED broke
     \/ /\ run' = [run EXCEPT ![o] = "done"] /\ broke' = broke \union {o}
        /\ UNCHANGED <<table, local>>
  /\ UNCHANGED <<stopVars, infoVars, threadVars, strayReads>>

\* Mutant: the RTP socket is left open when there is none for RTCP.
OpenCOnly(o) ==
  /\ run[o] = "C"
  /\ \/ /\ Opens(o, "C")
        /\ run' = [run EXCEPT ![o] = "setU"] /\ UNCHANGED broke
     \/ /\ run' = [run EXCEPT ![o] = "done"] /\ broke' = broke \union {o}
        /\ UNCHANGED <<table, local>>
  /\ UNCHANGED <<stopVars, infoVars, threadVars, strayReads>>

OpenC(o) ==
  /\ run[o] = "C"
  /\ \/ /\ Opens(o, "C")
        /\ run' = [run EXCEPT ![o] = "setU"] /\ UNCHANGED <<broke, threadVars>>
     \/ /\ run' = [run EXCEPT ![o] = "done"] /\ broke' = broke \union {o}
        /\ Release({local[o]["R"]}) /\ UNCHANGED local
  /\ UNCHANGED <<stopVars, infoVars, strayReads>>

\* The sockets are put into *m_pCallInfo, one by one.
SetField(o, r, here, next) ==
  /\ run[o] = here
  /\ run' = [run EXCEPT ![o] = next]
  /\ field' = [field EXCEPT ![o][r] = local[o][r]]
  /\ UNCHANGED <<table, local, broke, stopVars, m_bExitThread, threadVars, strayReads>>

StartThreads(o) ==
  /\ run[o] = "start"
  /\ run' = [run EXCEPT ![o] = "done"]
  /\ pc' = [pc EXCEPT ![o] = [t \in Threads |-> "test"]]
  /\ UNCHANGED <<table, local, broke, stopVars, infoVars, len, i, strayReads>>

RunStep(o) ==
  \/ NewCallInfo(o) \/ ResetExit(o) \/ OpenU(o) \/ OpenR(o) \/ OpenC(o) \/ StartThreads(o)
  \/ SetField(o, "U", "setU", "setR")
  \/ SetField(o, "R", "setR", "setC")
  \/ SetField(o, "C", "setC", "start")

-----------------------------------------------------------------------------
(* stop, in the HTTP thread. Before run it follows a wild pointer, which   *)
(* CameraSessions has.                                                     *)

Raise(o) ==
  /\ stop[o] = "idle" /\ run[o] # "idle"
  /\ stop' = [stop EXCEPT ![o] = "C"]
  /\ m_bExitThread' = [m_bExitThread EXCEPT ![o] = TRUE]
  /\ UNCHANGED <<table, runVars, early, field, threadVars, strayReads>>

\* A field that is not set yet holds 0, which is no socket.
CloseField(o, r, next) ==
  /\ stop[o] = r
  /\ stop' = [stop EXCEPT ![o] = next]
  /\ early' = IF field[o][r] = Closed /\ run[o] # "done" THEN early \union {o} ELSE early
  /\ Release({field[o][r]})
  /\ UNCHANGED <<runVars, infoVars, strayReads>>

CloseStep(o) ==
  CloseField(o, "C", "R") \/ CloseField(o, "R", "U") \/ CloseField(o, "U", "done")

-----------------------------------------------------------------------------
(* The two threads.                                                        *)

Goes(o, t, next) == pc' = [pc EXCEPT ![o][t] = next]

\* The number h, that o has been given, is now a socket of another object.
Stray(h, o) == h # Closed /\ table[h] # Closed /\ table[h][1] # o

\* while (!m_pCallInfo->m_bExitThread)
Test(o, t) ==
  /\ pc[o][t] = "test"
  /\ \/ m_bExitThread[o] /\ Goes(o, t, "ended") /\ UNCHANGED len
     \/ ~ m_bExitThread[o] /\ t = "media" /\ Goes(o, t, "call") /\ UNCHANGED len
     \/ /\ ~ m_bExitThread[o] /\ t = "rtcp" /\ Goes(o, t, "try")
        /\ len' = [len EXCEPT ![o] = "error"]
  /\ UNCHANGED <<table, runVars, stopVars, infoVars, i, strayReads>>

\* Mutant: the flag is not tested again between two tries.
TryOn(o) ==
  /\ pc[o]["rtcp"] = "try"
  /\ IF i[o] < Retries THEN Goes(o, "rtcp", "call") /\ UNCHANGED i
     ELSE Goes(o, "rtcp", IF len[o] = "error" THEN "ended" ELSE "test") /\ i' = [i EXCEPT ![o] = 0]
  /\ UNCHANGED <<table, runVars, stopVars, infoVars, len, strayReads>>

\* Mutant: one try too many.
TryOneMore(o) ==
  /\ pc[o]["rtcp"] = "try"
  /\ IF i[o] <= Retries /\ ~ m_bExitThread[o] THEN Goes(o, "rtcp", "call") /\ UNCHANGED i
     ELSE Goes(o, "rtcp", IF len[o] = "error" THEN "ended" ELSE "test") /\ i' = [i EXCEPT ![o] = 0]
  /\ UNCHANGED <<table, runVars, stopVars, infoVars, len, strayReads>>

\* The RTCP thread's inner loop, and what comes after it when it has read
\* nothing: the thread ends unless the last try got an empty datagram.
Try(o) ==
  /\ pc[o]["rtcp"] = "try"
  /\ IF i[o] < Retries /\ ~ m_bExitThread[o] THEN Goes(o, "rtcp", "call") /\ UNCHANGED i
     ELSE Goes(o, "rtcp", IF len[o] = "error" THEN "ended" ELSE "test") /\ i' = [i EXCEPT ![o] = 0]
  /\ UNCHANGED <<table, runVars, stopVars, infoVars, len, strayReads>>

\* recvfrom waits, unless its socket is closed.
Call(o, t) ==
  /\ pc[o][t] = "call"
  /\ IF table[Source(o, t)] = Closed THEN Fail({<<o, t>>})
     ELSE Goes(o, t, "waiting") /\ UNCHANGED <<len, i>>
  /\ UNCHANGED <<table, runVars, stopVars, infoVars, strayReads>>

\* A datagram comes to the socket, which the thread forwards or answers. An
\* empty one counts as an error to the RTCP thread, at first.
Receive(o, t) ==
  /\ pc[o][t] = "waiting"
  /\ strayReads' = IF m_bExitThread[o] /\ Stray(Source(o, t), o)
                   THEN [strayReads EXCEPT ![o][t] = IF @ = 0 THEN 1 ELSE 2] ELSE strayReads
  /\ \/ t = "media" /\ Goes(o, t, "test") /\ UNCHANGED <<len, i>>
     \/ /\ t = "rtcp" /\ Goes(o, t, "test") /\ len' = [len EXCEPT ![o] = "read"]
        /\ i' = [i EXCEPT ![o] = 0]
     \/ /\ t = "rtcp" /\ Goes(o, t, "try")
        /\ len' = [len EXCEPT ![o] = "read"] /\ i' = [i EXCEPT ![o] = @ + 1]
  /\ UNCHANGED <<table, runVars, stopVars, infoVars>>

\* The socket reports an error, such as a port that nobody listens to.
Error(o, t) ==
  /\ pc[o][t] = "waiting"
  /\ Fail({<<o, t>>})
  /\ UNCHANGED <<table, runVars, stopVars, infoVars, strayReads>>

ThreadStep(o, t) == Test(o, t) \/ Call(o, t) \/ (t = "rtcp" /\ Try(o))

-----------------------------------------------------------------------------
Step(o) ==
  \/ RunStep(o) \/ Raise(o) \/ CloseStep(o)
  \/ \E t \in Threads : ThreadStep(o, t) \/ Receive(o, t) \/ Error(o, t)

\* Nobody has anything left to do.
Ended ==
  /\ \A o \in Objects : run[o] = "done" /\ stop[o] = "done"
  /\ UNCHANGED vars

Next == (\E o \in Objects : Step(o)) \/ Ended

Spec == Init /\ [][Next]_vars

-----------------------------------------------------------------------------
(* Properties.                                                             *)

TypeOK ==
  /\ table \in [Handles -> {Closed} \union (Objects \X Roles)]
  /\ run \in [Objects -> {"idle", "reset", "U", "R", "C", "setU", "setR", "setC", "start", "done"}]
  /\ stop \in [Objects -> {"idle", "C", "R", "U", "done"}]
  /\ m_bExitThread \in [Objects -> BOOLEAN]
  /\ local \in [Objects -> [Roles -> Handles \union {Closed}]]
  /\ field \in [Objects -> [Roles -> Handles \union {Closed}]]
  /\ pc \in [Objects -> [Threads ->
             {"none", "test", "try", "call", "waiting", "ended"}]]
  /\ len \in [Objects -> {"error", "read"}] /\ i \in [Objects -> 0 .. Retries]
  /\ broke \subseteq Objects /\ early \subseteq Objects
  /\ strayReads \in [Objects -> [Threads -> 0 .. 2]]

\* A thread that has been told to end reads the socket of another object, whose
\* number was its own, once at most: m_bExitThread is tested before each read.
StrayUse == \A o \in Objects, t \in Threads : strayReads[o][t] < 2

OpenRoles(o) == {r \in Roles : <<o, r>> \in {table[h] : h \in Handles}}

\* What run and stop leave open: nothing; the socket to forward by, if run gave
\* up; anything, if stop looked for a socket before run had set it.
LeakCause ==
  \A o \in Objects :
    run[o] = "done" /\ stop[o] = "done" =>
      \/ OpenRoles(o) = {}
      \/ o \in broke /\ OpenRoles(o) = {"U"}
      \/ o \in early

\* When stop has gone by, a thread that it has reached waits for a datagram only
\* if the number of its socket has become another object's: all else it does
\* ends.
OnlyStraysWait ==
  \A o \in Objects, t \in Threads :
    m_bExitThread[o] /\ stop[o] = "done" /\ pc[o][t] = "waiting" => Stray(Source(o, t), o)
=============================================================================
