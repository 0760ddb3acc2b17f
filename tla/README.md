# A TLA+ model of CppHttpDemo

CppHttpDemo is a gateway from GB28181 cameras to RTMP. An HTTP request
`/startGb2Rtmp` makes it invite a camera over SIP; when the camera's platform
answers, RTP packets arrive on a UDP port, are put back into order, handed over
a local UDP port to FFmpeg, and pushed to an RTMP server. `/stopGb2Rtmp` hangs
up. This directory holds TLA+ modules of that program, TLC runs that check them
on small instances, and theorems about them that TLAPS checks for all instances.

## Inventory

| Component | State | Operations | Hard because |
|---|---|---|---|
| Camera sessions (`main.cpp`, `local_server.cpp`) | `m_cameraList`; per entry the call ids, `ffmpeg_to_web`, `rtp_socket` | start and stop requests; the answer to an INVITE | HTTP thread and SIP thread share the list without a lock; the entry is appended after the INVITE; stop may come before the answer |
| RTP receiver (`rtp_socket::sMediaReceiverProc`) | `PacketArray`, `minSN`, `maxSN`, `firstFlag` | receive, forward, stop | loss, duplication, reordering; a full queue; numbers wrap around |
| RTP sockets and RTCP (`rtp_socket::run`, `stop`, `sRTCPProc`) | `m_pCallInfo`, three sockets, two threads | run, stop, RTCP reply | stop at any step of `run`; `run` goes on after deleting `m_pCallInfo`, or gives up half-way; socket numbers are used again |
| Transcoder (`ffmpeg_to_web`) | `m_bIsRunning`, two format contexts | open, read, write, close | stop in any phase; contexts NULL or open when closed or left |
| SIP server life cycle (`local_server`) | `m_bIsStop`, `eCtx` | start, stop, destructor, events | start-up race on `eCtx`; nobody answers `stop`; the destructor runs beside the SIP thread |
| Platforms, catalogue, PTZ | `m_platformList`, `m_SN`, `xmlCatalog` | register, keepalive, catalogue, PTZ command | unlocked sharing, fields never initialised |
| HTTP server (`http_server.cpp`) | handler map, websocket set, mongoose connections | route, reply, websocket events | a url without a handler gets no reply; sessions are addresses that are used again |
| HTTP client (`httpclient/`) | `s_exit_flag`, `s_req_callback` | `SendReq` | static state survives the request |
| Configuration (`xmlConfig.cpp`) | `config.xml` | create, insert, query, read | what is written is not all that is read; the file outlives the process |

The HTTP thread runs mongoose's loop and, inside it, the request handlers,
which call `sendInvite`, `sendBye` and the `stop` functions. The SIP thread runs
`gb28181ServerThread`, which alone calls the `start` functions of the media
objects. These run detached threads that communicate with the other two through
plain members (`m_bIsRunning`, `m_pCallInfo->m_bExitThread`). Nothing is locked
but the SIP stack. Only `config.xml` outlives a process, and only `XmlConfig`
has restarts and a process that dies at the wrong moment.

Mongoose, cJSON, tinyxml2, easylogging++ and concurrentqueue are vendored;
eXosip, osip and FFmpeg are here as headers and binaries. They are external:
modelled, where they matter, from how the code uses them.

What makes each component correct:

- sessions: one entry per camera; a call that is up can be hung up; media that
  runs can be stopped; replies are true; a stop affects its own camera;
- receiver: bounded memory; no packet twice; in order when the network allows;
- sockets: none left open, and no thread left reading, but for the races stated;
- transcoder: each context closed once, no thread left;
- SIP server: what kills it is known; stop ends its thread; each platform has its
  own last call; `sendBye` is called for every registered platform;
- PTZ: command numbers differ; a command moves the camera as it says;
- HTTP: the sessions are the open websockets; a handled request comes back, with
  its own reply;
- configuration: what is inserted is read back, and a process can start with it.

`PROJECT.json` lists the hazards, each at its line, with the properties aimed
at it.

## Modules

| Module | Models |
|---|---|
| `CameraSessions` | the list of live cameras under the HTTP thread, the SIP thread, the media threads and the peer |
| `MediaWaits` | `CameraSessions` with the waits of media threads that no stop ends, and its liveness |
| `LiveCameras` | what clients may take the list for: a set of cameras that each request reads and changes at one moment |
| `MCCameraSessions` | `CameraSessions` with its symmetry for TLC |
| `CameraSessionsProofs` | the theorems of `CameraSessions`, the refinement of `LiveCameras` among them |
| `CameraSessionsRaceProofs` | its theorems about well-timed cameras and about crashes |
| `FfmpegToWeb` | the transcoder's thread and its two format contexts |
| `FfmpegToWebProofs` | its theorems |
| `RtpReorder` | the packet queue and the forwarding loop of the receiver |
| `OrderedOutput` | what the receiver's reader may hope for: ever growing numbers |
| `RtpStream` | `RtpReorder` behind a well-behaved network, implementing `OrderedOutput` |
| `RtpReorderProofs` | the theorems of `RtpReorder`, and the refinement of `OrderedOutput` |
| `RtpSocket` | `run` and `stop` of several cameras' sockets, and what their threads read |
| `MCRtpSocket` | its symmetry for TLC |
| `RtpSocketProofs` | its theorems |
| `LocalServer` | the SIP server from `main` to its destructor, its events, its platforms and their PTZ commands |
| `PtzCode` | the bytes of a PTZ command and how a camera reads them; used by `LocalServer` |
| `LocalServerProofs` | the theorems of both |
| `HttpServer` | the HTTP server over mongoose's connections |
| `HttpClient` | the demo client and browsers, composed with `HttpServer` |
| `HttpProofs` | the theorems of both |
| `XmlConfig` | the configuration file and what is read of it, over restarts |
| `XmlConfigProofs` | its theorems |

Operators whose comment begins with "Mutant:" are wrong versions of the
definition that follows them. No specification uses them; replacing the
definition by one of them makes TLC find the property that `PROJECT.json` pairs
it with violated, which shows that the property depends on the code.

### CameraSessions

The n-th INVITE and the entry built for it share the number n. Entries are
only appended, in ascending order, and erased, so that the list is the set
`m_cameraList` of the numbers in it, and `IsNext` is `++` on its iterators.
Per entry there are the device id, the recorded call (`call_id` stands for both
ids; they are written and used together), the run flag, the number of live
transcoder threads, what `m_pCallInfo` points to (`"wild"`: never set, `"run"`,
`"exit"`: its `m_bExitThread`, `"freed"`), and whether the receivers live.

Both threads have a program counter. The HTTP thread handles one request at a
time; a step is what lies between two accesses to memory the SIP thread also
uses. So a start is `StartInvite` (the test, `sendInvite`), `StartPush`
(`push_back`) and `SendReply`; a stop is `StopBye`, `StopTranscoder`,
`StopReceiver`, `StopErase` and `SendReply`. The answer to an INVITE is
`SipAnswered` (ACK), `SipAdvance` per entry passed, `SipRecord`,
`SipStartTranscoder`, then `rtp_socket::run` as `SipNewCallInfo`,
`SipResetExit`, `SipBind`. Undefined behaviour is a choice: ids never written
have any value; a write through a wild pointer goes unnoticed or kills the
process (`StopWildPointer`); a list node erased under the SIP thread still
reads as it was, or kills the process (`SipDangling`).

Two history variables keep the rare cases apart: `early` holds the entries
whose stop began while `m_pCallInfo` was not yet, or no longer, valid; `missed`
the calls whose answer found no entry. A camera is *well-timed* if none of its
entries or calls is in them. Several properties hold for well-timed cameras
only, which says exactly which races break them.

`LiveCameras` is what a client sees of all this. `Live` maps the list to its set of
cameras: a camera is live from `StartPush` to `StopErase`, so that a request takes
effect at the step that finds its answer or changes the list, and `Told` is the reply
once that step is done. `RequestsAreAtomic` says that `Directory`, which is
`LiveCameras` under this mapping, is implemented, whatever the SIP thread does.

A step of the walk from an erased node follows the link the node had when it was
erased, possibly to another node erased since. The step changes only the iterator,
so `SipAdvance` taken right after the erasure stands for it.

Left out: media ports and urls (a failing bind is a choice), JSON, the messages
of the SIP thread that touch no entry, and requests for other urls.

`MediaWaits` adds to each entry whether a transcoder of it is in a call on its output
(`sending`) and whether a stop found a receiver of it between the test of
`m_bExitThread` and `recvfrom` (`astray`). Both may keep a stopped thread for ever: the
output has no interrupt callback (`ffmpeg_to_web.cpp:123`), and the closed number may
be another socket's by the time of the call. `FfmpegToWeb` and `RtpSocket` have the
same waits step by step. They restrict nothing that `CameraSessions` does, so its
safety properties are checked and proved without them.

### FfmpegToWeb

One transcoder, started at most once (`MediaStartedOnce` of `CameraSessions`
says when that is so) and stopped at most once (`ObjectsAreUsedOnce`). The program counter follows `mainThread`: one action per
call of libavformat and one per turn of a loop. `context` and `outputContext`
are what the two pointers lead to; `nb_streams` and `copied` count the streams
of the input and of the output. Any call with a result may fail. Two of its
effects are external and come from `avformat.h`: a failed `avformat_open_input`
frees and nulls its context, and a demuxer may add streams while packets are
read (`AVFMTCTX_NOHEADER`; an MPEG program stream, which cameras send, is such a
case). `Stop` is the HTTP thread, at any time; three history variables say where
it came, which calls have failed, and what no pointer leads to any more.
`CameraSessions` sees of all this the run flag and that the thread is alive.

Memory is assumed to suffice for `avformat_alloc_context`, whose result the code
does not test. A packet of a stream the output does not know is a choice between
an error of the muxer and a fault.

### RtpReorder and RtpStream

A packet is its sequence number and the rank of its arrival; the `std::list` in
order of arrival is the set `PacketArray`. `Receive` is one turn of the outer
loop up to the forwarding, including the search for a new `minSN` in a full
queue; `Forward` is a turn of the inner loop that finds its packet, `DrainDone`
its end. The loop's `sn` equals `minSN` at every turn, so it is no variable. A
stop during `recvfrom` or between a test of `m_bExitThread` and the `sendto`
after it has the effect of a stop after it, since neither uses the flag.
Datagrams without an RTP header change nothing and are left out.

`RtpStream` restricts the network: a packet is new to the queue and, once the
first batch is complete, not below `minSN`. Loss, and reordering of any kind
among packets still to come, remain. Sequence numbers run in a circle. The code
compares them as they are, so that after a wrap-around every number looks late;
`NewRound` therefore asks that the queue be empty when the first packet of a
round comes, and `OrderedOutput` is stated for positions in the whole stream.
That condition is the least that helps: without `PacketArray = {}` TLC finds
`StreamIsOrdered` violated, the old round's packets coming out after the new
one's. The code does nothing to meet it; with no loss or reordering around a
wrap-around it holds.

### RtpSocket

`CameraSessions` has one step for all that `run` opens. Here each socket is
opened, bound and put into `*m_pCallInfo` in a step of its own, and `stop`, at any
point after `new`, closes the three fields one by one. A socket is a number in
`table`; closing it frees the number for the next `socket`, which is how a thread
still in its loop comes to read another camera's socket (`Stray`). Both threads are
their tests of `m_bExitThread` and their calls of `recvfrom`; the RTCP thread has
its inner loop of ten tries (`Retries`), which restarts after an empty datagram
because `len` is then 0. What a thread does with the bytes is in `RtpReorder`, or
formatting. When `InitSendSocket` fails, everyone goes on with deleted memory: the
process may die, which is to take no more steps, or nothing shows. A stop between
`new` and the reset of the flag is wiped out, and a stop before `new` is
`CameraSessions`' business.

### LocalServer and PtzCode

Three threads: main (its requests, then the destructor of `testServer`, which
runs when the HTTP port cannot be bound), the SIP thread, and a caller of `stop`,
which the repository lacks and the interface offers. The lists are not locked, so a
step ends wherever another thread's access may come between: the copy of
`xmlCatalog` and its assignment are intervals (`main = "copy"`, `sip = "assign"`)
and overlapping is `CatalogRace`. A platform's fields start as what the memory
held: any numbers in `Memory`, any registration flag, any call id (0 for it).
`Fault` is the death of the process; each action that touches memory which may be
unset or freed has it as one of its outcomes, and `CrashCause` says in which
states that is. `m_SN` is an int of any width that wraps around, and `TooLong` is
`intBuf[10]`. `NoContact` is the sender of a request without a Contact header, or whose
Contact has no url or user name: the comparison follows either null pointer. A PTZ
request has its items here; one without kills the process in the first lines of its
handler (`main.cpp:213`), before it reaches anything this module has, and is
`HttpServer`'s `Die`. `byes` counts calls of `sendBye`, whether or not an `eCtx` that was
not set up lets anything out. The answer to a PTZ request is left out: it is always
`{}`, since `cJSON_Print` comes before the items are added (`main.cpp:237`).

`PtzCode` computes the eight bytes of a command; `WellFormed` and `Moves` are a
camera's reading of them.

### HttpServer and HttpClient

The server's single thread polls: it accepts, reads the oldest message of a
connection and answers it, or forgets a closed connection. Handlers are what the
other modules model; here each answers once. An address serves again after
`Close`, which is why `s_websocket_session_set` could be wrong. `HttpClient` adds
the two processes on the other side: the client with its static flag, and browsers
that ask, upgrade, send frames and leave. The client's real urls (`/api/hello`,
`/api/fun2`) have no handler on this server, so its first `SendReq` waits for as
long as the server lives; `Urls` has one url of each kind.

### XmlConfig

A file is which elements it has and their texts. Every write builds all elements
of a node; `local` may come to hold several children of a name, of which the reads
take the first. An empty text does not survive a save and a load (`GetText` is then
a null pointer), a missing element is a null pointer too, and with either the read
dies. Every write ends in `SaveFile`, which empties the file before it writes it
(`tinyxml2.cpp:2263`): `Interrupted` is a process that dies in between and leaves a
file that does not load, with which later starts go on without any platform.
`Restart` starts the process again with the file as it was left. Element names and the
conversions between numbers and texts are not modelled, so `ReadBack` is about which
platforms and fields come back and in which order, not about their spelling. Only the reads
have callers in the repository; the writers and the query are modelled as the
interface they are. `queryVideoServerNodeByName` compares the ID of `SubRealm`,
which has none, and dies whenever it is called. `insertLocalServerNode` never has
an effect: behind the shipped settings it is not read, and after `createXML`
`videoNum` is missing.

## Runs

| Run | Instance | Shows |
|---|---|---|
| `sessions` | 2 cameras, 2 INVITEs | all safety properties of the sessions; refinement of `LiveCameras` |
| `sessions_live` | 1 camera, 2 INVITEs, fair | answers are acknowledged; stopped media ends but for calls on the output and `recvfrom` at closed numbers |
| `sessions_listed` | 1 camera, 2 INVITEs | a listed camera need not be playing (finding) |
| `reorder` | batch 1, queue 4, numbers 0..4, 6 arrivals | queue bounded, packets forwarded once, what stalls the output, stop is heeded |
| `stream` | batch 2, queue 4, numbers 0..4 in three rounds, 8 arrivals | refinement of `OrderedOutput` |
| `transcoder` | 2 streams, fair | contexts are open when used; what kills the process, what leaks, when a stop ends the thread |
| `transcoder_stop` | 2 streams | a stop before the input is open kills the process (finding) |
| `rtp_sockets` | 2 cameras, 3 socket numbers, 2 tries | what stays open, which thread still reads, how often it reads another camera's socket |
| `local_server` | 2 platforms, 2 IDs, 2 events, 3 commands, ints -2..1, fair | what kills the process; whose call and number a platform has; for whom `sendBye` is called; what `stop` does |
| `http` | 2 connections, 2 requests of the client, 3 messages of browsers, fair | sessions are open websockets; a request has its own reply or none; a handled one comes back |
| `http_client` | the same | the second `SendReq` comes back with nothing (finding) |
| `config` | 2 texts, 2 platforms in a file, 2 read | with which files a process cannot start; what is read was given |

Bounds. Every race in `CameraSessions` involves at most two entries: a camera
stopped and started again, or two cameras side by side; both fit in two INVITEs
(`MaxStarts`). Three INVITEs give 71 million states and no violation. In
`RtpReorder` the queue of four fills up after the batch with arrivals to spare,
and five numbers for six arrivals make duplicates unavoidable; `MaxArrivals`
bounds the counter. `FfmpegToWeb` has no bound but the number of streams: two,
one of which may be late. The real sizes (100, 1000, 65535) are covered by the proofs.
In `RtpSocket` two cameras need six numbers to be all open; three make a number
change hands at once, and let `socket` fail for want of one, and two tries are the
least with a try between. `LocalServer` has two platforms that may share an ID, an
int of four values that three commands take around the corner, and two events, so
that a registration may be replaced or met by the destructor; the `Memory` of the
run is the greatest int.
In `HttpClient` two addresses and three messages suffice for an upgraded connection
to be closed and its address taken by somebody else, the client included.
`XmlConfig` bounds the nodes of a file (`MaxInserts`) and of the list
(`MaxPlatforms`); a blank may be an attribute (harmless) or a text (fatal).

Symmetry is used in `sessions` and `rtp_sockets`, whose safety properties do not
tell cameras or socket numbers apart. Deadlock is checked in all runs: only a
process that died or is over, and threads that have all ended (`Halted`, `Ended`),
may stop.

Fairness. `sessions_live` assumes that the HTTP thread finishes the request it
works on and the SIP thread keeps polling (both loop for ever and are scheduled
by the operating system), that a transcoder whose run flag is cleared ends unless it
is in a call on its output (its loops test the flag, and `interruptReadFrame` aborts
what it does with its input), and that a receiver whose exit flag is set ends unless it
is astray (`stop` closes its socket, which ends the `recvfrom` it is in). It assumes
neither that a streaming server answers nor that a closed number stays unused. So
`StopEndsMedia` is exactly what a stop achieves: a thread ends or is in one of these two
waits; without either exemption TLC finds it violated. Clients and peers owe nothing:
no request, answer or hang-up is fair. `transcoder` is about the same steps one by one:
its own are fair, and a call on the input is once the run flag is cleared; calls on the
output are not. `StopEndsThread` says that the thread ends unless the streaming server
keeps a call waiting or the process dies (see the findings). `reorder` has one receiver
alone, whose number nobody else can have, and assumes that closing it ends `recvfrom`.

`local_server` assumes that the SIP thread runs: `eXosip_event_wait` gives up after
4 ms and nothing else waits. `StopEndsOnlySipThread` says that this is enough to
end the thread and not to let `stop` return. `http` assumes that client and server
go on polling, that the network brings a connection, a reply or an error, and
nothing of browsers. `SendReqReturns` is about urls with a handler; for another url
it fails as soon as the server stays alive; `ReplyIsOwn` says that such a request is
never answered.

Findings. `sessions_listed`: `local_server.h` calls `m_cameraList` the list of
the cameras being played, and a start for a listed camera is answered "the
camera is playing". An INVITE that failed, was refused or was hung up leaves its
entry in the list. `transcoder_stop`: `ffmpeg_to_web.h` says of `stop` "exit
thread"; before the input is open, a stop leads `ffmpegClose` to a context that
`avformat_open_input` has set to NULL, and the process dies. `http_client`:
`http_client.cpp` says that a request is sent and handled by the callback, and the
flag reset each time; the flag is never reset, and every call but the first comes
back at once.

## Theorems

Assumptions: the constants' `ASSUME`s only. The bounds `MaxStarts`, `MaxArrivals`,
`LastRound`, `MaxEvents`, `MaxCommands`, `MaxMessages`, `MaxInserts` and
`MaxPlatforms` are arbitrary natural numbers, so the theorems hold without them.

- `CameraSessionsProofs`. The inductive invariant `IInv` adds to the properties
  what they rest on: nothing refers to an INVITE not yet made (`Numbered`), what
  the HTTP thread found out at the beginning of a request holds until it acts
  on it, since no other thread changes the list (`PushPlan`, `StopPlan`), and
  call ids are recorded before media starts and belong to the entry's camera
  (`CallIds`). From it follow `OneEntryPerCamera`, `MediaHasItsCall`,
  `NoRunawayTranscoder`, `ReplyIsTrue` and the action property
  `StopEndsOwnCall`. `OneEntryPerCamera` is not checked by a run of its own: only the HTTP
  thread changes the list, and `RequestsAreAtomic`, which needs it, is. With `Asked`,
  that a request in hand names a camera, each step maps to a step of `LiveCameras` or a stutter (`RequestsAreAtomic`).
- `CameraSessionsRaceProofs`. `NoOrphanCall`, `NoRunawayReceiver`,
  `MediaStartedOnce` and `CrashCause` relate the history variables to both threads. `RInv` adds to
  `IInv` that an answer is taken and recorded once (`AnswerOnce`), that of two
  entries for one camera the older is gone and the walk never stands before the
  call's own entry (`OldGone`), and, for a camera none of whose stops found
  `m_pCallInfo` invalid, that entries hold their own calls (`OwnId`), media is
  started once (`StartOnce`), a stop finds it started and stays in force
  (`Closed`), and a call that is up is recorded or missed (`Acknowledged`). The
  step that needs them all is `SipRecord` (`RecordsOwnEntry`). Four more theorems
  rest on `RInv`: `StopIsFinal`, `AnswerIsKept` and `WalkEnds`, for which see below,
  and `ObjectsAreUsedOnce`: no entry is stopped twice, and the `run` of a camera that
  was not stopped too early is called once, which is what `RtpSocket` assumes of its
  callers and, for `stop`, `FfmpegToWeb`.
- `FfmpegToWebProofs`. `FInv` says what the two pointers lead to at every point
  of the thread (`InputPlan`, `OutputPlan`), that `context` is NULL past the
  opening of the input only after a stop that came before (`StopKnown`), and
  what each loss follows from (`LostPlan`). `StopIsFinal` counts the steps left.
- `RtpReorderProofs`. `BoundInv`: a full queue always has a packet with number
  `minSN`, within reach of the loop; hence `BoundedQueue`. `LoopInv`: `maxSN` is
  an upper bound of the queue; hence `OnlyDuplicatesLeftBehind` and
  `StallIsForMissing`. `OnceInv`: ranks identify packets; hence
  `EachPacketOnce`. Each turn of the forwarding loop is its last or takes a packet from
  the queue (`LoopGivesUp`), so that with `BoundedQueue` the receiver is never away
  from the network for more than `MaxQueueSize` turns and a last one. For `RtpStream`,
  `StreamInv`: what is out lies below `minSN`, what is queued
  does not. `PositionInv` carries that over to positions in the stream: what is
  queued belongs to the current round, what is out is below it. Hence each step of
  the receiver is a step of `OrderedOutput` or a stutter, also one that begins a
  round.
- `RtpSocketProofs`. `IInv`: a socket that is open is the one in `run`'s variable
  (`Owned`), and in the field once that is set (`Fields`); a `run` that gave up
  leaves only its first socket and no threads (`GaveUp`); `stop` has closed what it
  found set (`Closes`); a thread waits at open sockets only (`Waits`); one that has
  read a stray datagram does not call `recvfrom` again (`Strays`). From it follow
  `StrayUse`, `LeakCause` and `OnlyStraysWait`. `ToldIsFinal` needs that `stop` comes
  after the beginning of `run` (`Begun`), as `run` takes an order to end back when it
  resets the flag.
- `LocalServerProofs`. `ContextPlan` says what `eCtx` may point to at each point of
  the SIP thread and of `stop`, for `CrashCause`; `RegistrationPlan` says for the
  loop in progress which platforms the event has reached, for
  `RegistrationIsReal`; `FarewellPlan` says what the destructor has passed;
  `NumberPlan` ties `m_SN` to the number of turns modulo the width of an int, for
  `CommandNumbersDiffer`. `CodesAreUnderstood` is arithmetic on the seven commands.
- `HttpProofs`. A `SendReq` in progress is one of `main`'s (`Call`), which `TypeOK`
  needs for the url it asks for. `SessionsAreOpen` is inductive beside it: a step is
  a handshake, a close, the end of the process, or leaves the kinds of all
  connections alone (`SessionSteps`). `WaitInv` follows `s_exit_flag` through the
  calls: only the first one waits, and comes back with an event of its own
  (`OnlyFirstCallWaits`). `ReplyInv` says what is on the connection of a `SendReq`, so
  that the reply it may get is its own (`ReplyIsOwn`).
- `XmlConfigProofs`. `CInv` says what elements a file can have and that its platforms are
  those given (`FileShape`), that the shipped one keeps what the reads need whatever is
  inserted (`ShippedPlan`), and that what was read of the server is the shipped text
  (`LocalPlan`). From it follow `FaultCause` and `ReadBack`. A file's `Blank` and `Long` are assumed to differ:
  an empty number is not one of ten digits.

Only model-checked: the six liveness properties (`AnswerIsAcknowledged`,
`StopEndsMedia`, `StopEndsThread`, `StopIsHeeded`, `StopEndsOnlySipThread`,
`SendReqReturns`). Fairness and `ENABLED` are out of the prover's reach. What is proved
is their safety half, an action property that counts what is left to do: every step
that is taken leads nearer to the end, nothing leads back, and nothing gets lost on the
way. What only TLC shows is that the steps are taken.

| Liveness | Proved of it |
|---|---|
| `AnswerIsAcknowledged` | `AnswerIsKept`: an answer waits in the queue, once, until its call is acknowledged; `WalkEnds`: each step of the SIP thread, through a list that changes, leads to the next answer |
| `StopEndsMedia` | `CameraSessionsRaceProofs`' `StopIsFinal`: the media of a well-timed camera that was stopped is told to end, is not started again, and gets less with every step that concerns it (`MediaWaits` adds no step that changes it) |
| `StopEndsThread` | `FfmpegToWebProofs`' `StopIsFinal`: after a stop the thread has eleven steps left at most |
| `StopIsHeeded` | `RtpReorderProofs`' `StopIsFinal`: two steps at most, none of which takes in or forwards a packet; `RtpSocketProofs`' `ToldIsFinal`: four, once `run` is past its reset of the flag |
| `StopEndsOnlySipThread` | `LocalServerProofs`' `StopIsFinal`: one more event at most, and `stop` does not return |
| `SendReqReturns` | `ReplyIsOwn`, `OnlyFirstCallWaits` |

## Not modelled

- Vendored and external code (see the inventory), but for what the code relies on:
  it makes up most of the repository's lines.
- Functions without a caller that keep no state: `is_exist_device_in_catalog`,
  `handle_get_catalog` (registered for no url; it would do to `m_SN` and
  `xmlCatalog` what a PTZ request does), `sendQueryCatalog`, `sendPlayBack`,
  `buildQueryCmdXml`. `HttpServer::RemoveHandler`, `BroadcastWebsocketMsg` and
  `Close` have no caller either, and `mg_mgr_free` while the server's thread polls
  has no defined effect to model.
- Saving the video or pictures (`m_bSaveVideo`, `m_bSaveJPEG`): nothing turns it on.
- Formatting: JSON, SDP, XML text, the bytes of the RTCP reply, paths, logging; and
  the buffer of 1024 bytes a websocket frame is copied to, since frames are here of
  one size.
- All components in one specification. They share `eCtx`, the two lists and the two
  threads; `CameraSessions`, `LocalServer` and `HttpServer` each take the others'
  steps as their environment's, because the product of their states is out of
  TLC's reach.
