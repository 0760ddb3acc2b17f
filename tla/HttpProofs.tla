----------------------------- MODULE HttpProofs -----------------------------
(***************************************************************************)
(* The types of HttpClient and HttpServer, and that the sessions are the   *)
(* connections that are open websockets, for any number of connections,    *)
(* calls and browsers' messages. Types need one fact more than TypeOK: a   *)
(* SendReq that is running is one of main's calls. For the sessions a step *)
(* is looked at for what it does to the kinds of the connections.          *)
(***************************************************************************)
EXTENDS HttpClient, SequenceTheorems, TLAPS

Call == at # "main" => call \in 1 .. Calls

IInv == TypeOK /\ Call

-----------------------------------------------------------------------------
(* Connections.                                                            *)

Conn == Connection(Seq(Message), Seq(Message \union {"connected"}))

LEMMA FreeType == Free \in Conn
  <1>1. 0 \in Peers  BY HttpServerAssumption
  <1>2. <<>> \in Seq(Message) /\ <<>> \in Seq(Message \union {"connected"})  BY EmptySeq
  <1> QED  BY <1>1, <1>2 DEF Conn, Connection, Free

\* A connection keeps its type when one is replaced by another.
LEMMA SetConn ==
  ASSUME conn \in [Slots -> Conn], NEW s, NEW c \in Conn
  PROVE  [conn EXCEPT ![s] = c] \in [Slots -> Conn]
  OBVIOUS

LEMMA AnsweredType ==
  ASSUME NEW s \in Slots, conn \in [Slots -> Conn], conn[s].in # <<>>,
         NEW r \in Seq(Message \union {"connected"})
  PROVE  Answered(s, r) \in Conn
  <1>0. conn[s] \in Conn  OBVIOUS
  <1>1. /\ conn[s].in \in Seq(Message) /\ conn[s].out \in Seq(Message \union {"connected"})
        /\ conn[s].kind \in {"free", "http", "websocket"} /\ conn[s].peer \in Peers /\ conn[s].gone \in BOOLEAN
    BY <1>0 DEF Conn, Connection
  <1>2. Tail(conn[s].in) \in Seq(Message)  BY <1>1, HeadTailProperties
  <1>3. conn[s].out \o r \in Seq(Message \union {"connected"})  BY <1>1, ConcatProperties
  <1>4. Answered(s, r) = [conn[s] EXCEPT !.in = Tail(conn[s].in), !.out = conn[s].out \o r]
    BY DEF Answered
  <1> QED  BY <1>0, <1>2, <1>3, <1>4 DEF Conn, Connection

LEMMA AnsweredKind == ASSUME NEW s, NEW r, conn[s] \in Conn PROVE Answered(s, r).kind = conn[s].kind
  BY DEF Answered, Conn, Connection

LEMMA AcceptType ==
  ASSUME conn \in [Slots -> Conn], NEW s \in Slots, NEW p \in Peers, NEW m \in Message, Accept(s, p, m)
  PROVE  conn' \in [Slots -> Conn]
  <1>1. <<m>> \in Seq(Message)  OBVIOUS
  <1>2. [Free EXCEPT !.kind = "http", !.peer = p, !.in = <<m>>] \in Conn
    BY <1>1, FreeType DEF Conn, Connection, Free
  <1> QED  BY <1>2, SetConn DEF Accept

-----------------------------------------------------------------------------
(* What the server's part of a step does to its state.                     *)

ServerType ==
  /\ phase \in {"main", "serve", "dead"} /\ s_handler_map \subseteq Handled
  /\ conn \in [Slots -> Conn] /\ s_websocket_session_set \subseteq Slots

LEMMA Server == ASSUME ServerType, ServerStep PROVE ServerType'
  <1>0. conn \in [Slots -> Conn]  BY DEF ServerType
  <1>1. CASE \E u \in Handled : AddHandler(u)  BY <1>1 DEF ServerType, AddHandler
  <1>2. CASE Start  BY <1>2 DEF ServerType, Start
  <1>3. CASE Die
    <2>1. conn' \in [Slots -> Conn]  BY <1>3, FreeType DEF Die
    <2> QED  BY <1>3, <2>1 DEF Die, ServerType
  <1>4. ASSUME NEW s \in Slots, HandleHttpEvent(s) PROVE ServerType'
    <2>1. PICK u \in Urls : /\ Reads(s, u, "http")
                            /\ conn' = [conn EXCEPT ![s] = Answered(s, IF u \in s_handler_map THEN <<u>> ELSE <<>>)]
                            /\ UNCHANGED <<phase, s_handler_map, s_websocket_session_set>>
      BY <1>4 DEF HandleHttpEvent
    <2> DEFINE r == IF u \in s_handler_map THEN <<u>> ELSE <<>>
    <2>2. r \in Seq(Message \union {"connected"})
      <3>1. u \in Message \union {"connected"}  BY DEF Message
      <3>2. <<u>> \in Seq(Message \union {"connected"}) /\ <<>> \in Seq(Message \union {"connected"})  BY <3>1
      <3> QED  BY <3>2
    <2>3. conn[s].in # <<>>  BY <2>1 DEF Reads
    <2>4. Answered(s, r) \in Conn  BY <1>0, <2>2, <2>3, AnsweredType
    <2>5. conn' \in [Slots -> Conn]  BY <1>0, <2>1, <2>4, SetConn
    <2> QED  BY <2>1, <2>5 DEF ServerType
  <1>5. ASSUME NEW s \in Slots, HandshakeDone(s) PROVE ServerType'
    <2> DEFINE a == Answered(s, <<"connected">>)
    <2>1. a \in Conn
      BY <1>0, <1>5, AnsweredType, <<"connected">> \in Seq(Message \union {"connected"}) DEF HandshakeDone, Reads
    <2> HIDE DEF a
    <2>2. [a EXCEPT !.kind = "websocket"] \in Conn  BY <2>1 DEF Conn, Connection
    <2>3. conn' = [conn EXCEPT ![s] = [a EXCEPT !.kind = "websocket"]]  BY <1>5 DEF HandshakeDone, a
    <2>4. conn' \in [Slots -> Conn]  BY <1>0, <2>2, <2>3, SetConn
    <2> QED  BY <1>5, <2>4 DEF HandshakeDone, ServerType
  <1>6. ASSUME NEW s \in Slots, Frame(s) PROVE ServerType'
    <2>1. <<"frame">> \in Seq(Message \union {"connected"})  BY DEF Message
    <2>2. Answered(s, <<"frame">>) \in Conn  BY <1>0, <1>6, <2>1, AnsweredType DEF Frame, Reads
    <2>3. conn' \in [Slots -> Conn]  BY <1>0, <1>6, <2>2, SetConn DEF Frame
    <2> QED  BY <1>6, <2>3 DEF Frame, ServerType
  <1>7. ASSUME NEW s \in Slots, Close(s) PROVE ServerType'
    <2>1. conn' \in [Slots -> Conn]  BY <1>0, <1>7, FreeType, SetConn DEF Close
    <2> QED  BY <1>7, <2>1 DEF Close, ServerType
  <1> QED  BY <1>1, <1>2, <1>3, <1>4, <1>5, <1>6, <1>7 DEF ServerStep, Poll

-----------------------------------------------------------------------------
(* Types.                                                                  *)

ClientType ==
  /\ url \in [1 .. Calls -> Urls] /\ call \in 0 .. Calls
  /\ at \in {"main", "poll", "free"} /\ link \in Slots \union {"none", "connecting", "closed"}
  /\ s_exit_flag \in {0, 1} /\ caused \in BOOLEAN
  /\ Call

LEMMA Parts == IInv <=> ServerType /\ ClientType /\ sent \in 0 .. MaxMessages
  BY DEF IInv, TypeOK, ServerType, ClientType, Conn

LEMMA SentNext == ASSUME sent \in 0 .. MaxMessages, [Next]_vars PROVE sent' \in 0 .. MaxMessages
  BY HttpClientAssumption
  DEF Next, vars, SendReq, Progress, Leave, Connect, ConnectFails, Reply, Closed, Exits, Free_mgr,
      Browse, Visit, Ask, HangUp, Ended

LEMMA ClientNext == ASSUME ClientType, [Next]_vars PROVE ClientType'
  <1>1. call \in 0 .. Calls /\ at \in {"main", "poll", "free"} /\ Call  BY DEF ClientType
  <1>2. url' = url
    BY DEF Next, vars, clientVars, SendReq, Progress, Leave, Connect, ConnectFails, Reply,
           Closed, Exits, Free_mgr, Browse, Visit, Ask, HangUp, Ended
  <1>3. call' \in 0 .. Calls /\ at' \in {"main", "poll", "free"} /\ Call'
    BY <1>1, HttpClientAssumption
    DEF Call, Next, vars, clientVars, SendReq, Progress, Leave, Connect, ConnectFails, Reply,
        Closed, Exits, Polls, Free_mgr, Browse, Visit, Ask, HangUp, Ended
  <1>4. link' = link \/ link' \in Slots \/ link' \in {"none", "connecting", "closed"}
    BY DEF Next, vars, clientVars, SendReq, Progress, Leave, Connect, ConnectFails, Reply,
           Closed, Exits, Free_mgr, Browse, Visit, Ask, HangUp, Ended
  <1>5. s_exit_flag' = s_exit_flag \/ s_exit_flag' = 1
    BY DEF Next, vars, clientVars, SendReq, Progress, Leave, Connect, ConnectFails, Reply,
           Closed, Exits, Free_mgr, Browse, Visit, Ask, HangUp, Ended
  <1>6. caused' = caused \/ caused' = TRUE \/ caused' = FALSE
    BY Zenon DEF Next, vars, clientVars, SendReq, Progress, Leave, Connect, ConnectFails, Reply,
           Closed, Exits, Free_mgr, Browse, Visit, Ask, HangUp, Ended
  <1>7. caused' \in BOOLEAN  BY <1>6, Zenon DEF ClientType
  <1>8. link' \in Slots \union {"none", "connecting", "closed"}  BY <1>4 DEF ClientType
  <1>9. s_exit_flag' \in {0, 1}  BY <1>5 DEF ClientType
  <1>10. url' \in [1 .. Calls -> Urls]  BY <1>2 DEF ClientType
  <1> QED  BY <1>3, <1>7, <1>8, <1>9, <1>10 DEF ClientType

LEMMA ServerNext == ASSUME IInv, [Next]_vars PROVE ServerType'
  <1>0. ServerType /\ ClientType  BY Parts
  <1>1. conn \in [Slots -> Conn]  BY <1>0 DEF ServerType
  <1>2. CASE ServerStep  BY <1>0, <1>2, Server
  <1>3. CASE UNCHANGED serverVars  BY <1>0, <1>3 DEF ServerType, serverVars
  <1>4. ASSUME NEW s \in Slots, Connect(s) PROVE ServerType'
    <2>1. call \in 1 .. Calls  BY <1>0, <1>4 DEF ClientType, Call, Connect, Polls
    <2>2. url[call] \in Message /\ call \in Peers
      BY <1>0, <2>1, HttpClientAssumption DEF ClientType, Message
    <2>3. conn' \in [Slots -> Conn]  BY <1>1, <1>4, <2>2, AcceptType DEF Connect
    <2> QED  BY <1>0, <1>4, <2>3 DEF Connect, Accept, ServerType
  <1>5. CASE Reply
    <2>0. link \in Slots /\ conn[link].out # <<>>  BY <1>5 DEF Reply
    <2>1. conn[link] \in Conn  BY <1>1, <2>0
    <2>2. conn[link].out \in Seq(Message \union {"connected"})  BY <2>1 DEF Conn, Connection
    <2>3. Tail(conn[link].out) \in Seq(Message \union {"connected"})  BY <2>0, <2>2, HeadTailProperties
    <2>4. [conn[link] EXCEPT !.out = Tail(conn[link].out), !.gone = TRUE] \in Conn
      BY <2>1, <2>3 DEF Conn, Connection
    <2>5. conn' = [conn EXCEPT ![link] = [conn[link] EXCEPT !.out = Tail(conn[link].out), !.gone = TRUE]]
      BY <1>1, <1>5, <2>0, <2>1 DEF Reply, Conn, Connection
    <2>6. conn' \in [Slots -> Conn]  BY <1>1, <2>4, <2>5, SetConn
    <2> QED  BY <1>0, <1>5, <2>6 DEF Reply, ServerType
  <1>6. CASE Free_mgr
    <2>1. CASE conn' = conn  BY <1>0, <1>6, <2>1 DEF Free_mgr, ServerType
    <2>2. CASE link \in Slots /\ conn' = [conn EXCEPT ![link].gone = TRUE]
      <3>1. conn[link] \in Conn  BY <1>1, <2>2
      <3>2. [conn[link] EXCEPT !.gone = TRUE] \in Conn  BY <3>1 DEF Conn, Connection
      <3>3. conn' \in [Slots -> Conn]  BY <1>1, <2>2, <3>2
      <3> QED  BY <1>0, <1>6, <3>3 DEF Free_mgr, ServerType
    <2> QED  BY <1>6, <2>1, <2>2 DEF Free_mgr
  <1>7. ASSUME NEW s \in Slots, NEW m \in Message \ {"frame"}, Visit(s, m) PROVE ServerType'
    <2>1. conn' \in [Slots -> Conn]  BY <1>1, <1>7, HttpServerAssumption, AcceptType DEF Visit
    <2> QED  BY <1>0, <1>7, <2>1 DEF Visit, Accept, ServerType
  <1>8. ASSUME NEW s \in Slots, NEW m \in Message, Ask(s, m) PROVE ServerType'
    <2>1. conn[s] \in Conn  BY <1>1
    <2>2. conn[s].in \in Seq(Message)  BY <2>1 DEF Conn, Connection
    <2>3. Append(conn[s].in, m) \in Seq(Message)  BY <2>2, AppendProperties
    <2>4. [conn[s] EXCEPT !.in = Append(conn[s].in, m)] \in Conn  BY <2>1, <2>3 DEF Conn, Connection
    <2>5. conn' = [conn EXCEPT ![s] = [conn[s] EXCEPT !.in = Append(conn[s].in, m)]]
      BY <1>1, <1>8, <2>1 DEF Ask, Conn, Connection
    <2>6. conn' \in [Slots -> Conn]  BY <1>1, <2>4, <2>5, SetConn
    <2> QED  BY <1>0, <1>8, <2>6 DEF Ask, ServerType
  <1>9. ASSUME NEW s \in Slots, HangUp(s) PROVE ServerType'
    <2>1. conn[s] \in Conn  BY <1>1
    <2>2. [conn[s] EXCEPT !.gone = TRUE] \in Conn  BY <2>1 DEF Conn, Connection
    <2>3. conn' \in [Slots -> Conn]  BY <1>1, <1>9, <2>2 DEF HangUp
    <2> QED  BY <1>0, <1>9, <2>3 DEF HangUp, ServerType
  <1>10. \/ ServerStep \/ UNCHANGED serverVars \/ (\E s \in Slots : Connect(s)) \/ Reply \/ Free_mgr
         \/ \E s \in Slots : Browse(s)
    BY DEF Next, vars, SendReq, Progress, Leave, ConnectFails, Closed, Ended
  <1> QED  BY <1>2, <1>3, <1>4, <1>5, <1>6, <1>7, <1>8, <1>9, <1>10 DEF Browse

LEMMA IInvInit == Init => IInv
  <1> SUFFICES ASSUME Init PROVE IInv  OBVIOUS
  <1>1. conn \in [Slots -> Conn]  BY FreeType DEF Init, ServerInit
  <1>2. ServerType  BY <1>1 DEF Init, ServerInit, ServerType
  <1>3. ClientType
    <2>1. caused \in BOOLEAN  BY Zenon DEF Init
    <2>2. call \in 0 .. Calls  BY HttpClientAssumption DEF Init
    <2> QED  BY <2>1, <2>2 DEF Init, ClientType, Call
  <1>4. sent \in 0 .. MaxMessages  BY HttpClientAssumption DEF Init
  <1> QED  BY <1>2, <1>3, <1>4, Parts

LEMMA IInvNext == IInv /\ [Next]_vars => IInv'
  <1> SUFFICES ASSUME IInv, [Next]_vars PROVE IInv'  OBVIOUS
  <1>1. ServerType'  BY ServerNext
  <1>2. ClientType'  BY ClientNext, Parts
  <1>3. sent' \in 0 .. MaxMessages  BY SentNext, Parts
  <1> QED  BY <1>1, <1>2, <1>3 DEF IInv, TypeOK, ServerType, ClientType, Conn

\* The types of the server's and the client's state, whatever browsers, network
\* and handlers do (http_server.cpp, http_client.cpp).
THEOREM TypeCorrect == Spec => []TypeOK
  <1>1. Spec => []IInv  BY IInvInit, IInvNext, PTL DEF Spec
  <1>2. IInv => TypeOK  BY DEF IInv
  <1> QED  BY <1>1, <1>2, PTL

-----------------------------------------------------------------------------
(* Sessions.                                                               *)

\* A step that is neither a handshake, nor a close, nor the end of the process
\* turns no connection into a websocket and none into something else.
Kinds ==
  /\ s_websocket_session_set' = s_websocket_session_set
  /\ \A t \in Slots : conn'[t].kind = "websocket" <=> conn[t].kind = "websocket"

\* It changes one connection, which is a websocket before and after or is none.
LEMMA KindsOfOne ==
  ASSUME conn \in [Slots -> Conn], NEW s, NEW c, conn' = [conn EXCEPT ![s] = c],
         s \in Slots => (c.kind = "websocket" <=> conn[s].kind = "websocket"),
         s_websocket_session_set' = s_websocket_session_set
  PROVE  Kinds
  BY DEF Kinds

LEMMA SessionSteps ==
  ASSUME IInv, [Next]_vars
  PROVE  Kinds \/ Die \/ \E s \in Slots : HandshakeDone(s) \/ Close(s)
  <1>0. conn \in [Slots -> Conn]  BY Parts DEF ServerType
  <1>1. CASE conn' = conn /\ s_websocket_session_set' = s_websocket_session_set  BY <1>1 DEF Kinds
  <1>2. ASSUME NEW s \in Slots, NEW p, NEW m, Accept(s, p, m) PROVE Kinds
    <2> DEFINE c == [Free EXCEPT !.kind = "http", !.peer = p, !.in = <<m>>]
    <2>1. c.kind = "http"  BY DEF Free
    <2>2. conn' = [conn EXCEPT ![s] = c] /\ conn[s].kind = "free"
          /\ s_websocket_session_set' = s_websocket_session_set
      BY <1>2 DEF Accept
    <2> HIDE DEF c
    <2> QED  BY <1>0, <2>1, <2>2, KindsOfOne
  <1>3. ASSUME NEW s \in Slots, HandleHttpEvent(s) \/ Frame(s) PROVE Kinds
    <2>1. PICK r : conn' = [conn EXCEPT ![s] = Answered(s, r)] /\ s_websocket_session_set' = s_websocket_session_set
      BY <1>3 DEF HandleHttpEvent, Frame
    <2>2. Answered(s, r).kind = conn[s].kind  BY <1>0, AnsweredKind
    <2> QED  BY <1>0, <2>1, <2>2, KindsOfOne
  <1>4. CASE Reply
    <2>1. conn[link] \in Conn  BY <1>0, <1>4 DEF Reply
    <2>2. \E c : conn' = [conn EXCEPT ![link] = c] /\ c.kind = conn[link].kind
      <3> WITNESS [conn[link] EXCEPT !.out = Tail(conn[link].out), !.gone = TRUE]
      <3> QED  BY <1>0, <1>4, <2>1 DEF Reply, Conn, Connection
    <2> QED  BY <1>0, <1>4, <2>2, KindsOfOne DEF Reply
  <1>5. ASSUME NEW s \in Slots, conn' = [conn EXCEPT ![s].gone = TRUE],
               s_websocket_session_set' = s_websocket_session_set
        PROVE  Kinds
    <2>1. [conn[s] EXCEPT !.gone = TRUE].kind = conn[s].kind  BY <1>0 DEF Conn, Connection
    <2> QED  BY <1>0, <1>5, <2>1, KindsOfOne
  <1>6. ASSUME NEW s \in Slots, NEW m, Ask(s, m) PROVE Kinds
    <2>1. conn[s] \in Conn  BY <1>0
    <2>2. \E c : conn' = [conn EXCEPT ![s] = c] /\ c.kind = conn[s].kind
      <3> WITNESS [conn[s] EXCEPT !.in = Append(conn[s].in, m)]
      <3> QED  BY <1>0, <1>6, <2>1 DEF Ask, Conn, Connection
    <2> QED  BY <1>0, <1>6, <2>2, KindsOfOne DEF Ask
  <1>7. \/ conn' = conn /\ s_websocket_session_set' = s_websocket_session_set
        \/ Die \/ Reply
        \/ \E s \in Slots :
             \/ HandshakeDone(s) \/ Close(s) \/ HandleHttpEvent(s) \/ Frame(s)
             \/ \E p, m : Accept(s, p, m)
             \/ conn' = [conn EXCEPT ![s].gone = TRUE] /\ s_websocket_session_set' = s_websocket_session_set
             \/ \E m : Ask(s, m)
    BY DEF Next, vars, serverVars, ServerStep, Poll, AddHandler, Start, SendReq, Progress, Leave, Connect,
           ConnectFails, Closed, Free_mgr, Browse, Visit, HangUp, Ended
  <1> QED  BY <1>1, <1>2, <1>3, <1>4, <1>5, <1>6, <1>7

LEMMA SessionsNext == ASSUME SessionsAreOpen, IInv, [Next]_vars PROVE SessionsAreOpen'
  <1>0. conn \in [Slots -> Conn]  BY Parts DEF ServerType
  <1>1. CASE Kinds  BY <1>1 DEF Kinds, SessionsAreOpen
  <1>2. CASE Die  BY <1>2 DEF Die, Free, SessionsAreOpen
  <1>3. ASSUME NEW s \in Slots, HandshakeDone(s) PROVE SessionsAreOpen'
    <2> DEFINE a == Answered(s, <<"connected">>)
    <2>1. a \in Conn
      BY <1>0, <1>3, AnsweredType, <<"connected">> \in Seq(Message \union {"connected"}) DEF HandshakeDone, Reads
    <2> HIDE DEF a
    <2>2. [a EXCEPT !.kind = "websocket"].kind = "websocket"  BY <2>1 DEF Conn, Connection
    <2>3. conn' = [conn EXCEPT ![s] = [a EXCEPT !.kind = "websocket"]]  BY <1>3 DEF HandshakeDone, a
    <2>4. \A t \in Slots : conn'[t].kind = "websocket" <=> (t = s \/ conn[t].kind = "websocket")
      BY <1>0, <2>2, <2>3
    <2> QED  BY <1>3, <2>4 DEF HandshakeDone, SessionsAreOpen
  <1>4. ASSUME NEW s \in Slots, Close(s) PROVE SessionsAreOpen'
    <2>1. \A t \in Slots : conn'[t].kind = "websocket" <=> (t # s /\ conn[t].kind = "websocket")
      BY <1>0, <1>4 DEF Close, Free
    <2> QED  BY <1>4, <2>1 DEF Close, SessionsAreOpen
  <1> QED  BY <1>1, <1>2, <1>3, <1>4, SessionSteps

\* The addresses in s_websocket_session_set are those of the open websockets
\* (http_server.cpp 178 and 205), though addresses are used again.
THEOREM SessionsAreOpenCorrect == Spec => []SessionsAreOpen
  <1>1. Spec => []IInv  BY IInvInit, IInvNext, PTL DEF Spec
  <1>2. Init => SessionsAreOpen  BY DEF Init, ServerInit, Free, SessionsAreOpen
  <1>3. SessionsAreOpen /\ IInv /\ [Next]_vars => SessionsAreOpen'  BY SessionsNext
  <1> QED  BY <1>1, <1>2, <1>3, PTL DEF Spec
-----------------------------------------------------------------------------
(* Answers.                                                                *)

\* EveryCallIsAnswered holds of the first call, and this is why of no other: once
\* it is over s_exit_flag is set, and a later SendReq does not wait.
OnlyFirstCallWaits ==
  /\ call = 1 /\ at = "main" => caused
  /\ call > 1 => s_exit_flag = 1

Waited ==
  /\ call = 0 => at = "main" /\ s_exit_flag = 0
  /\ call > 0 /\ at # "poll" => s_exit_flag = 1
  /\ call > 1 => s_exit_flag = 1

WaitInv == Waited /\ (call = 1 /\ s_exit_flag = 1 => caused)

\* Only SendReq begins a call and only Exits sets the flag, which nobody clears.
LEMMA FlagSteps ==
  ASSUME [Next]_vars
  PROVE  \/ SendReq
         \/ Leave
         \/ UNCHANGED call /\ at' = "main" /\ at = "free" /\ UNCHANGED <<s_exit_flag, caused>>
         \/ Polls /\ UNCHANGED <<call, at>> /\ s_exit_flag' = 1 /\ caused' = TRUE
         \/ UNCHANGED <<call, at, s_exit_flag, caused>>
  BY DEF Next, vars, clientVars, Progress, Connect, ConnectFails, Reply, Closed, Exits, Free_mgr,
         Browse, Visit, Ask, HangUp, Ended

LEMMA WaitNext == ASSUME IInv, WaitInv, [Next]_vars PROVE WaitInv'
  <1>0. call \in Nat /\ at \in {"main", "poll", "free"} /\ s_exit_flag \in {0, 1}
    BY HttpClientAssumption DEF IInv, TypeOK
  <1>1. CASE SendReq  BY <1>0, <1>1 DEF SendReq, WaitInv, Waited
  <1>2. CASE Leave  BY <1>0, <1>2 DEF Leave, WaitInv, Waited
  <1>3. CASE UNCHANGED call /\ at' = "main" /\ at = "free" /\ UNCHANGED <<s_exit_flag, caused>>
    BY <1>0, <1>3 DEF WaitInv, Waited
  <1>4. CASE Polls /\ UNCHANGED <<call, at>> /\ s_exit_flag' = 1 /\ caused' = TRUE
    BY <1>0, <1>4 DEF Polls, WaitInv, Waited
  <1>5. CASE UNCHANGED <<call, at, s_exit_flag, caused>>  BY <1>5 DEF WaitInv, Waited
  <1> QED  BY <1>1, <1>2, <1>3, <1>4, <1>5, FlagSteps

\* The first SendReq comes back with a reply, an error or a close, and every later
\* one whether it has any or not (http_client.cpp 8 to 64).
THEOREM OnlyFirstCallWaitsCorrect == Spec => []OnlyFirstCallWaits
  <1>1. Spec => []IInv  BY IInvInit, IInvNext, PTL DEF Spec
  <1>2. Init => WaitInv  BY DEF Init, WaitInv, Waited
  <1>3. WaitInv /\ IInv /\ [Next]_vars => WaitInv'  BY WaitNext
  <1>4. WaitInv => OnlyFirstCallWaits  BY DEF WaitInv, Waited, OnlyFirstCallWaits
  <1> QED  BY <1>1, <1>2, <1>3, <1>4, PTL DEF Spec

\* There are no connections before the server serves, and then it has its handlers.
ReplyInv ==
  /\ link \in Slots => at # "main" /\ phase # "main"
  /\ phase = "serve" => s_handler_map = Handled
  /\ ReplyIsOwn

LEMMA AnswerOfOne ==
  ASSUME NEW s, conn[s] \in Conn, NEW u, conn[s].in = <<u>>, conn[s].out = <<>>, NEW r \in Seq({u})
  PROVE  /\ Answered(s, r).kind = conn[s].kind /\ Answered(s, r).peer = conn[s].peer
         /\ Answered(s, r).gone = conn[s].gone
         /\ Answered(s, r).in = <<>> /\ Answered(s, r).out = r
  <1>1. Tail(<<u>>) = <<>>  OBVIOUS
  <1>2. <<>> \o r = r  OBVIOUS
  <1>3. Answered(s, r) = [conn[s] EXCEPT !.in = <<>>, !.out = r]  BY <1>1, <1>2 DEF Answered
  <1> QED  BY <1>3 DEF Conn, Connection

\* What a step does to the connection of a SendReq that is running.
Other == link' = link /\ conn'[link] = conn[link]

LEMMA LinkSteps ==
  ASSUME IInv, ReplyInv, [Next]_vars, link' \in Slots, phase' = "serve"
  PROVE  \/ link \in Slots /\ phase = "serve" /\ Other
         \/ link \in Slots /\ HandleHttpEvent(link) /\ link' = link
         \/ Connect(link')
  <1>0. conn \in [Slots -> Conn] /\ link \in Slots \union {"none", "connecting", "closed"}
    BY Parts DEF ServerType, ClientType
  <1>1. CASE UNCHANGED <<link, conn, phase>>  BY <1>1 DEF Other
  <1>2. ASSUME NEW s \in Slots, Connect(s) PROVE Connect(link')  BY <1>2 DEF Connect
  <1>3. link' \notin {"none", "connecting", "closed"}  BY HttpClientAssumption
  <1>4. ~ SendReq /\ ~ ConnectFails /\ ~ Reply /\ ~ Closed /\ ~ Free_mgr
    BY <1>3 DEF SendReq, ConnectFails, Reply, Closed, Free_mgr, Exits
  <1>5. ASSUME NEW s \in Slots, NEW c, conn' = [conn EXCEPT ![s] = c], UNCHANGED <<link, phase>>, s # link
        PROVE  link \in Slots /\ phase = "serve" /\ Other
    BY <1>0, <1>5 DEF Other
  <1>6. ASSUME UNCHANGED <<link, phase>>
        PROVE  /\ link \in Slots /\ phase = "serve" /\ conn[link].kind = "http" /\ ~ conn[link].gone
               /\ call \in 1 .. Calls /\ conn[link].peer = call
               /\ conn[link].in = <<>> \/ conn[link].in = <<url[call]>>
    BY <1>6, Parts DEF ReplyInv, ReplyIsOwn, ClientType, Call
  <1>7. ASSUME UNCHANGED clientVars, ServerStep
        PROVE  \/ link \in Slots /\ phase = "serve" /\ Other
               \/ link \in Slots /\ HandleHttpEvent(link) /\ link' = link
    <2>1. CASE \E u \in Handled : AddHandler(u)  BY <1>1, <1>7, <2>1 DEF AddHandler, clientVars, ReplyInv
    <2>2. CASE Start  BY <1>7, <2>2 DEF Start, clientVars, ReplyInv
    <2>3. CASE Die  BY <2>3 DEF Die
    <2>4. ASSUME NEW s \in Slots, HandleHttpEvent(s)
          PROVE  \/ link \in Slots /\ phase = "serve" /\ Other
                 \/ link \in Slots /\ HandleHttpEvent(link) /\ link' = link
      <3>1. \E c : conn' = [conn EXCEPT ![s] = c]  BY <2>4 DEF HandleHttpEvent
      <3>2. UNCHANGED <<link, phase>>  BY <1>7, <2>4 DEF HandleHttpEvent, clientVars
      <3> QED  BY <1>5, <2>4, <3>1, <3>2
    <2>5. ASSUME NEW s \in Slots, HandshakeDone(s) PROVE link \in Slots /\ phase = "serve" /\ Other
      <3>1. UNCHANGED <<link, phase>>  BY <1>7, <2>5 DEF HandshakeDone, clientVars
      <3>2. conn[s].in # <<>> /\ "upgrade" = Head(conn[s].in)  BY <2>5 DEF HandshakeDone, Reads
      <3>3. s # link
        <4>1. url[call] \in Urls  BY <1>6, <3>1, Parts DEF ClientType
        <4> QED  BY <1>6, <3>1, <3>2, <4>1, HttpServerAssumption
      <3>4. \E c : conn' = [conn EXCEPT ![s] = c]  BY <2>5 DEF HandshakeDone
      <3> QED  BY <1>5, <3>1, <3>3, <3>4
    <2>6. ASSUME NEW s \in Slots, Frame(s) \/ Close(s) PROVE link \in Slots /\ phase = "serve" /\ Other
      <3>1. UNCHANGED <<link, phase>>  BY <1>7, <2>6 DEF Frame, Close, clientVars
      <3>2. conn[s].kind = "websocket" \/ conn[s].gone  BY <2>6 DEF Frame, Close, Reads
      <3>3. \E c : conn' = [conn EXCEPT ![s] = c]  BY <2>6 DEF Frame, Close
      <3> QED  BY <1>5, <1>6, <3>1, <3>2, <3>3
    <2> QED  BY <1>7, <2>1, <2>2, <2>3, <2>4, <2>5, <2>6 DEF ServerStep, Poll
  <1>8. ASSUME NEW s \in Slots, Browse(s) PROVE link \in Slots /\ phase = "serve" /\ Other
    <2>1. UNCHANGED <<link, phase>>  BY <1>8 DEF Browse, Visit, Accept, Ask, HangUp, clientVars
    <2>2. conn[s].kind = "free" \/ conn[s].peer = 0
      BY <1>8 DEF Browse, Visit, Accept, Ask, HangUp
    <2>3. s # link  BY <1>6, <2>1, <2>2
    <2>4. CASE \E m \in Message \ {"frame"} : Visit(s, m)
      <3>1. \E c : conn' = [conn EXCEPT ![s] = c]  BY <2>4 DEF Visit, Accept
      <3> QED  BY <1>5, <2>1, <2>3, <3>1
    <2>5. CASE ~ \E m \in Message \ {"frame"} : Visit(s, m)
      <3>1. conn'[link] = conn[link]
        BY <1>0, <1>6, <1>8, <2>1, <2>3, <2>5 DEF Browse, Ask, HangUp
      <3> QED  BY <1>6, <2>1, <3>1 DEF Other
    <2> QED  BY <2>4, <2>5
  <1>9. UNCHANGED <<link, conn, phase>> => link \in Slots /\ phase = "serve" /\ Other  BY DEF Other
  <1> QED
    BY <1>2, <1>4, <1>7, <1>8, <1>9
    DEF Next, Progress, Leave, Ended, vars, clientVars, serverVars

LEMMA ReplyIsOwnNext == ASSUME IInv, ReplyInv, [Next]_vars PROVE ReplyIsOwn'
  <1> SUFFICES ASSUME link' \in Slots, phase' = "serve" PROVE ReplyIsOwn'  BY DEF ReplyIsOwn
  <1>0. conn \in [Slots -> Conn]  BY Parts DEF ServerType
  <1>1. UNCHANGED <<url, call>> \/ SendReq
    BY DEF Next, vars, clientVars, Progress, Leave, Connect, ConnectFails, Reply, Closed, Exits, Free_mgr,
           Browse, Visit, Ask, HangUp, Ended
  <1>2. UNCHANGED <<url, call>>
    <2>1. ~ SendReq  BY HttpClientAssumption DEF SendReq
    <2> QED  BY <1>1, <2>1
  <1>3. CASE link \in Slots /\ phase = "serve" /\ Other
    BY <1>2, <1>3 DEF Other, ReplyInv, ReplyIsOwn
  <1>4. CASE link \in Slots /\ HandleHttpEvent(link) /\ link' = link
    <2>1. PICK u \in Urls :
            /\ Reads(link, u, "http")
            /\ conn' = [conn EXCEPT ![link] = Answered(link, IF u \in s_handler_map THEN <<u>> ELSE <<>>)]
      BY <1>4 DEF HandleHttpEvent
    <2>2. phase = "serve" /\ conn[link].in # <<>> /\ u = Head(conn[link].in)  BY <2>1 DEF Reads
    <2>3. /\ conn[link].kind = "http" /\ conn[link].peer = call /\ ~ conn[link].gone
          /\ conn[link].in = <<url[call]>> /\ conn[link].out = <<>> /\ s_handler_map = Handled
      BY <1>4, <2>2 DEF ReplyInv, ReplyIsOwn
    <2>4. u = url[call]  BY <2>2, <2>3
    <2> DEFINE r == IF url[call] \in Handled THEN <<url[call]>> ELSE <<>>
    <2>5. r \in Seq({url[call]})  OBVIOUS
    <2>6. conn'[link] = Answered(link, r)  BY <1>0, <1>4, <2>1, <2>3, <2>4
    <2>7. conn[link] \in Conn  BY <1>0, <1>4
    <2> HIDE DEF r
    <2>8. /\ conn'[link].kind = "http" /\ conn'[link].peer = call /\ ~ conn'[link].gone
          /\ conn'[link].in = <<>> /\ conn'[link].out = r
      BY <2>3, <2>5, <2>6, <2>7, AnswerOfOne
    <2> QED  BY <1>2, <1>4, <2>8 DEF ReplyIsOwn, r
  <1>5. CASE Connect(link')
    <2>1. conn' = [conn EXCEPT ![link'] = [Free EXCEPT !.kind = "http", !.peer = call, !.in = <<url[call]>>]]
      BY <1>5 DEF Connect, Accept
    <2>2. conn'[link'] = [Free EXCEPT !.kind = "http", !.peer = call, !.in = <<url[call]>>]  BY <1>0, <2>1
    <2> QED  BY <1>2, <2>2 DEF ReplyIsOwn, Free
  <1> QED  BY <1>3, <1>4, <1>5, LinkSteps

LEMMA ReplyNext == ASSUME IInv, ReplyInv, [Next]_vars PROVE ReplyInv'
  <1>1. ReplyIsOwn'  BY ReplyIsOwnNext
  <1>2. link' \in Slots => at' # "main" /\ phase' # "main"
    <2>1. phase' = phase \/ phase' # "main"
      BY DEF Next, vars, serverVars, ServerStep, AddHandler, Start, Die, Poll, HandleHttpEvent, HandshakeDone,
             Frame, Close, SendReq, Progress, Leave, Connect, Accept, ConnectFails, Reply, Closed, Exits,
             Free_mgr, Browse, Visit, Ask, HangUp, Ended
    <2>2. \/ link' = link /\ (at' = at \/ at' # "main")
          \/ link' \in {"none", "connecting", "closed"}
          \/ at # "main" /\ at' = at /\ phase = "serve"
      BY DEF Next, vars, clientVars, SendReq, Progress, Leave, Connect, Accept, ConnectFails, Reply, Closed,
             Exits, Polls, Free_mgr, Browse, Visit, Ask, HangUp, Ended
    <2> QED  BY <2>1, <2>2, HttpClientAssumption DEF ReplyInv
  <1>3. phase' = "serve" => s_handler_map' = Handled
    BY DEF ReplyInv, Next, vars, serverVars, ServerStep, AddHandler, Start, Die, Poll, HandleHttpEvent,
           HandshakeDone, Frame, Close, SendReq, Progress, Leave, Connect, Accept, ConnectFails, Reply, Closed,
           Exits, Free_mgr, Browse, Visit, Ask, HangUp, Ended
  <1> QED  BY <1>1, <1>2, <1>3 DEF ReplyInv

\* A SendReq has the reply to its own request and no other, though the server gives
\* the addresses of connections out again (http_server.cpp 107 to 122,
\* http_client.cpp 23 to 32).
THEOREM ReplyIsOwnCorrect == Spec => []ReplyIsOwn
  <1>1. Spec => []IInv  BY IInvInit, IInvNext, PTL DEF Spec
  <1>2. Init => ReplyInv
    BY HttpClientAssumption DEF Init, ServerInit, ReplyInv, ReplyIsOwn
  <1>3. ReplyInv /\ IInv /\ [Next]_vars => ReplyInv'  BY ReplyNext
  <1>4. ReplyInv => ReplyIsOwn  BY DEF ReplyInv
  <1> QED  BY <1>1, <1>2, <1>3, <1>4, PTL DEF Spec
=============================================================================
