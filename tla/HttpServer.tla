----------------------------- MODULE HttpServer -----------------------------
(***************************************************************************)
(* The HTTP server (HttpServer, and the main that starts it): one thread   *)
(* that polls mongoose, takes requests and websocket messages off the      *)
(* connections and answers them one at a time. CameraSessions and          *)
(* LocalServer have what the handlers do; here each answers once, with a   *)
(* reply named after its url, or brings the process down.                  *)
(*                                                                         *)
(* A connection is known by the address of its mg_connection, which serves *)
(* again for a new one when it is free: s_websocket_session_set holds such *)
(* addresses.                                                              *)
(***************************************************************************)
EXTENDS Naturals, Sequences

CONSTANTS
  Urls,     \* the urls that peers ask for
  Handled,  \* those with a handler
  Slots,    \* the addresses for connections
  Peers     \* who connects; 0 is a browser

ASSUME HttpServerAssumption == Handled \subseteq Urls /\ "upgrade" \notin Urls /\ 0 \in Peers

VARIABLES
  phase,         \* where main is: adding handlers, serving or dead
  s_handler_map,
  conn,          \* the connections
  s_websocket_session_set

serverVars == <<phase, s_handler_map, conn, s_websocket_session_set>>

\* A connection: whose it is, what has come and has not been read, what has been
\* answered and has not been received, and whether the peer has closed it.
Connection(messages, replies) ==
  [kind : {"free", "http", "websocket"}, peer : Peers, in : messages, out : replies, gone : BOOLEAN]

Free == [kind |-> "free", peer |-> 0, in |-> <<>>, out |-> <<>>, gone |-> FALSE]

ServerInit ==
  /\ phase = "main" /\ s_handler_map = {}
  /\ conn = [s \in Slots |-> Free]
  /\ s_websocket_session_set = {}

-----------------------------------------------------------------------------
\* main adds its handlers ...
AddHandler(url) ==
  /\ phase = "main" /\ url \in Handled \ s_handler_map
  /\ s_handler_map' = s_handler_map \union {url}
  /\ UNCHANGED <<phase, conn, s_websocket_session_set>>

\* ... and then starts the server, or ends if it cannot have the port.
Start ==
  /\ phase = "main" /\ s_handler_map = Handled
  /\ phase' \in {"serve", "dead"}
  /\ UNCHANGED <<s_handler_map, conn, s_websocket_session_set>>

\* mg_mgr_poll takes a connection and what the peer has sent with it.
Accept(s, peer, message) ==
  /\ phase = "serve" /\ conn[s].kind = "free"
  /\ conn' = [conn EXCEPT ![s] = [Free EXCEPT !.kind = "http", !.peer = peer, !.in = <<message>>]]
  /\ UNCHANGED <<phase, s_handler_map, s_websocket_session_set>>

\* The oldest message on s is m, read while s is of that kind.
Reads(s, m, kind) ==
  phase = "serve" /\ conn[s].kind = kind /\ conn[s].in # <<>> /\ m = Head(conn[s].in)

Answered(s, replies) == [conn[s] EXCEPT !.in = Tail(@), !.out = @ \o replies]

\* Mutant: no handler is found.
HandleNothing(s) ==
  /\ \E url \in Urls : Reads(s, url, "http")
  /\ conn' = [conn EXCEPT ![s] = Answered(s, <<>>)]
  /\ UNCHANGED <<phase, s_handler_map, s_websocket_session_set>>

\* Mutant: after the handler the request goes on to the general reply.
HandleTwice(s) ==
  \E url \in Urls :
    /\ Reads(s, url, "http")
    /\ conn' = [conn EXCEPT ![s] = Answered(s, IF url \in s_handler_map THEN <<url, url>> ELSE <<url>>)]
    /\ UNCHANGED <<phase, s_handler_map, s_websocket_session_set>>

\* A request for a url without a handler is not answered.
HandleHttpEvent(s) ==
  \E url \in Urls :
    /\ Reads(s, url, "http")
    /\ conn' = [conn EXCEPT ![s] = Answered(s, IF url \in s_handler_map THEN <<url>> ELSE <<>>)]
    /\ UNCHANGED <<phase, s_handler_map, s_websocket_session_set>>

\* MG_EV_WEBSOCKET_HANDSHAKE_DONE
HandshakeDone(s) ==
  /\ Reads(s, "upgrade", "http")
  /\ conn' = [conn EXCEPT ![s] = [Answered(s, <<"connected">>) EXCEPT !.kind = "websocket"]]
  /\ s_websocket_session_set' = s_websocket_session_set \union {s}
  /\ UNCHANGED <<phase, s_handler_map>>

\* MG_EV_WEBSOCKET_FRAME: the message is sent back.
Frame(s) ==
  /\ Reads(s, "frame", "websocket")
  /\ conn' = [conn EXCEPT ![s] = Answered(s, <<"frame">>)]
  /\ UNCHANGED <<phase, s_handler_map, s_websocket_session_set>>

\* Mutant: the session is not removed.
CloseKeeps(s) ==
  /\ phase = "serve" /\ conn[s].gone
  /\ conn' = [conn EXCEPT ![s] = Free]
  /\ UNCHANGED <<phase, s_handler_map, s_websocket_session_set>>

\* MG_EV_CLOSE, after which mongoose frees the connection.
Close(s) ==
  /\ phase = "serve" /\ conn[s].gone
  /\ conn' = [conn EXCEPT ![s] = Free]
  /\ s_websocket_session_set' =
       IF conn[s].kind = "websocket" THEN s_websocket_session_set \ {s} ELSE s_websocket_session_set
  /\ UNCHANGED <<phase, s_handler_map>>

\* The process dies: a handler misses an item of the request, or a thread of
\* another component does something of the kind.
Die ==
  /\ phase = "serve"
  /\ phase' = "dead" /\ s_handler_map' = {}
  /\ conn' = [s \in Slots |-> Free] /\ s_websocket_session_set' = {}

\* What the thread that polls does with a connection.
Poll(s) == HandleHttpEvent(s) \/ HandshakeDone(s) \/ Frame(s) \/ Close(s)

ServerStep == (\E url \in Handled : AddHandler(url)) \/ Start \/ Die \/ \E s \in Slots : Poll(s)

-----------------------------------------------------------------------------
\* The sessions are the connections that are websockets: none is closed, or has
\* become a connection of somebody else.
SessionsAreOpen == s_websocket_session_set = {s \in Slots : conn[s].kind = "websocket"}
=============================================================================
