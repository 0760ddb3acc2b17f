----------------------------- MODULE HttpClient -----------------------------
(***************************************************************************)
(* The demo client (HttpClient and its main) at work with the server. main  *)
(* calls SendReq once for each of its urls; SendReq connects, polls until  *)
(* s_exit_flag is set, and frees its manager, which polls once more and    *)
(* closes the connection. The flag is never reset.                         *)
(*                                                                         *)
(* Browsers ask the server for urls too, make their connections into       *)
(* websockets and leave, MaxMessages times together.                       *)
(***************************************************************************)
EXTENDS HttpServer

CONSTANTS
  Calls,       \* how many times main calls SendReq
  MaxMessages  \* bound: what all browsers send

ASSUME HttpClientAssumption ==
  /\ Calls \in Nat /\ Peers = 0 .. Calls /\ MaxMessages \in Nat
  /\ Slots \cap {"none", "connecting", "closed"} = {}

VARIABLES
  url,          \* the url of each call
  call,         \* the call that is running, or that has been last
  at,           \* where it is
  link,         \* its connection: "none", "connecting", "closed" or a slot
  s_exit_flag,
  caused,       \* history: it has had a reply, an error or a close
  sent          \* how many messages the browsers have sent

clientVars == <<url, call, at, link, s_exit_flag, caused>>
vars       == <<serverVars, clientVars, sent>>

Init ==
  /\ ServerInit
  /\ url \in [1 .. Calls -> Urls]
  /\ call = 0 /\ at = "main" /\ link = "none" /\ s_exit_flag = 0 /\ caused = FALSE
  /\ sent = 0

-----------------------------------------------------------------------------
(* The client.                                                             *)

SendReq ==
  /\ at = "main" /\ call < Calls
  /\ call' = call + 1 /\ at' = "poll" /\ link' = "connecting" /\ caused' = FALSE
  /\ UNCHANGED <<serverVars, url, s_exit_flag, sent>>

\* while (s_exit_flag == 0)
Leave ==
  /\ at = "poll" /\ s_exit_flag = 1
  /\ at' = "free"
  /\ UNCHANGED <<serverVars, url, call, link, s_exit_flag, caused, sent>>

\* mongoose reports events while SendReq polls and in the last poll of
\* mg_mgr_free.
Polls == (at = "poll" /\ s_exit_flag = 0) \/ at = "free"

Exits(next) ==
  /\ s_exit_flag' = 1 /\ caused' = TRUE /\ link' = next
  /\ UNCHANGED <<url, call, at, sent>>

\* MG_EV_CONNECT. The request goes out with it.
Connect(s) ==
  /\ Polls /\ link = "connecting"
  /\ Accept(s, call, url[call])
  /\ link' = s
  /\ UNCHANGED <<url, call, at, s_exit_flag, caused, sent>>

\* Mutant: the flag takes the error number.
ConnectFailsAs ==
  /\ Polls /\ link = "connecting"
  /\ s_exit_flag' = 2 /\ caused' = TRUE /\ link' = "closed"
  /\ UNCHANGED <<serverVars, url, call, at, sent>>

ConnectFails ==
  /\ Polls /\ link = "connecting"
  /\ Exits("closed")
  /\ UNCHANGED serverVars

\* MG_EV_HTTP_REPLY, after which the client closes.
Reply ==
  /\ Polls /\ link \in Slots /\ phase = "serve" /\ conn[link].out # <<>>
  /\ conn' = [conn EXCEPT ![link].out = Tail(@), ![link].gone = TRUE]
  /\ Exits("closed")
  /\ UNCHANGED <<phase, s_handler_map, s_websocket_session_set>>

\* MG_EV_CLOSE: the server's process has died.
Closed ==
  /\ Polls /\ link \in Slots /\ phase = "dead"
  /\ Exits("closed")
  /\ UNCHANGED serverVars

\* The end of mg_mgr_free and of SendReq.
Free_mgr ==
  /\ at = "free"
  /\ at' = "main" /\ link' = "none"
  /\ conn' = IF link \in Slots /\ phase = "serve" THEN [conn EXCEPT ![link].gone = TRUE] ELSE conn
  /\ UNCHANGED <<phase, s_handler_map, s_websocket_session_set, url, call, s_exit_flag, caused, sent>>

\* What the client gets done as long as the network does.
Progress == Leave \/ (\E s \in Slots : Connect(s)) \/ ConnectFails \/ Reply \/ Closed \/ Free_mgr

-----------------------------------------------------------------------------
(* The browsers.                                                           *)

Message == Urls \union {"upgrade", "frame"}

Visit(s, m) ==
  /\ sent < MaxMessages /\ sent' = sent + 1
  /\ Accept(s, 0, m)
  /\ UNCHANGED clientVars

\* On a connection that is there already.
Ask(s, m) ==
  /\ sent < MaxMessages /\ sent' = sent + 1
  /\ phase = "serve" /\ conn[s].peer = 0 /\ ~ conn[s].gone
  /\ conn[s].kind = IF m = "frame" THEN "websocket" ELSE "http"
  /\ \A k \in DOMAIN conn[s].in : conn[s].in[k] # "upgrade"
  /\ conn' = [conn EXCEPT ![s].in = Append(@, m)]
  /\ UNCHANGED <<phase, s_handler_map, s_websocket_session_set, clientVars>>

HangUp(s) ==
  /\ phase = "serve" /\ conn[s].kind # "free" /\ conn[s].peer = 0 /\ ~ conn[s].gone
  /\ conn' = [conn EXCEPT ![s].gone = TRUE]
  /\ UNCHANGED <<phase, s_handler_map, s_websocket_session_set, clientVars, sent>>

Browse(s) == (\E m \in Message \ {"frame"} : Visit(s, m)) \/ (\E m \in Message : Ask(s, m)) \/ HangUp(s)

-----------------------------------------------------------------------------
Ended == at = "main" /\ call = Calls /\ phase = "dead" /\ UNCHANGED vars

Next ==
  \/ ServerStep /\ UNCHANGED <<clientVars, sent>>
  \/ SendReq \/ Progress
  \/ \E s \in Slots : Browse(s)
  \/ Ended

Spec == Init /\ [][Next]_vars

\* Both processes go on polling, the network delivers, and main adds its
\* handlers.
FairSpec ==
  /\ Spec
  /\ WF_vars(Progress)
  /\ \A s \in Slots : WF_vars(Poll(s) /\ UNCHANGED <<clientVars, sent>>)

-----------------------------------------------------------------------------
(* Properties.                                                             *)

TypeOK ==
  /\ phase \in {"main", "serve", "dead"} /\ s_handler_map \subseteq Handled
  /\ conn \in [Slots -> Connection(Seq(Message), Seq(Message \union {"connected"}))]
  /\ s_websocket_session_set \subseteq Slots
  /\ url \in [1 .. Calls -> Urls] /\ call \in 0 .. Calls
  /\ at \in {"main", "poll", "free"} /\ link \in Slots \union {"none", "connecting", "closed"}
  /\ s_exit_flag \in {0, 1} /\ caused \in BOOLEAN
  /\ sent \in 0 .. MaxMessages

\* While the server serves, the connection of a SendReq is its own, though addresses
\* are used again: no browser has it and nobody has closed it. Its request is unread,
\* or it has been read and has its reply, which is its own and the only one, if its
\* url has a handler; if not, it has none and nothing more will come.
ReplyIsOwn ==
  link \in Slots /\ phase = "serve" =>
    LET c == conn[link] IN
    /\ c.kind = "http" /\ c.peer = call /\ ~ c.gone
    /\ \/ c.in = <<url[call]>> /\ c.out = <<>>
       \/ c.in = <<>> /\ c.out = IF url[call] \in Handled THEN <<url[call]>> ELSE <<>>

\* A SendReq for a url that has a handler comes back. One for another url waits
\* for ever, unless it comes to an end before it has been read.
SendReqReturns ==
  \A k \in 1 .. Calls :
    (call = k /\ at = "poll" /\ url[k] \in Handled) ~> (call = k /\ at = "main")

\* SendReq sends a request, has the reply handled and closes (so the comment at
\* its head): it does not come back with neither reply nor error.
EveryCallIsAnswered == at = "main" /\ call > 0 => caused
=============================================================================
