---------------------------- MODULE LegacyReqRep ----------------------------
(***************************************************************************)
(* The request/reply pair of the older wrapper: a ZmqRepServer serving     *)
(* ZmqReqClients and runs of the IPC tester in its req mode, which uses a  *)
(* REQ socket and a context of its own for a single request.               *)
(*                                                                         *)
(* As in ReqRep, m_socket is a shared_ptr of which PollOnce takes a copy,  *)
(* sockets are told apart by a generation, and a payload is the ticket of  *)
(* its request.  What is different: PollOnce looks at m_running, codecs    *)
(* may refuse a message, after a request was received as well, the context *)
(* is never terminated, and the tester's sockets linger.  Requests wait in *)
(* the REQ socket ("outgoing") until they reach a server ("requests").     *)
(***************************************************************************)
EXTENDS Naturals, FiniteSets

CONSTANTS Pollers,     \* threads that run PollOnce
          Background,  \* the one of them started by StartBackground
          Clients,     \* ZmqReqClients
          Testers,     \* runs of SendAndReceiveJson
          None,        \* no request
          MaxGens,     \* bound: sockets the server opens
          MaxConns,    \* bound: connections of one client
          MaxTickets   \* bound: requests sent

Callers == Clients \cup Testers

VARIABLES
  ctl,         \* the control thread: Start, SetHandler, StartBackground, Stop
  m_socket,    \* the generation m_socket refers to, 0 when it is empty
  gens, open, owes, \* generations made; open; with a request not replied to
  refused,     \* history: those whose codec refused a request or a reply
  m_handler,   \* is set
  m_running, joinable,       \* and m_thread.joinable()
  pollPc, pollSock, pollReq, \* per poller: where it is, its copy, its request
  sock, conn, calling,       \* per caller: REQ socket, connections, ticket it waits on
  tickets, outgoing, requests, replies, \* requests sent; not yet at, and at a server
  returned     \* [call, reply]: the replies that calls have returned

ctlVars    == <<ctl, gens, m_handler, joinable>>
serverVars == <<m_socket, open, m_running>>
pollVars   == <<pollPc, pollSock, pollReq, owes, refused>>
callVars   == <<sock, conn, calling, tickets, returned>>
netVars    == <<outgoing, requests, replies>>
vars == <<ctlVars, serverVars, pollVars, callVars, netVars>>

Init ==
  /\ ctl = "idle" /\ m_socket = 0 /\ gens = 0 /\ open = {} /\ owes = {} /\ refused = {}
  /\ m_handler = FALSE /\ m_running = FALSE /\ joinable = FALSE
  /\ pollPc = [p \in Pollers |-> IF p = Background THEN "off" ELSE "idle"]
  /\ pollSock = [p \in Pollers |-> 0] /\ pollReq = [p \in Pollers |-> None]
  /\ sock = [c \in Callers |-> "none"] /\ conn = [c \in Callers |-> 0]
  /\ calling = [c \in Callers |-> 0] /\ tickets = 0
  /\ outgoing = {} /\ requests = {} /\ replies = {} /\ returned = {}

-----------------------------------------------------------------------------
(* The control thread of the server.                                       *)

Holders(g) == {p \in Pollers : pollSock[p] = g}

(* What a destroyed socket had received is lost with it.                   *)
Close(g) == open' = open \ {g} /\ requests' = {r \in requests : r.at # g}

(* A Start that fails, or finds the server running, changes nothing.       *)
Start ==
  /\ ctl = "idle" /\ ~m_running /\ gens < MaxGens
  /\ gens' = gens + 1 /\ m_socket' = gens + 1 /\ open' = open \cup {gens + 1}
  /\ m_running' = TRUE
  /\ UNCHANGED <<ctl, m_handler, joinable, pollVars, callVars, netVars>>

SetHandler ==
  /\ ctl = "idle" /\ ~m_handler /\ m_handler' = TRUE
  /\ UNCHANGED <<ctl, gens, joinable, serverVars, pollVars, callVars, netVars>>

(* Assigning to a joinable std::thread would end the process; the code     *)
(* leaves it to the caller not to.  A server is polled by the background   *)
(* thread or by its program, not by both.  Before Start, the thread finds  *)
(* m_running false and ends.                                               *)
StartBackground ==
  /\ ctl = "idle" /\ ~joinable /\ \A p \in Pollers : pollSock[p] = 0
  /\ joinable' = TRUE /\ pollPc' = [pollPc EXCEPT ![Background] = "top"]
  /\ UNCHANGED <<ctl, gens, m_handler, serverVars, pollSock, pollReq, owes, refused, callVars, netVars>>

StopBegin ==
  /\ ctl = "idle" /\ ctl' = "join" /\ m_running' = FALSE
  /\ UNCHANGED <<gens, m_handler, joinable, m_socket, open, pollVars, callVars, netVars>>

StopJoin ==
  /\ ctl = "join" /\ (joinable => pollPc[Background] = "ended")
  /\ ctl' = "close" /\ joinable' = FALSE /\ pollPc' = [pollPc EXCEPT ![Background] = "off"]
  /\ UNCHANGED <<gens, m_handler, serverVars, pollSock, pollReq, owes, refused, callVars, netVars>>

(* m_socket.reset() destroys the socket unless a PollOnce holds a copy.    *)
StopClose ==
  /\ ctl = "close" /\ ctl' = "idle" /\ m_socket' = 0
  /\ IF Holders(m_socket) = {} THEN Close(m_socket) ELSE UNCHANGED <<open, requests>>
  /\ UNCHANGED <<gens, m_handler, joinable, m_running, pollVars, callVars, outgoing, replies>>

Control == Start \/ SetHandler \/ StartBackground \/ StopBegin \/ StopJoin \/ StopClose

-----------------------------------------------------------------------------
(* PollOnce, called from BackgroundLoop or from the program's own loop.    *)

LoopTop ==
  /\ pollPc[Background] = "top"
  /\ pollPc' = [pollPc EXCEPT ![Background] = IF m_running THEN "idle" ELSE "ended"]
  /\ UNCHANGED <<ctlVars, serverVars, pollSock, pollReq, owes, refused, callVars, netVars>>

Back(p) == IF p = Background THEN "top" ELSE "idle"

PollBegin(p) ==
  /\ pollPc[p] = "idle" /\ (p = Background \/ ~joinable)
  /\ IF m_running /\ m_socket # 0 /\ m_handler
     THEN /\ pollPc' = [pollPc EXCEPT ![p] = "polling"]
          /\ pollSock' = [pollSock EXCEPT ![p] = m_socket]
     ELSE pollPc' = [pollPc EXCEPT ![p] = Back(p)] /\ UNCHANGED pollSock
  /\ UNCHANGED <<ctlVars, serverVars, pollReq, owes, refused, callVars, netVars>>

(* Leaving PollOnce drops the copy, and with the last one the socket.      *)
LetGo(p) ==
  LET g == pollSock[p] IN
  /\ pollPc' = [pollPc EXCEPT ![p] = Back(p)]
  /\ pollSock' = [pollSock EXCEPT ![p] = 0] /\ pollReq' = [pollReq EXCEPT ![p] = None]
  /\ IF g = m_socket \/ Holders(g) # {p} THEN UNCHANGED <<open, requests>> ELSE Close(g)

(* The poll times out, or a signal interrupts it.                          *)
PollNothing(p) ==
  /\ pollPc[p] = "polling" /\ LetGo(p)
  /\ UNCHANGED <<ctlVars, m_socket, m_running, owes, refused, callVars, outgoing, replies>>

PollRecv(p) ==
  /\ pollPc[p] = "polling" /\ pollSock[p] \notin owes
  /\ \E r \in {q \in requests : q.at = pollSock[p]} :
       requests' = requests \ {r} /\ pollReq' = [pollReq EXCEPT ![p] = r]
  /\ owes' = owes \cup {pollSock[p]} /\ pollPc' = [pollPc EXCEPT ![p] = "handling"]
  /\ UNCHANGED <<ctlVars, serverVars, pollSock, refused, callVars, outgoing, replies>>

(* The codec refuses the request or the handler's reply: PollOnce returns  *)
(* and the REP socket still owes a reply.                                  *)
PollRefused(p) ==
  /\ pollPc[p] = "handling" /\ refused' = refused \cup {pollSock[p]}
  /\ LetGo(p)
  /\ UNCHANGED <<ctlVars, m_socket, m_running, owes, callVars, outgoing, replies>>

(* Mutant: no reply is sent once the server was told to stop.              *)
PollReply_UnlessStopping(p) ==
  /\ pollPc[p] = "handling"
  /\ IF m_running THEN replies' = replies \cup {pollReq[p]} /\ owes' = owes \ {pollSock[p]}
                  ELSE UNCHANGED <<replies, owes>>
  /\ LetGo(p)
  /\ UNCHANGED <<ctlVars, m_socket, m_running, refused, callVars, outgoing>>

(* A REP socket drops a reply to a caller that has left.                   *)
Present(r) == conn[r.client] = r.conn /\ sock[r.client] = "awaiting"

PollReply(p) ==
  /\ pollPc[p] = "handling"
  /\ replies' = IF Present(pollReq[p]) THEN replies \cup {pollReq[p]} ELSE replies
  /\ owes' = owes \ {pollSock[p]}
  /\ LetGo(p)
  /\ UNCHANGED <<ctlVars, m_socket, m_running, refused, callVars, outgoing>>

PollStep(p) ==
  PollBegin(p) \/ PollNothing(p) \/ PollRecv(p) \/ PollRefused(p) \/ PollReply(p)

-----------------------------------------------------------------------------
(* ZeroMQ carries requests to the socket that is bound.                    *)

Transmit ==
  /\ m_socket # 0
  /\ \E r \in outgoing : /\ outgoing' = outgoing \ {r}
                         /\ requests' = requests \cup {[r EXCEPT !.at = m_socket]}
  /\ UNCHANGED <<ctlVars, serverVars, pollVars, callVars, replies>>

Sends(c, n) ==
  /\ tickets < MaxTickets /\ tickets' = tickets + 1
  /\ outgoing' = outgoing \cup {[ticket |-> tickets + 1, client |-> c, conn |-> n, at |-> 0]}
  /\ sock' = [sock EXCEPT ![c] = "awaiting"] /\ calling' = [calling EXCEPT ![c] = tickets + 1]

(* A reply to this connection is received; "state" is the socket's after.  *)
Receives(c, state) ==
  /\ calling[c] # 0 /\ sock[c] = "awaiting"
  /\ \E r \in replies :
       /\ r.client = c /\ r.conn = conn[c] /\ replies' = replies \ {r}
       /\ returned' \in {returned, returned \cup {[call |-> calling[c], reply |-> r.ticket]}}
  /\ sock' = [sock EXCEPT ![c] = state] /\ calling' = [calling EXCEPT ![c] = 0]

-----------------------------------------------------------------------------
(* A ZmqReqClient.  Its mutex makes its calls follow one another.          *)

Connect(c) ==
  /\ sock[c] = "none" /\ conn[c] < MaxConns
  /\ sock' = [sock EXCEPT ![c] = "ready"] /\ conn' = [conn EXCEPT ![c] = @ + 1]
  /\ UNCHANGED <<ctlVars, serverVars, pollVars, calling, tickets, returned, netVars>>

(* Mutant: Disconnect does not take the mutex.                             *)
Disconnect_NoMutex(c) ==
  /\ sock[c] # "none" /\ sock' = [sock EXCEPT ![c] = "none"]
  /\ outgoing' = {r \in outgoing : r.client # c} /\ replies' = {r \in replies : r.client # c}
  /\ UNCHANGED <<ctlVars, serverVars, pollVars, conn, calling, tickets, returned, requests>>

(* With linger 0, what has not left the socket is discarded.               *)
Disconnect(c) ==
  /\ calling[c] = 0 /\ sock[c] # "none" /\ sock' = [sock EXCEPT ![c] = "none"]
  /\ outgoing' = {r \in outgoing : r.client # c} /\ replies' = {r \in replies : r.client # c}
  /\ UNCHANGED <<ctlVars, serverVars, pollVars, conn, calling, tickets, returned, requests>>

(* Mutant: a REQ socket that may send again while it awaits a reply.       *)
CallSend_Relaxed(c) ==
  /\ calling[c] = 0 /\ sock[c] # "none" /\ Sends(c, conn[c])
  /\ UNCHANGED <<ctlVars, serverVars, pollVars, conn, returned, requests, replies>>

(* A Call that is not connected, whose codec refuses, or that finds the    *)
(* socket still awaiting (EFSM) returns nullopt and changes nothing.       *)
CallSend(c) ==
  /\ calling[c] = 0 /\ sock[c] = "ready" /\ Sends(c, conn[c])
  /\ UNCHANGED <<ctlVars, serverVars, pollVars, conn, returned, requests, replies>>

(* The codec may refuse the reply; the socket is ready again all the same. *)
CallReturns(c) ==
  /\ Receives(c, "ready")
  /\ UNCHANGED <<ctlVars, serverVars, pollVars, conn, tickets, outgoing, requests>>

CallGivesUp(c) ==
  /\ calling[c] # 0 /\ calling' = [calling EXCEPT ![c] = 0]
  /\ UNCHANGED <<ctlVars, serverVars, pollVars, sock, conn, tickets, returned, netVars>>

ClientStep(c) ==
  Connect(c) \/ Disconnect(c) \/ CallSend(c) \/ CallReturns(c) \/ CallGivesUp(c)

-----------------------------------------------------------------------------
(* SendAndReceiveJson.                                                     *)

TesterSend(c) ==
  /\ sock[c] = "none" /\ conn[c] < MaxConns /\ conn' = [conn EXCEPT ![c] = @ + 1]
  /\ Sends(c, conn[c] + 1)
  /\ UNCHANGED <<ctlVars, serverVars, pollVars, returned, requests, replies>>

(* zmq_close, after the reply or the time-out.                             *)
TesterReturns(c) ==
  /\ Receives(c, "closed")
  /\ UNCHANGED <<ctlVars, serverVars, pollVars, conn, tickets, outgoing, requests>>

(* Mutant: zmq_close is forgotten on the error path.                       *)
TesterGivesUp_NoClose(c) ==
  /\ calling[c] # 0 /\ calling' = [calling EXCEPT ![c] = 0]
  /\ UNCHANGED <<ctlVars, serverVars, pollVars, sock, conn, tickets, returned, netVars>>

TesterGivesUp(c) ==
  /\ calling[c] # 0 /\ calling' = [calling EXCEPT ![c] = 0]
  /\ sock' = [sock EXCEPT ![c] = "closed"] /\ replies' = {r \in replies : r.client # c}
  /\ UNCHANGED <<ctlVars, serverVars, pollVars, conn, tickets, returned, outgoing, requests>>

(* zmq_ctx_term returns when the request has left: a socket without        *)
(* ZMQ_LINGER keeps it for as long as that takes.                          *)
TesterEnds(c) ==
  /\ sock[c] = "closed" /\ \A r \in outgoing : r.client # c
  /\ sock' = [sock EXCEPT ![c] = "none"]
  /\ UNCHANGED <<ctlVars, serverVars, pollVars, conn, calling, tickets, returned, netVars>>

TesterStep(c) == TesterReturns(c) \/ TesterGivesUp(c) \/ TesterEnds(c)

-----------------------------------------------------------------------------
Next ==
  \/ Control
  \/ LoopTop \/ \E p \in Pollers : PollStep(p)
  \/ Transmit \/ \E c \in Clients : ClientStep(c)
  \/ \E c \in Testers : TesterSend(c) \/ TesterStep(c)

(* The background thread, a Stop or a tester that was begun, and ZeroMQ    *)
(* keep going.                                                             *)
Fairness ==
  /\ WF_vars(LoopTop \/ PollStep(Background))
  /\ WF_vars(StopJoin \/ StopClose)
  /\ WF_vars(Transmit)
  /\ \A c \in Testers : WF_vars(TesterStep(c))

-----------------------------------------------------------------------------
(* Properties.                                                             *)

Requests == [ticket : 1..MaxTickets, client : Callers, conn : 1..MaxConns, at : 0..MaxGens]

(* Every variable keeps its type; who waits for a reply has a socket that  *)
(* awaits one, and a poller has a copy of the socket just while it polls.  *)
TypeOK ==
  /\ ctl \in {"idle", "join", "close"} /\ gens \in 0..MaxGens /\ m_socket \in 0..gens
  /\ open \subseteq 1..gens /\ owes \subseteq 1..gens /\ refused \subseteq 1..gens
  /\ m_handler \in BOOLEAN /\ m_running \in BOOLEAN /\ joinable \in BOOLEAN
  /\ pollPc \in [Pollers -> {"off", "top", "idle", "polling", "handling", "ended"}]
  /\ pollSock \in [Pollers -> 0..gens] /\ pollReq \in [Pollers -> Requests \cup {None}]
  /\ sock \in [Callers -> {"none", "ready", "awaiting", "closed"}]
  /\ \A p \in Pollers : pollSock[p] # 0 <=> pollPc[p] \in {"polling", "handling"}
  /\ conn \in [Callers -> 0..MaxConns] /\ calling \in [Callers -> 0..tickets]
  /\ \A c \in Callers : calling[c] # 0 => sock[c] = "awaiting"
  /\ outgoing \subseteq Requests /\ requests \subseteq Requests /\ replies \subseteq Requests

(* What PollOnce works on is alive although Stop has reset m_socket        *)
(* (zmq_rep_server.h:54), and a REP socket that owes a reply is about to   *)
(* send it, unless the codec refused a message on it: then no request      *)
(* reaches the handler any more until the server is stopped and started.   *)
Unwedged ==
  /\ \A p \in Pollers : pollSock[p] \in open \cup {0}
  /\ \A g \in owes \cap open : g \in refused \/ \E p \in Holders(g) : pollPc[p] = "handling"

(* A Call, and a run of the tester, returns the reply to its own request,  *)
(* after calls that timed out and across servers started anew.             *)
NoStaleReply == \A x \in returned : x.call = x.reply

(* Stop returns, and so does the tester, unless there is no server: the    *)
(* time-out of the request does not help it then.                          *)
CallsReturn ==
  /\ (ctl = "join") ~> (ctl = "idle")
  /\ \A c \in Testers : (sock[c] = "awaiting") ~> (sock[c] = "none" \/ m_socket = 0)
=============================================================================
