------------------------------- MODULE ReqRep -------------------------------
(***************************************************************************)
(* zmq_wrap::ReplierSocket serving zmq_wrap::RequesterSockets.  The        *)
(* replier's m_sock is a shared_ptr: PollOnce copies it under the mutex    *)
(* and works on the copy, so that a socket lives until m_sock and every    *)
(* copy have let go of it; sockets are told apart by a generation.  The    *)
(* state machines of ZeroMQ's REQ and REP sockets are modelled: REQ sends  *)
(* and receives in turn and refuses another send (EFSM) while it awaits a  *)
(* reply, REP receives and sends in turn.                                  *)
(*                                                                         *)
(* A payload is the ticket of its request; a reply names the request it    *)
(* answers.  The statistics are left out.                                  *)
(***************************************************************************)
EXTENDS Integers, FiniteSets

CONSTANTS Pollers,     \* threads that run PollOnce
          Background,  \* the one of them started by StartBackground
          Clients,     \* RequesterSockets
          None,        \* no request
          MaxGens,     \* bound: sockets the replier opens
          MaxConns,    \* bound: connections of one requester
          MaxTickets   \* bound: requests sent

ASSUME PollersAssumption == Background \in Pollers
ASSUME NoneAssumption == None \notin [ticket : Nat, client : Clients, conn : Nat]
ASSUME BoundsAssumption == MaxGens \in Nat /\ MaxConns \in Nat /\ MaxTickets \in Nat

Request == [ticket : 1..MaxTickets, client : Clients, conn : 1..MaxConns]

VARIABLES
  ctl,         \* the control thread: Bind, SetHandler, StartBackground, Stop
  m_sock,      \* the generation m_sock refers to, 0 when it is empty
  gens,        \* generations made so far
  open,        \* sockets that have not been destroyed
  owes,        \* open sockets that have received a request and not replied
  handler,     \* m_handler is set
  running, joinable,        \* m_running, m_thread.joinable()
  pollPc, pollSock, pollReq, \* per poller: where it is, its copy of m_sock, its request
  sock,        \* per requester, its REQ socket: none, ready or awaiting
  conn,        \* per requester, connections made so far
  calling,     \* the ticket its Request call waits on, 0 outside of it
  tickets,     \* requests sent so far
  requests,    \* requests on their way
  replies,     \* requests whose reply is on its way
  returned,    \* [call, reply]: the replies that Request calls have returned
  termed       \* the ZeroMQ context has been terminated

ctlVars  == <<ctl, gens, handler, joinable>>
sockVars == <<m_sock, open>>
pollVars == <<pollPc, pollSock, pollReq, owes>>
reqVars  == <<sock, conn, calling, tickets, returned>>
netVars  == <<requests, replies>>
vars == <<ctlVars, sockVars, running, pollVars, reqVars, netVars, termed>>

Init ==
  /\ ctl = "idle" /\ m_sock = 0 /\ gens = 0 /\ open = {} /\ owes = {}
  /\ handler = FALSE /\ running = FALSE /\ joinable = FALSE
  /\ pollPc = [p \in Pollers |-> IF p = Background THEN "off" ELSE "idle"]
  /\ pollSock = [p \in Pollers |-> 0] /\ pollReq = [p \in Pollers |-> None]
  /\ sock = [c \in Clients |-> "none"] /\ conn = [c \in Clients |-> 0]
  /\ calling = [c \in Clients |-> 0] /\ tickets = 0
  /\ requests = {} /\ replies = {} /\ returned = {} /\ termed = FALSE

-----------------------------------------------------------------------------
(* The control thread of the replier.                                      *)

Holders(g) == {p \in Pollers : pollSock[p] = g}

(* A Bind that fails, or finds the replier bound, changes nothing.         *)
Bind ==
  /\ ctl = "idle" /\ m_sock = 0 /\ ~termed /\ gens < MaxGens
  /\ gens' = gens + 1 /\ m_sock' = gens + 1 /\ open' = open \cup {gens + 1}
  /\ UNCHANGED <<ctl, handler, running, joinable, pollVars, reqVars, netVars, termed>>

SetHandler ==
  /\ ctl = "idle" /\ ~handler /\ handler' = TRUE
  /\ UNCHANGED <<ctl, gens, joinable, sockVars, running, pollVars, reqVars, netVars, termed>>

(* A replier is served by the background thread or by a thread that calls  *)
(* PollOnce, not by both (DESIGN.md:64): the program starts the background *)
(* thread when no PollOnce is under way on the socket.                     *)
StartBackground ==
  /\ ctl = "idle" /\ ~joinable /\ m_sock # 0 /\ Holders(m_sock) = {}
  /\ running' = TRUE /\ joinable' = TRUE
  /\ pollPc' = [pollPc EXCEPT ![Background] = "top"]
  /\ UNCHANGED <<ctl, gens, handler, sockVars, pollSock, pollReq, owes, reqVars, netVars, termed>>

(* Mutant: the loop is not told to stop.                                   *)
StopBegin_LoopNotTold ==
  /\ ctl = "idle" /\ ctl' = "join"
  /\ UNCHANGED <<gens, handler, joinable, sockVars, running, pollVars, reqVars, netVars, termed>>

StopBegin ==
  /\ ctl = "idle"
  /\ running' = FALSE /\ ctl' = "join"
  /\ UNCHANGED <<gens, handler, joinable, sockVars, pollVars, reqVars, netVars, termed>>

StopJoin ==
  /\ ctl = "join"
  /\ \/ ~joinable /\ pollPc' = pollPc
     \/ joinable /\ pollPc[Background] = "ended"
        /\ pollPc' = [pollPc EXCEPT ![Background] = "off"]
  /\ joinable' = FALSE /\ ctl' = "close"
  /\ UNCHANGED <<gens, handler, sockVars, running, pollSock, pollReq, owes, reqVars, netVars, termed>>

(* Mutant: the socket is destroyed whoever holds a copy.                   *)
StopClose_NotShared ==
  /\ ctl = "close"
  /\ m_sock' = 0 /\ open' = open \ {m_sock} /\ ctl' = "idle"
  /\ UNCHANGED <<gens, handler, joinable, running, pollVars, reqVars, netVars, termed>>

(* m_sock.reset(): the socket is destroyed unless a PollOnce holds a copy; *)
(* the requests that had reached it are lost with it.                      *)
StopClose ==
  /\ ctl = "close"
  /\ m_sock' = 0 /\ ctl' = "idle"
  /\ IF Holders(m_sock) = {}
     THEN open' = open \ {m_sock} /\ requests' \in SUBSET requests
     ELSE UNCHANGED <<open, requests>>
  /\ UNCHANGED <<gens, handler, joinable, running, pollVars, reqVars, replies, termed>>

Control == Bind \/ SetHandler \/ StartBackground \/ StopBegin \/ StopJoin \/ StopClose

-----------------------------------------------------------------------------
(* PollOnce, called from BackgroundLoop or from a thread of the program.   *)

LoopTop ==
  /\ pollPc[Background] = "top"
  /\ pollPc' = [pollPc EXCEPT ![Background] = IF running THEN "idle" ELSE "ended"]
  /\ UNCHANGED <<ctlVars, sockVars, running, pollSock, pollReq, owes, reqVars, netVars, termed>>

Back(p) == IF p = Background THEN "top" ELSE "idle"

PollBegin(p) ==
  /\ pollPc[p] = "idle"
  /\ p = Background \/ (~joinable /\ Holders(m_sock) = {}) \/ m_sock = 0
  /\ IF m_sock = 0 \/ ~handler
     THEN pollPc' = [pollPc EXCEPT ![p] = Back(p)] /\ UNCHANGED pollSock
     ELSE /\ pollPc' = [pollPc EXCEPT ![p] = "polling"]
          /\ pollSock' = [pollSock EXCEPT ![p] = m_sock]
  /\ UNCHANGED <<ctlVars, sockVars, running, pollReq, owes, reqVars, netVars, termed>>

(* Leaving PollOnce drops the copy, and with the last one the socket.      *)
LetGo(p) ==
  LET g == pollSock[p] IN
  /\ pollPc' = [pollPc EXCEPT ![p] = Back(p)]
  /\ pollSock' = [pollSock EXCEPT ![p] = 0]
  /\ pollReq' = [pollReq EXCEPT ![p] = None]
  /\ open' = IF g = m_sock \/ Holders(g) # {p} THEN open ELSE open \ {g}

PollNothing(p) ==
  /\ pollPc[p] = "polling"
  /\ LetGo(p)
  /\ UNCHANGED <<ctlVars, m_sock, running, owes, reqVars, netVars, termed>>

PollTermed(p) ==
  /\ pollPc[p] = "polling" /\ termed
  /\ running' = FALSE
  /\ LetGo(p)
  /\ UNCHANGED <<ctlVars, m_sock, owes, reqVars, netVars, termed>>

PollRecv(p) ==
  /\ pollPc[p] = "polling" /\ ~termed /\ pollSock[p] \notin owes
  /\ \E r \in requests :
       /\ requests' = requests \ {r}
       /\ pollReq' = [pollReq EXCEPT ![p] = r]
  /\ owes' = owes \cup {pollSock[p]}
  /\ pollPc' = [pollPc EXCEPT ![p] = "handling"]
  /\ UNCHANGED <<ctlVars, sockVars, running, pollSock, reqVars, replies, termed>>

(* Mutant: no reply is sent once the replier was told to stop.             *)
PollReply_UnlessStopping(p) ==
  /\ pollPc[p] = "handling"
  /\ IF running \/ p # Background
     THEN replies' = replies \cup {pollReq[p]} /\ owes' = owes \ {pollSock[p]}
     ELSE UNCHANGED <<replies, owes>>
  /\ LetGo(p)
  /\ UNCHANGED <<ctlVars, m_sock, running, reqVars, requests, termed>>

(* The handler returns and its result is sent; once the context is         *)
(* terminated the send throws.                                             *)
PollReply(p) ==
  /\ pollPc[p] = "handling"
  /\ \/ ~termed /\ replies' = replies \cup {pollReq[p]}
        /\ owes' = owes \ {pollSock[p]} /\ running' = running
     \/ termed /\ running' = FALSE /\ UNCHANGED <<replies, owes>>
  /\ LetGo(p)
  /\ UNCHANGED <<ctlVars, m_sock, reqVars, requests, termed>>

PollStep(p) ==
  \/ PollBegin(p) \/ PollNothing(p) \/ PollTermed(p) \/ PollRecv(p) \/ PollReply(p)

-----------------------------------------------------------------------------
(* A RequesterSocket.  Its mutex makes its calls follow one another.       *)

Connect(c) ==
  /\ calling[c] = 0 /\ sock[c] = "none" /\ ~termed /\ conn[c] < MaxConns
  /\ sock' = [sock EXCEPT ![c] = "ready"] /\ conn' = [conn EXCEPT ![c] = @ + 1]
  /\ UNCHANGED <<ctlVars, sockVars, running, pollVars, calling, tickets, returned, netVars, termed>>

(* Mutant: Disconnect does not take the mutex.                             *)
Disconnect_NoMutex(c) ==
  /\ sock[c] # "none" /\ sock' = [sock EXCEPT ![c] = "none"]
  /\ UNCHANGED <<ctlVars, sockVars, running, pollVars, conn, calling, tickets, returned, netVars, termed>>

(* With linger 0 what has not left the socket is discarded.                *)
Disconnect(c) ==
  /\ calling[c] = 0 /\ sock[c] # "none"
  /\ sock' = [sock EXCEPT ![c] = "none"]
  /\ \E kept \in SUBSET {r \in requests : r.client = c} :
       requests' = {r \in requests : r.client # c} \cup kept
  /\ replies' = {r \in replies : r.client # c}
  /\ UNCHANGED <<ctlVars, sockVars, running, pollVars, conn, calling, tickets, returned, termed>>

(* Mutant: a REQ socket that may send again while it awaits a reply        *)
(* (ZMQ_REQ_RELAXED).                                                      *)
RequestSend_Relaxed(c) ==
  /\ calling[c] = 0 /\ sock[c] # "none" /\ ~termed /\ tickets < MaxTickets
  /\ tickets' = tickets + 1
  /\ requests' = requests \cup {[ticket |-> tickets + 1, client |-> c, conn |-> conn[c]]}
  /\ sock' = [sock EXCEPT ![c] = "awaiting"]
  /\ calling' = [calling EXCEPT ![c] = tickets + 1]
  /\ UNCHANGED <<ctlVars, sockVars, running, pollVars, conn, returned, replies, termed>>

(* Request on a socket that is not connected, or whose send is refused,    *)
(* returns nullopt and changes nothing.                                    *)
RequestSend(c) ==
  /\ calling[c] = 0 /\ sock[c] = "ready" /\ ~termed /\ tickets < MaxTickets
  /\ tickets' = tickets + 1
  /\ requests' = requests \cup {[ticket |-> tickets + 1, client |-> c, conn |-> conn[c]]}
  /\ sock' = [sock EXCEPT ![c] = "awaiting"]
  /\ calling' = [calling EXCEPT ![c] = tickets + 1]
  /\ UNCHANGED <<ctlVars, sockVars, running, pollVars, conn, returned, replies, termed>>

RequestReturns(c) ==
  /\ calling[c] # 0 /\ ~termed
  /\ \E r \in replies :
       /\ r.client = c /\ r.conn = conn[c]
       /\ replies' = replies \ {r}
       /\ returned' = returned \cup {[call |-> calling[c], reply |-> r.ticket]}
  /\ sock' = [sock EXCEPT ![c] = "ready"]
  /\ calling' = [calling EXCEPT ![c] = 0]
  /\ UNCHANGED <<ctlVars, sockVars, running, pollVars, conn, tickets, requests, termed>>

(* poll times out, or reports that the context is terminated.              *)
RequestGivesUp(c) ==
  /\ calling[c] # 0
  /\ calling' = [calling EXCEPT ![c] = 0]
  /\ UNCHANGED <<ctlVars, sockVars, running, pollVars, sock, conn, tickets, returned, netVars, termed>>

ClientStep(c) ==
  Connect(c) \/ Disconnect(c) \/ RequestSend(c) \/ RequestReturns(c) \/ RequestGivesUp(c)

Terminate ==
  /\ ~termed /\ termed' = TRUE
  /\ UNCHANGED <<ctlVars, sockVars, running, pollVars, reqVars, netVars>>

-----------------------------------------------------------------------------
Next ==
  \/ Control
  \/ LoopTop \/ \E p \in Pollers : PollStep(p)
  \/ \E c \in Clients : ClientStep(c)
  \/ Terminate

Spec == Init /\ [][Next]_vars

(* The background thread and a Stop that was begun keep going.             *)
Fairness ==
  /\ WF_vars(LoopTop \/ PollStep(Background))
  /\ WF_vars(StopJoin \/ StopClose)

FairSpec == Spec /\ Fairness

-----------------------------------------------------------------------------
(* Properties.                                                             *)

TypeReplier ==
  /\ ctl \in {"idle", "join", "close"}
  /\ gens \in 0..MaxGens /\ m_sock \in 0..gens
  /\ open \subseteq 1..gens /\ owes \subseteq 0..gens
  /\ handler \in BOOLEAN /\ running \in BOOLEAN /\ joinable \in BOOLEAN /\ termed \in BOOLEAN

TypePollers ==
  /\ pollPc \in [Pollers -> {"off", "top", "idle", "polling", "handling", "ended"}]
  /\ pollSock \in [Pollers -> 0..gens]
  /\ pollReq \in [Pollers -> Request \cup {None}]
  /\ \A p \in Pollers : /\ pollPc[p] = "handling" => pollReq[p] \in Request
                        /\ pollSock[p] # 0 <=> pollPc[p] \in {"polling", "handling"}

TypeClients ==
  /\ sock \in [Clients -> {"none", "ready", "awaiting"}]
  /\ conn \in [Clients -> 0..MaxConns]
  /\ calling \in [Clients -> 0..tickets] /\ tickets \in 0..MaxTickets
  /\ \A c \in Clients : /\ sock[c] # "none" => conn[c] > 0
                        /\ calling[c] # 0 => sock[c] = "awaiting"
  /\ requests \subseteq Request /\ replies \subseteq Request
  /\ returned \subseteq [call : 1..MaxTickets, reply : 1..MaxTickets]

(* Every variable keeps its type; a Request call that waits has a REQ      *)
(* socket that awaits.                                                     *)
TypeOK == TypeReplier /\ TypePollers /\ TypeClients

(* "shared_ptr keeps the socket alive even if Stop() calls m_sock.reset()  *)
(* concurrently" (zmq_rep_server.cpp:67): m_sock and every copy refer to a *)
(* socket that is open, and no other socket is left open.                  *)
CopiesKeepAlive ==
  open = ({m_sock} \cup {pollSock[p] : p \in Pollers}) \ {0}

(* A REP socket owes a reply only while a PollOnce is about to send it, so *)
(* that the next PollOnce can receive (zmq_rep_server.cpp:79-99).          *)
NeverWedged ==
  termed \/ \A g \in owes : \E p \in Pollers : pollSock[p] = g /\ pollPc[p] = "handling"

(* Request returns the reply to the request it sent itself, also after     *)
(* calls that timed out and replies that came too late                     *)
(* (zmq_req_client.cpp:52-92).                                             *)
NoStaleReply == \A x \in returned : x.call = x.reply

(* The background thread runs only while it is still to be joined, and     *)
(* with a socket (zmq_rep_server.cpp:46-56, 114-131).                      *)
LoopOutlived == pollPc[Background] # "off" => joinable /\ m_sock # 0

(* The replier's sockets and its thread: a PollOnce, from whichever        *)
(* thread, uses a socket that is open, and nothing outlives Stop but the   *)
(* copies that are in use (zmq_rep_server.cpp:46-56, 64-77).               *)
SocketsHeld == CopiesKeepAlive /\ LoopOutlived

(* Stop returns while the background thread polls or handles a request.    *)
StopReturns == (ctl = "join") ~> (ctl = "idle")
=============================================================================
