------------------------------ MODULE Gateway ------------------------------
(***************************************************************************)
(* zmq_gateway::Gateway: a name service (REP), a message switch (ROUTER)   *)
(* and an announcer (PUB) behind one object.  Three threads of the process *)
(* are modelled: the control thread that calls Start and Stop, the         *)
(* ReplierSocket thread that runs HandleRepRequest, and the RouterSocket   *)
(* thread that runs HandleRouterMessage.  Their environment is a set of    *)
(* REQ clients and a set of DEALER peers, which act on their own, time     *)
(* out, leave and come back.                                               *)
(*                                                                         *)
(* The JSON of a request or message is abstracted to the fields the        *)
(* handlers extract from it; Empty is what ExtractJsonString returns for a *)
(* field that is absent or "".                                             *)
(*                                                                         *)
(* Failures that are covered: a Bind that fails, a Publish and a SendTo    *)
(* that fail, a signal that ends the process.  Not covered: a context that *)
(* is terminated, which the process never does, and a StartBackground that *)
(* fails: it does so only without a socket or with a thread already there, *)
(* and Start calls it on fresh objects that are bound.                     *)
(***************************************************************************)
EXTENDS Integers, Sequences, FiniteSets

CONSTANTS Names,        \* client names
          Ids,          \* ROUTER identities of the DEALER peers
          Empty,        \* the empty string
          None,         \* no value: a local variable out of scope
          Requesters,   \* REQ clients of the name service
          Calls,        \* the requests they make
          MaxRequests,  \* bound: requests made in a behaviour
          MaxMessages,  \* bound: messages posted in a behaviour
          MaxLives,     \* bound: connections one DEALER peer opens
          MaxStarts     \* bound: calls of Start

Commands == {"register", "unregister", "list", "stats", "other"}

Call == [cmd : Commands, name : Names \cup {Empty}, identity : Ids \cup {Empty}]

ASSUME CallsAssumption == Calls \subseteq Call
ASSUME EmptyAssumption == Empty \notin Names \cup Ids
ASSUME BoundsAssumption ==
  MaxRequests \in Nat /\ MaxMessages \in Nat /\ MaxLives \in Nat /\ MaxStarts \in Nat

Request == [ticket : 1..MaxRequests, client : Requesters, call : Calls]
Message == [from : Ids, life : 1..MaxLives, seq : 1..MaxMessages,
            target : Names \cup {Empty}]
Answer  == [what : {"registered", "updated", "unregistered", "names", "stats", "refused"},
            names : SUBSET Names]

VARIABLES
  ctl,        \* what the control thread is doing
  starts,     \* calls of Start so far
  running,    \* Gateway::m_running
  objs,       \* m_rep, m_router, m_pub: null, unbound (no socket inside) or bound
  repOn,      \* ReplierSocket::m_running
  routerOn,   \* RouterSocket::m_running
  clients,    \* m_clients, a function from the registered names to identities
  stats,      \* m_stats
  repPc, repReq, repAnswer,   \* the REP thread: where it is, its request and reply
  rtPc, rtMsg, rtId, rtSent,  \* the ROUTER thread: its message, target_identity, SendTo's result
  requests,   \* requests on their way to the REP socket
  tickets,    \* requests made so far
  asking,     \* the ticket each REQ client waits on, 0 when it waits on none
  answers,    \* the answers that reached the client that waited for them
  joined,     \* the DEALER peers that are connected
  life,       \* how many connections each has opened
  posts,      \* messages posted so far
  outbox,     \* per DEALER peer, its messages on their way to the ROUTER socket
  inbox,      \* per DEALER peer, the messages this connection has received
  announced,  \* what the last PUB event of a name said of it
  taken       \* messages the ROUTER thread has taken from its socket

ctlVars    == <<ctl, starts, running, objs, repOn, routerOn>>
repVars    == <<repPc, repReq, repAnswer>>
rtVars     == <<rtPc, rtMsg, rtId, rtSent, taken>>
reqVars    == <<requests, tickets, asking, answers>>
dealerVars == <<joined, life, posts, outbox, inbox>>
dataVars   == <<clients, stats, announced>>
vars == <<ctlVars, repVars, rtVars, reqVars, dealerVars, dataVars>>

Sockets == {"rep", "router", "pub"}

Init ==
  /\ ctl = "idle" /\ starts = 0 /\ running = FALSE
  /\ objs = [s \in Sockets |-> "null"]
  /\ repOn = FALSE /\ routerOn = FALSE
  /\ clients = [n \in {} |-> Empty]
  /\ stats = [registrations |-> 0, messages_routed |-> 0, broadcasts |-> 0, errors |-> 0]
  /\ repPc = "off" /\ repReq = None /\ repAnswer = None
  /\ rtPc = "off" /\ rtMsg = None /\ rtId = Empty /\ rtSent = FALSE
  /\ requests = {} /\ tickets = 0 /\ asking = [c \in Requesters |-> 0] /\ answers = {}
  /\ joined = {} /\ life = [d \in Ids |-> 0] /\ posts = 0
  /\ outbox = [d \in Ids |-> <<>>] /\ inbox = [d \in Ids |-> <<>>]
  /\ announced = [n \in Names |-> "out"]
  /\ taken = 0

Count(counter) == stats' = [stats EXCEPT ![counter] = @ + 1]

-----------------------------------------------------------------------------
(* The control thread: Start and Stop.                                     *)

(* A ROUTER socket that is closed loses, of every peer's messages, those   *)
(* that it had received.                                                   *)
RouterLoses ==
  \E lost \in [Ids -> 0..MaxMessages] :
    /\ \A d \in Ids : lost[d] <= Len(outbox[d])
    /\ outbox' = [d \in Ids |-> SubSeq(outbox[d], lost[d] + 1, Len(outbox[d]))]

(* Start creates the three objects afresh and binds them one after the     *)
(* other.  The first Bind that fails ends it, after the cleanup of that    *)
(* branch: an object that is not reset stays behind, without a socket, and *)
(* what had already reached a socket that was bound is lost.               *)
BindFails(s) ==
  /\ objs' = [t \in Sockets |->
                IF \/ s = "router" /\ t = "rep"
                   \/ s = "pub" /\ t # "pub"
                THEN "null" ELSE "unbound"]
  /\ \/ s = "rep" /\ UNCHANGED requests
     \/ s # "rep" /\ requests' \in SUBSET requests
  /\ \/ s # "pub" /\ UNCHANGED outbox
     \/ s = "pub" /\ RouterLoses
  /\ ctl' = "idle"

StartBind ==
  /\ ctl = "idle" /\ ~running /\ starts < MaxStarts
  /\ starts' = starts + 1
  /\ \/ objs' = [s \in Sockets |-> "bound"] /\ ctl' = "bound" /\ UNCHANGED <<requests, outbox>>
     \/ \E s \in Sockets : BindFails(s)
  /\ UNCHANGED <<running, repOn, routerOn, repVars, rtVars, tickets, asking, answers,
                 joined, life, posts, inbox, dataVars>>

StartRep ==
  /\ ctl = "bound"
  /\ repOn' = TRUE /\ repPc' = "top" /\ ctl' = "repStarted"
  /\ UNCHANGED <<starts, running, objs, routerOn, repReq, repAnswer, rtVars, reqVars,
                 dealerVars, dataVars>>

StartRouter ==
  /\ ctl = "repStarted"
  /\ routerOn' = TRUE /\ rtPc' = "top" /\ running' = TRUE /\ ctl' = "idle"
  /\ UNCHANGED <<starts, objs, repOn, repVars, rtMsg, rtId, rtSent, taken, reqVars,
                 dealerVars, dataVars>>

(* Mutant: the REP loop is not told to stop.                               *)
StopBegin_LoopNotTold ==
  /\ ctl = "idle" /\ running
  /\ running' = FALSE /\ ctl' = "joinRep"
  /\ UNCHANGED <<starts, objs, repOn, routerOn, repVars, rtVars, reqVars, dealerVars, dataVars>>

StopBegin ==
  /\ ctl = "idle" /\ running
  /\ running' = FALSE /\ repOn' = FALSE /\ ctl' = "joinRep"
  /\ UNCHANGED <<starts, objs, routerOn, repVars, rtVars, reqVars, dealerVars, dataVars>>

(* ReplierSocket::Stop joins its thread and closes the socket: requests    *)
(* that had reached the socket are lost, others wait at the client.        *)
StopJoinRep ==
  /\ ctl = "joinRep" /\ repPc = "off"
  /\ objs' = [objs EXCEPT !["rep"] = "unbound"]
  /\ requests' \in SUBSET requests
  /\ routerOn' = FALSE /\ ctl' = "joinRouter"
  /\ UNCHANGED <<starts, running, repOn, repVars, rtVars, tickets, asking, answers,
                 dealerVars, dataVars>>

(* Mutant: the objects are destroyed without joining the ROUTER thread.     *)
StopJoinRouter_NoJoin ==
  /\ ctl = "joinRouter"
  /\ objs' = [s \in Sockets |-> "null"] /\ ctl' = "idle"
  /\ UNCHANGED <<starts, running, repOn, routerOn, repVars, rtVars, reqVars,
                 dealerVars, dataVars>>

(* The ROUTER thread is joined before the three objects are destroyed.     *)
StopJoinRouter ==
  /\ ctl = "joinRouter" /\ rtPc = "off"
  /\ objs' = [s \in Sockets |-> "null"]
  /\ RouterLoses
  /\ ctl' = "idle"
  /\ UNCHANGED <<starts, running, repOn, routerOn, repVars, rtVars, reqVars,
                 joined, life, posts, inbox, dataVars>>

Control == StartBind \/ StartRep \/ StartRouter \/ StopBegin \/ StopJoinRep \/ StopJoinRouter

-----------------------------------------------------------------------------
(* The REP thread: BackgroundLoop, PollOnce and HandleRepRequest.          *)

RepTop ==
  /\ repPc = "top"
  /\ repPc' = IF repOn THEN "poll" ELSE "off"
  /\ UNCHANGED <<ctlVars, repReq, repAnswer, rtVars, reqVars, dealerVars, dataVars>>

RepTimeout ==
  /\ repPc = "poll"
  /\ repPc' = "top"
  /\ UNCHANGED <<ctlVars, repReq, repAnswer, rtVars, reqVars, dealerVars, dataVars>>

RepRecv(c) ==
  /\ repPc = "poll"
  /\ \E r \in requests :
       /\ r.client = c
       /\ repReq' = r
       /\ requests' = requests \ {r}
  /\ repPc' = "handle"
  /\ UNCHANGED <<ctlVars, repAnswer, rtVars, tickets, asking, answers, dealerVars, dataVars>>

Reply(what, names) == repAnswer' = [what |-> what, names |-> names] /\ repPc' = "reply"
ReplyAfterBroadcast(what) ==
  repAnswer' = [what |-> what, names |-> {}] /\ repPc' = "publish"

(* Mutants: the identity is not checked; is_new is read after the entry is  *)
(* written.                                                                *)
HandleRegister_AnyIdentity(call) ==
  /\ call.cmd = "register" /\ call.name # Empty
  /\ clients' = [n \in DOMAIN clients \cup {call.name} |->
                   IF n = call.name THEN call.identity ELSE clients[n]]
  /\ Count("registrations") /\ ReplyAfterBroadcast("registered")
HandleRegister_IsNewTooLate(call) ==
  /\ call.cmd = "register" /\ call.name # Empty /\ call.identity # Empty
  /\ clients' = [n \in DOMAIN clients \cup {call.name} |->
                   IF n = call.name THEN call.identity ELSE clients[n]]
  /\ Count("registrations") /\ Reply("updated", {})

(* Under m_clients_mutex: the map entry and the registrations counter.     *)
HandleRegister(call) ==
  /\ call.cmd = "register" /\ call.name # Empty /\ call.identity # Empty
  /\ clients' = [n \in DOMAIN clients \cup {call.name} |->
                   IF n = call.name THEN call.identity ELSE clients[n]]
  /\ Count("registrations")
  /\ \/ call.name \notin DOMAIN clients /\ ReplyAfterBroadcast("registered")
     \/ call.name \in DOMAIN clients /\ Reply("updated", {})

(* Mutant: only a register is announced.                                   *)
HandleUnregister_Silent(call) ==
  /\ call.cmd = "unregister" /\ call.name # Empty
  /\ clients' = [n \in DOMAIN clients \ {call.name} |-> clients[n]]
  /\ Reply("unregistered", {})
  /\ UNCHANGED stats

HandleUnregister(call) ==
  /\ call.cmd = "unregister" /\ call.name # Empty
  /\ clients' = [n \in DOMAIN clients \ {call.name} |-> clients[n]]
  /\ ReplyAfterBroadcast("unregistered")
  /\ UNCHANGED stats

HandleQuery(call) ==
  /\ \/ call.cmd = "list" /\ Reply("names", DOMAIN clients)
     \/ call.cmd = "stats" /\ Reply("stats", {})
  /\ UNCHANGED <<clients, stats>>

Refused(call) ==
  \/ call.cmd = "other"
  \/ call.cmd \in {"register", "unregister"} /\ call.name = Empty
  \/ call.cmd = "register" /\ call.identity = Empty

(* Mutant: a refused request gets no reply.                                *)
HandleRefused_NoReply(call) ==
  /\ Refused(call)
  /\ repPc' = "top"
  /\ UNCHANGED <<clients, stats, repAnswer>>

HandleRefused(call) ==
  /\ Refused(call)
  /\ Reply("refused", {})
  /\ UNCHANGED <<clients, stats>>

RepHandle ==
  /\ repPc = "handle"
  /\ \/ HandleRegister(repReq.call)
     \/ HandleUnregister(repReq.call)
     \/ HandleQuery(repReq.call)
     \/ HandleRefused(repReq.call)
  /\ UNCHANGED <<ctlVars, repReq, rtVars, reqVars, dealerVars, announced>>

(* Broadcast: m_pub->Publish, whose failure is not looked at, and then the *)
(* broadcasts counter under its own lock.                                  *)
RepPublish ==
  /\ repPc = "publish"
  /\ \E heard \in BOOLEAN :
       announced' = [announced EXCEPT ![repReq.call.name] =
                       IF ~heard THEN "unknown"
                       ELSE IF repReq.call.cmd = "register" THEN "in" ELSE "out"]
  /\ repPc' = "count"
  /\ UNCHANGED <<ctlVars, repReq, repAnswer, rtVars, reqVars, dealerVars, clients, stats>>

RepCount ==
  /\ repPc = "count"
  /\ Count("broadcasts")
  /\ repPc' = "reply"
  /\ UNCHANGED <<ctlVars, repReq, repAnswer, rtVars, reqVars, dealerVars, clients, announced>>

(* The reply reaches its client only when that one still waits for it.     *)
RepReply ==
  LET c == repReq.client IN
  /\ repPc = "reply"
  /\ IF asking[c] = repReq.ticket
     THEN /\ answers' = answers \cup {[request |-> repReq, answer |-> repAnswer]}
          /\ asking' = [asking EXCEPT ![c] = 0]
     ELSE UNCHANGED <<answers, asking>>
  /\ repPc' = "top" /\ repReq' = None /\ repAnswer' = None
  /\ UNCHANGED <<ctlVars, rtVars, requests, tickets, dealerVars, dataVars>>

RepStep == RepTop \/ RepTimeout \/ RepHandle \/ RepPublish \/ RepCount \/ RepReply

-----------------------------------------------------------------------------
(* The ROUTER thread: RecvLoop and HandleRouterMessage.                    *)

RouterTop ==
  /\ rtPc = "top"
  /\ rtPc' = IF routerOn THEN "poll" ELSE "off"
  /\ UNCHANGED <<ctlVars, repVars, rtMsg, rtId, rtSent, taken, reqVars, dealerVars, dataVars>>

(* Mutant: a poll that finds nothing ends the loop.                        *)
RouterTimeout_EndsLoop ==
  /\ rtPc = "poll"
  /\ rtPc' = "off"
  /\ UNCHANGED <<ctlVars, repVars, rtMsg, rtId, rtSent, taken, reqVars, dealerVars, dataVars>>

RouterTimeout ==
  /\ rtPc = "poll"
  /\ rtPc' = "top"
  /\ UNCHANGED <<ctlVars, repVars, rtMsg, rtId, rtSent, taken, reqVars, dealerVars, dataVars>>

(* A signal makes zmq::poll throw, which nobody catches: std::terminate    *)
(* ends the process, whatever its other threads are in the middle of.      *)
RouterInterrupted ==
  /\ rtPc = "poll"
  /\ ctl' = "ended" /\ running' = FALSE /\ repOn' = FALSE /\ routerOn' = FALSE
  /\ objs' = [s \in Sockets |-> "null"]
  /\ repPc' = "off" /\ repReq' = None /\ repAnswer' = None /\ rtPc' = "off"
  /\ requests' \in SUBSET requests /\ RouterLoses
  /\ UNCHANGED <<starts, rtMsg, rtId, rtSent, taken, tickets, asking, answers,
                 joined, life, posts, inbox, dataVars>>

(* One connection of a peer is FIFO; two connections of it are two pipes.  *)
FirstOfItsLife(q, i) == \A j \in 1..(i - 1) : q[j].life # q[i].life

RouterRecv(d) ==
  /\ rtPc = "poll"
  /\ \E i \in 1..Len(outbox[d]) :
       /\ FirstOfItsLife(outbox[d], i)
       /\ rtMsg' = outbox[d][i]
       /\ outbox' = [outbox EXCEPT ![d] = SubSeq(@, 1, i - 1) \o SubSeq(@, i + 1, Len(@))]
  /\ taken' = taken + 1
  /\ rtPc' = "resolve"
  /\ UNCHANGED <<ctlVars, repVars, rtId, rtSent, reqVars, joined, life, posts, inbox, dataVars>>

(* Mutant: an unknown target is not counted as an error.                   *)
RouterResolve_NotCounted ==
  /\ rtPc = "resolve"
  /\ \/ /\ rtMsg.target \in DOMAIN clients
        /\ rtId' = clients[rtMsg.target] /\ rtPc' = "send"
     \/ /\ rtMsg.target \notin DOMAIN clients
        /\ rtId' = rtId /\ rtPc' = "top"
  /\ UNCHANGED <<ctlVars, repVars, rtMsg, rtSent, taken, reqVars, dealerVars, dataVars>>

(* FindClientIdentity, under m_clients_mutex, which is released before the *)
(* message is sent.                                                        *)
RouterResolve ==
  /\ rtPc = "resolve"
  /\ \/ /\ rtMsg.target \in DOMAIN clients
        /\ rtId' = clients[rtMsg.target] /\ rtPc' = "send"
     \/ /\ rtMsg.target \notin DOMAIN clients
        /\ rtId' = rtId /\ rtPc' = "count"
  /\ UNCHANGED <<ctlVars, repVars, rtMsg, rtSent, taken, reqVars, dealerVars, dataVars>>

(* Mutant: a message that could not be sent is put back to be tried again. *)
RouterSend_PutBack ==
  /\ rtPc = "send"
  /\ \/ /\ rtId \in joined
        /\ inbox' = [inbox EXCEPT ![rtId] = Append(@, rtMsg)] /\ rtSent' = TRUE
        /\ rtPc' = "count" /\ UNCHANGED <<rtMsg, rtId, taken, outbox>>
     \/ /\ rtSent' = TRUE /\ rtPc' = "count" /\ UNCHANGED <<rtMsg, rtId, taken, inbox, outbox>>
     \/ /\ outbox' = [outbox EXCEPT ![rtMsg.from] = Append(@, rtMsg)]
        /\ taken' = taken - 1 /\ rtPc' = "top" /\ rtMsg' = None /\ rtId' = Empty
        /\ UNCHANGED <<rtSent, inbox>>
  /\ UNCHANGED <<ctlVars, repVars, reqVars, joined, life, posts, dataVars>>

(* A ROUTER socket without ROUTER_MANDATORY drops what it cannot deliver   *)
(* and reports success; an error of the socket reports failure.            *)
RouterSend ==
  /\ rtPc = "send"
  /\ \/ /\ rtId \in joined
        /\ inbox' = [inbox EXCEPT ![rtId] = Append(@, rtMsg)] /\ rtSent' = TRUE
     \/ UNCHANGED inbox /\ rtSent' = TRUE
     \/ UNCHANGED inbox /\ rtSent' = FALSE
  /\ rtPc' = "count"
  /\ UNCHANGED <<ctlVars, repVars, rtMsg, rtId, taken, reqVars,
                 joined, life, posts, outbox, dataVars>>

RouterCount ==
  /\ rtPc = "count"
  /\ Count(IF rtSent THEN "messages_routed" ELSE "errors")
  /\ rtPc' = "top" /\ rtMsg' = None /\ rtId' = Empty /\ rtSent' = FALSE
  /\ UNCHANGED <<ctlVars, repVars, taken, reqVars, dealerVars, clients, announced>>

RouterStep == RouterTop \/ RouterTimeout \/ RouterResolve \/ RouterSend \/ RouterCount

-----------------------------------------------------------------------------
(* The environment.                                                        *)

Ask(c) ==
  /\ asking[c] = 0 /\ tickets < MaxRequests
  /\ tickets' = tickets + 1
  /\ asking' = [asking EXCEPT ![c] = tickets + 1]
  /\ \E call \in Calls :
       requests' = requests \cup {[ticket |-> tickets + 1, client |-> c, call |-> call]}
  /\ UNCHANGED <<ctlVars, repVars, rtVars, answers, dealerVars, dataVars>>

(* A client that times out closes its socket; what it had sent may already *)
(* be on its way.                                                          *)
GiveUp(c) ==
  /\ asking[c] # 0
  /\ asking' = [asking EXCEPT ![c] = 0]
  /\ \/ UNCHANGED requests
     \/ requests' = {r \in requests : r.ticket # asking[c]}
  /\ UNCHANGED <<ctlVars, repVars, rtVars, tickets, answers, dealerVars, dataVars>>

Join(d) ==
  /\ d \notin joined /\ life[d] < MaxLives
  /\ joined' = joined \cup {d}
  /\ life' = [life EXCEPT ![d] = @ + 1]
  /\ UNCHANGED <<ctlVars, repVars, rtVars, reqVars, posts, outbox, inbox, dataVars>>

Leave(d) ==
  /\ d \in joined
  /\ joined' = joined \ {d}
  /\ inbox' = [inbox EXCEPT ![d] = <<>>]
  /\ \E k \in 0..Len(outbox[d]) : outbox' = [outbox EXCEPT ![d] = SubSeq(@, 1, k)]
  /\ UNCHANGED <<ctlVars, repVars, rtVars, reqVars, life, posts, dataVars>>

Post(d) ==
  /\ d \in joined /\ posts < MaxMessages
  /\ posts' = posts + 1
  /\ \E n \in Names \cup {Empty} :
       outbox' = [outbox EXCEPT ![d] =
         Append(@, [from |-> d, life |-> life[d], seq |-> posts + 1, target |-> n])]
  /\ UNCHANGED <<ctlVars, repVars, rtVars, reqVars, joined, life, inbox, dataVars>>

Environment ==
  \/ \E c \in Requesters : Ask(c) \/ GiveUp(c)
  \/ \E d \in Ids : Join(d) \/ Leave(d) \/ Post(d)

-----------------------------------------------------------------------------
Next ==
  \/ Control
  \/ RepStep \/ \E c \in Requesters : RepRecv(c)
  \/ RouterStep \/ \E d \in Ids : RouterRecv(d)
  \/ RouterInterrupted
  \/ Environment

Spec == Init /\ [][Next]_vars

(* The operating system schedules every thread, and Stop, once called, is  *)
(* carried through; Start and StopBegin are the caller's choice, and no    *)
(* signal need ever come.  poll                                            *)
(* returns what has arrived and ZeroMQ takes from its peers in turn, hence *)
(* strong fairness for the two receives.                                   *)
Fairness ==
  /\ WF_vars(RepStep) /\ WF_vars(RouterStep)
  /\ \A c \in Requesters : SF_vars(RepRecv(c))
  /\ \A d \in Ids : SF_vars(RouterRecv(d))
  /\ WF_vars(StopJoinRep \/ StopJoinRouter)

FairSpec == Spec /\ Fairness

-----------------------------------------------------------------------------
(* Properties.                                                             *)

Counters == {"registrations", "messages_routed", "broadcasts", "errors"}

RepHandling == repPc \in {"handle", "publish", "count", "reply"}
RtHandling  == rtPc \in {"resolve", "send", "count"}

TypeThreads ==
  /\ ctl \in {"idle", "bound", "repStarted", "joinRep", "joinRouter", "ended"}
  /\ starts \in Nat /\ running \in BOOLEAN /\ repOn \in BOOLEAN /\ routerOn \in BOOLEAN
  /\ objs \in [Sockets -> {"null", "unbound", "bound"}]
  /\ repPc \in {"off", "top", "poll", "handle", "publish", "count", "reply"}
  /\ rtPc \in {"off", "top", "poll", "resolve", "send", "count"}

TypeLocals ==
  /\ IF RepHandling THEN repReq \in Request ELSE repReq = None
  /\ IF repPc \in {"publish", "count", "reply"} THEN repAnswer \in Answer ELSE repAnswer = None
  /\ IF RtHandling THEN rtMsg \in Message ELSE rtMsg = None
  /\ rtId \in Ids \cup {Empty} /\ (rtPc = "send" => rtId \in Ids)
  /\ rtSent \in BOOLEAN

TypeData ==
  /\ DOMAIN clients \subseteq Names /\ clients \in [DOMAIN clients -> Ids]
  /\ stats \in [Counters -> Nat]
  /\ announced \in [Names -> {"in", "out", "unknown"}]

TypeRequests ==
  /\ requests \subseteq Request
  /\ tickets \in 0..MaxRequests /\ asking \in [Requesters -> 0..MaxRequests]
  /\ answers \subseteq [request : Request, answer : Answer]

TypePeers ==
  /\ joined \subseteq Ids /\ life \in [Ids -> 0..MaxLives] /\ posts \in 0..MaxMessages
  /\ \A d \in joined : life[d] > 0
  /\ outbox \in [Ids -> Seq(Message)] /\ inbox \in [Ids -> Seq(Message)]
  /\ taken \in Nat

(* Every variable keeps its type; a name is never bound to the empty       *)
(* identity, which FindClientIdentity could not tell from "not found"      *)
(* (gateway.cpp:190, 282).                                                 *)
TypeOK == TypeThreads /\ TypeLocals /\ TypeData /\ TypeRequests /\ TypePeers

(* Which threads run and which sockets are open in every phase of Start    *)
(* and Stop: what the order of their steps maintains, since neither        *)
(* function inspects the threads.                                          *)
ThreadPhases ==
  /\ running => ctl = "idle"
  /\ (ctl \in {"bound", "ended"} \/ (ctl = "idle" /\ ~running)) => repPc = "off" /\ rtPc = "off"
  /\ ctl = "repStarted" => rtPc = "off"
  /\ ctl = "joinRouter" => repPc = "off" /\ {objs["router"], objs["pub"]} = {"bound"}
  /\ (ctl \in {"bound", "repStarted", "joinRep"} \/ running) =>
        \A s \in Sockets : objs[s] = "bound"

(* A background thread only runs while the sockets it dereferences exist   *)
(* and are bound: the REP thread uses m_rep and, in Broadcast, m_pub; the  *)
(* ROUTER thread m_router.  Start and Stop check nothing of the kind; the  *)
(* order of their steps has to give it (gateway.cpp:112-141, 143-162).     *)
SocketsOutliveThreads ==
  /\ repPc # "off" => objs["rep"] = "bound" /\ objs["pub"] = "bound"
  /\ rtPc # "off" => objs["router"] = "bound"

(* Lifetimes of threads and sockets: both of the above, in every order of  *)
(* Start, its bind failures and Stop (gateway.cpp:74-162).                 *)
LifetimesKept == SocketsOutliveThreads /\ ThreadPhases

(* What the PUB socket last said of a name is what the table says, but for *)
(* the name whose announcement is being made and those whose last          *)
(* announcement failed (Broadcast drops Publish's result,                  *)
(* gateway.cpp:332-341).  A process that has ended has no table.           *)
AnnouncedAgrees ==
  \A n \in Names :
    \/ announced[n] = "unknown" \/ ctl = "ended"
    \/ repPc = "publish" /\ repReq.call.name = n
    \/ announced[n] = "in" <=> n \in DOMAIN clients

(* Every message the ROUTER thread takes ends in exactly one of            *)
(* messages_routed and errors (gateway.cpp:253-305).                       *)
RoutingAccounted ==
  stats["messages_routed"] + stats["errors"] + (IF RtHandling THEN 1 ELSE 0) = taken

(* Two messages that reach a peer from one connection of another arrive in *)
(* the order they were posted in, and none arrives twice, whatever becomes *)
(* of those that SendTo fails to send (gateway.cpp:291-304).               *)
DeliveredInOrder ==
  \A d \in Ids : \A i, j \in 1..Len(inbox[d]) :
    LET m == inbox[d][i]
        k == inbox[d][j]
    IN  (i < j /\ m.from = k.from /\ m.life = k.life) => m.seq < k.seq

(* What the state means to module Switchboard.  A request waits until      *)
(* RepHandle applies it, and is applied until RepReply; a message is       *)
(* posted until RouterResolve, and routed until RouterSend.                *)
Binding == {<<n, clients[n]>> : n \in DOMAIN clients}
Waiting == requests \cup (IF repPc = "handle" THEN {repReq} ELSE {})
Applied == IF repPc \in {"publish", "count", "reply"}
           THEN {[request |-> repReq, answer |-> repAnswer]} ELSE {}
Posted  == (UNION {{outbox[d][i] : i \in 1..Len(outbox[d])} : d \in Ids})
             \cup (IF rtPc = "resolve" THEN {rtMsg} ELSE {})
Routed  == IF rtPc = "send" THEN {[message |-> rtMsg, to |-> rtId]} ELSE {}

(* The threads, locks and sockets implement the atomic name table and      *)
(* message switch of module Switchboard.                                   *)
SB == INSTANCE Switchboard WITH
        Lives   <- 1..MaxLives, binding <- Binding, made     <- tickets,
        waiting <- Waiting,     applied <- Applied, posted   <- Posted,
        routed  <- Routed,      received <- inbox
ImplementsSwitchboard == SB!Spec

Travelling(t) == \E r \in requests : r.ticket = t

(* While the gateway runs, a request that reaches it is answered, unless   *)
(* its client stops waiting or a signal comes (HandleRepRequest returns a  *)
(* reply on every path, gateway.cpp:176-251).                              *)
RequestsAnswered ==
  \A c \in Requesters, t \in 1..MaxRequests :
    (running /\ asking[c] = t /\ Travelling(t)) ~> (~running \/ asking[c] # t)

Unhandled(k) ==
  \/ \E d \in Ids : \E i \in 1..Len(outbox[d]) : outbox[d][i].seq = k
  \/ RtHandling /\ rtMsg.seq = k

(* While the gateway runs, every message posted is taken and counted.      *)
MessagesHandled ==
  \A k \in 1..MaxMessages : (running /\ Unhandled(k)) ~> (~running \/ ~Unhandled(k))

(* Stop returns, whatever the two threads are in the middle of             *)
(* (gateway.cpp:143-162), unless a signal ends the process.                *)
StopReturns == (ctl \in {"joinRep", "joinRouter"}) ~> (ctl \in {"idle", "ended"})
=============================================================================
