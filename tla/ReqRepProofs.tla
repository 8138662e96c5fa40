---------------------------- MODULE ReqRepProofs ----------------------------
(***************************************************************************)
(* Theorems about module ReqRep.  A stale reply is impossible because a    *)
(* REQ socket that is ready has nothing in flight on its connection: a     *)
(* request is in one place only, and the reply that makes the socket ready *)
(* again was the last of it.  A socket whose call gave up is never ready   *)
(* again, and a new connection does not see what belongs to an old one.    *)
(***************************************************************************)
EXTENDS ReqRep, TLAPS

USE PollersAssumption, NoneAssumption, BoundsAssumption

Held == {pollReq[p] : p \in Pollers} \ {None}
InFlight == requests \cup replies \cup Held

(* A request is in one place only.                                         *)
OnePlace ==
  /\ requests \cap replies = {}
  /\ \A p \in Pollers : pollReq[p] \notin requests \cup replies
  /\ \A p, q \in Pollers : (pollReq[p] = pollReq[q] /\ pollReq[p] # None) => p = q

(* What is in flight on the connection a requester has now.                *)
Current(c) == {r \in InFlight : r.client = c /\ r.conn = conn[c]}

TicketsUsed ==
  \A r \in InFlight : r.ticket <= tickets /\ r.conn <= conn[r.client]

OneAtATime ==
  \A c \in Clients :
    /\ sock[c] = "ready" => Current(c) = {}
    /\ calling[c] # 0 => \A r \in Current(c) : r.ticket = calling[c]

PollersHold ==
  \A p \in Pollers : pollReq[p] # None <=> pollPc[p] = "handling"

ClosesAfterJoin == ctl = "close" => ~joinable

Threads == LoopOutlived /\ ClosesAfterJoin

Inv == TypeOK /\ Threads /\ PollersHold /\ OnePlace /\ TicketsUsed /\ OneAtATime /\ NoStaleReply

LEMMA InvInit == Init => Inv
<1> SUFFICES ASSUME Init PROVE Inv
  OBVIOUS
<1> USE DEF Init
<1>1. TypeReplier
  <2>1. gens \in 0..MaxGens /\ m_sock \in 0..gens
    OBVIOUS
  <2>2. open \subseteq 1..gens /\ owes \subseteq 0..gens
    OBVIOUS
  <2> QED
    BY <2>1, <2>2 DEF TypeReplier
<1>2. TypePollers
  BY DEF TypePollers
<1>3. TypeClients
  BY DEF TypeClients
<1>4. InFlight = {}
  BY DEF InFlight, Held
<1>5. PollersHold /\ OnePlace /\ NoStaleReply
  BY DEF PollersHold, OnePlace, NoStaleReply
<1>6. TicketsUsed /\ OneAtATime
  BY <1>4 DEF TicketsUsed, OneAtATime, Current
<1>7. Threads
  BY DEF Threads, LoopOutlived, ClosesAfterJoin
<1> QED
  BY <1>1, <1>2, <1>3, <1>5, <1>6, <1>7 DEF Inv, TypeOK

-----------------------------------------------------------------------------
(* Types.                                                                  *)

LEMMA TypeControl == TypeOK /\ Threads /\ Control => TypeOK'
<1> SUFFICES ASSUME TypeOK, Threads, Control PROVE TypeOK'
  OBVIOUS
<1> USE DEF TypeOK, ctlVars, sockVars, pollVars, reqVars, netVars
<1>1. TypeReplier'
  <2> USE DEF TypeReplier
  <2>1. CASE Bind
    BY <2>1 DEF Bind
  <2>2. CASE SetHandler
    BY <2>2 DEF SetHandler
  <2>3. CASE StartBackground
    BY <2>3 DEF StartBackground
  <2>4. CASE StopBegin
    BY <2>4 DEF StopBegin
  <2>5. CASE StopJoin
    BY <2>5 DEF StopJoin
  <2>6. CASE StopClose
    <3>1. open' \subseteq open /\ m_sock' = 0 /\ ctl' = "idle"
      BY <2>6 DEF StopClose
    <3>2. UNCHANGED <<gens, owes, handler, joinable, running, termed>>
      BY <2>6 DEF StopClose
    <3> QED
      BY <3>1, <3>2
  <2> QED
    BY <2>1, <2>2, <2>3, <2>4, <2>5, <2>6 DEF Control
<1>2. TypePollers'
  <2> USE DEF TypePollers
  <2>1. CASE Bind
    <3>1. gens \in Nat /\ gens' = gens + 1 /\ 0..gens \subseteq 0..gens'
      BY <2>1 DEF Bind, TypeReplier
    <3> QED
      BY <2>1, <3>1 DEF Bind
  <2>2. CASE StartBackground
    <3>1. pollPc[Background] = "off"
      BY <2>2 DEF StartBackground, Threads, LoopOutlived
    <3> QED
      BY <2>2, <3>1 DEF StartBackground
  <2>3. CASE StopJoin
    BY <2>3 DEF StopJoin
  <2>4. CASE SetHandler \/ StopBegin \/ StopClose
    BY <2>4 DEF SetHandler, StopBegin, StopClose
  <2> QED
    BY <2>1, <2>2, <2>3, <2>4 DEF Control
<1>3. TypeClients'
  BY DEF TypeClients, Control, Bind, SetHandler, StartBackground, StopBegin, StopJoin, StopClose
<1> QED
  BY <1>1, <1>2, <1>3

LEMMA TypePoll ==
  ASSUME TypeOK, PollersHold, NEW p \in Pollers, LoopTop \/ PollStep(p)
  PROVE  TypeOK' /\ PollersHold'
<1> USE DEF TypeOK, ctlVars, sockVars, pollVars, reqVars, netVars
<1>1. TypeReplier'
  <2> USE DEF TypeReplier
  <2>1. CASE LoopTop \/ PollBegin(p)
    BY <2>1 DEF LoopTop, PollBegin
  <2>2. CASE PollNothing(p) \/ PollTermed(p) \/ PollReply(p)
    <3>1. open' \subseteq open /\ owes' \subseteq owes /\ running' \in BOOLEAN
      BY <2>2 DEF PollNothing, PollTermed, PollReply, LetGo
    <3>2. UNCHANGED <<ctl, gens, handler, joinable, m_sock, termed>>
      BY <2>2 DEF PollNothing, PollTermed, PollReply
    <3> QED
      BY <3>1, <3>2
  <2>3. CASE PollRecv(p)
    <3>1. pollSock[p] \in 0..gens
      BY DEF TypePollers
    <3> QED
      BY <2>3, <3>1 DEF PollRecv
  <2> QED
    BY <2>1, <2>2, <2>3 DEF PollStep
<1>2. TypePollers' /\ PollersHold'
  <2> USE DEF TypePollers, PollersHold
  <2>1. CASE LoopTop
    BY <2>1 DEF LoopTop
  <2>2. CASE PollBegin(p)
    BY <2>2 DEF PollBegin, Back, TypeReplier
  <2>3. CASE PollNothing(p) \/ PollTermed(p) \/ PollReply(p)
    <3>1. LetGo(p) /\ gens' = gens
      BY <2>3 DEF PollNothing, PollTermed, PollReply
    <3> QED
      BY <3>1 DEF LetGo, Back, TypeReplier
  <2>4. CASE PollRecv(p)
    <3>1. PICK r \in requests : pollReq' = [pollReq EXCEPT ![p] = r]
      BY <2>4 DEF PollRecv
    <3>2. r \in Request /\ r # None
      BY DEF TypeClients, Request
    <3> QED
      BY <2>4, <3>1, <3>2 DEF PollRecv
  <2> QED
    BY <2>1, <2>2, <2>3, <2>4 DEF PollStep
<1>3. TypeClients'
  <2> USE DEF TypeClients
  <2>1. CASE PollReply(p)
    <3>1. pollReq[p] \in Request
      BY <2>1 DEF PollReply, TypePollers
    <3> QED
      BY <2>1, <3>1 DEF PollReply
  <2>2. CASE LoopTop \/ PollBegin(p) \/ PollNothing(p) \/ PollTermed(p) \/ PollRecv(p)
    BY <2>2 DEF LoopTop, PollBegin, PollNothing, PollTermed, PollRecv
  <2> QED
    BY <2>1, <2>2 DEF PollStep
<1> QED
  BY <1>1, <1>2, <1>3

LEMMA TypeClient ==
  ASSUME TypeOK, NEW c \in Clients, ClientStep(c)
  PROVE  TypeOK'
<1> USE DEF TypeOK, ctlVars, sockVars, pollVars, reqVars, netVars
<1>1. TypeReplier' /\ TypePollers'
  BY DEF TypeReplier, TypePollers, ClientStep, Connect, Disconnect, RequestSend, RequestReturns,
         RequestGivesUp
<1>2. TypeClients'
  <2> USE DEF TypeClients
  <2>1. CASE Connect(c)
    BY <2>1 DEF Connect
  <2>2. CASE Disconnect(c)
    BY <2>2 DEF Disconnect
  <2>3. CASE RequestSend(c)
    <3>1. [ticket |-> tickets + 1, client |-> c, conn |-> conn[c]] \in Request
      BY <2>3 DEF RequestSend, Request
    <3> QED
      BY <2>3, <3>1 DEF RequestSend
  <2>4. CASE RequestReturns(c)
    <3>1. PICK r \in replies :
            /\ r.client = c /\ r.conn = conn[c]
            /\ replies' = replies \ {r}
            /\ returned' = returned \cup {[call |-> calling[c], reply |-> r.ticket]}
      BY <2>4 DEF RequestReturns
    <3>2. r.ticket \in 1..MaxTickets /\ calling[c] \in 1..MaxTickets
      BY <2>4 DEF RequestReturns, Request
    <3> QED
      BY <2>4, <3>1, <3>2 DEF RequestReturns
  <2>5. CASE RequestGivesUp(c)
    BY <2>5 DEF RequestGivesUp
  <2> QED
    BY <2>1, <2>2, <2>3, <2>4, <2>5 DEF ClientStep
<1> QED
  BY <1>1, <1>2

LEMMA ThreadsNext == TypeOK /\ Threads /\ [Next]_vars => Threads'
<1> SUFFICES ASSUME TypeOK, Threads, [Next]_vars PROVE Threads'
  OBVIOUS
<1> USE DEF Threads, LoopOutlived, ClosesAfterJoin,
            ctlVars, sockVars, pollVars, reqVars, netVars
<1>0. /\ pollPc \in [Pollers -> {"off", "top", "idle", "polling", "handling", "ended"}]
      /\ gens \in Nat /\ joinable \in BOOLEAN
  BY DEF TypeOK, TypePollers, TypeReplier
<1>1. CASE Bind
  BY <1>0, <1>1 DEF Bind
<1>2. CASE SetHandler \/ StopBegin
  BY <1>2 DEF SetHandler, StopBegin
<1>3. CASE StartBackground
  BY <1>0, <1>3 DEF StartBackground
<1>4. CASE StopJoin
  BY <1>0, <1>4 DEF StopJoin
<1>5. CASE StopClose
  BY <1>5 DEF StopClose
<1>6. CASE LoopTop
  BY <1>0, <1>6 DEF LoopTop
<1>7. ASSUME NEW p \in Pollers, PollStep(p) PROVE Threads'
  <2>1. pollPc[p] # "off" /\ UNCHANGED <<ctl, joinable, m_sock>>
    BY <1>7 DEF PollStep, PollBegin, PollNothing, PollTermed, PollRecv, PollReply
  <2>2. PICK label : pollPc' = [pollPc EXCEPT ![p] = label]
    BY <1>7 DEF PollStep, PollBegin, PollNothing, PollTermed, PollRecv, PollReply, LetGo
  <2> QED
    BY <1>0, <2>1, <2>2
<1>8. ASSUME NEW c \in Clients, ClientStep(c) PROVE Threads'
  BY <1>8 DEF ClientStep, Connect, Disconnect, RequestSend, RequestReturns, RequestGivesUp
<1>9. CASE Terminate \/ UNCHANGED vars
  BY <1>9 DEF Terminate, vars
<1> QED
  BY <1>1, <1>2, <1>3, <1>4, <1>5, <1>6, <1>7, <1>8, <1>9 DEF Next, Control

-----------------------------------------------------------------------------
(* Replies.                                                                *)

Flight == TicketsUsed /\ OneAtATime /\ NoStaleReply

LEMMA HeldAreRequests == TypeOK => InFlight \subseteq Request
BY DEF TypeOK, TypePollers, TypeClients, InFlight, Held

(* What is in flight may dwindle without harm.                             *)
LEMMA Dwindles ==
  ASSUME Flight, InFlight' \subseteq InFlight, UNCHANGED reqVars
  PROVE  Flight'
<1>1. \A c \in Clients : Current(c)' \subseteq Current(c)
  BY DEF Current, reqVars
<1> QED
  BY <1>1 DEF Flight, TicketsUsed, OneAtATime, NoStaleReply, reqVars

LEMMA FlightControl ==
  ASSUME OnePlace, Flight, Control
  PROVE  OnePlace' /\ Flight'
<1>1. /\ requests' \subseteq requests /\ UNCHANGED <<replies, pollReq>>
      /\ UNCHANGED reqVars
  BY DEF Control, Bind, SetHandler, StartBackground, StopBegin, StopJoin, StopClose,
         pollVars, netVars
<1>2. InFlight' \subseteq InFlight
  BY <1>1 DEF InFlight, Held
<1> QED
  BY <1>1, <1>2, Dwindles DEF OnePlace

LEMMA FlightPoll ==
  ASSUME TypeOK, PollersHold, OnePlace, Flight, NEW p \in Pollers, LoopTop \/ PollStep(p)
  PROVE  OnePlace' /\ Flight'
<1>0. /\ pollReq \in [Pollers -> Request \cup {None}]
      /\ requests \subseteq Request /\ replies \subseteq Request /\ None \notin Request
  BY DEF TypeOK, TypePollers, TypeClients, Request
<1>1. UNCHANGED reqVars
  BY DEF LoopTop, PollStep, PollBegin, PollNothing, PollTermed, PollRecv, PollReply
<1>2. CASE LoopTop \/ PollBegin(p)
  <2>1. UNCHANGED <<requests, replies, pollReq>>
    BY <1>2 DEF LoopTop, PollBegin, pollVars, netVars
  <2>2. InFlight' = InFlight
    BY <2>1 DEF InFlight, Held
  <2> QED
    BY <1>1, <2>1, <2>2, Dwindles DEF OnePlace
<1>3. CASE PollNothing(p) \/ PollTermed(p)
  <2>1. UNCHANGED <<requests, replies>> /\ pollReq' = [pollReq EXCEPT ![p] = None]
    BY <1>3 DEF PollNothing, PollTermed, LetGo, netVars
  <2>2. InFlight' \subseteq InFlight /\ OnePlace'
    BY <1>0, <2>1 DEF InFlight, Held, OnePlace
  <2> QED
    BY <1>1, <2>2, Dwindles
<1>4. CASE PollRecv(p)
  <2>1. PICK r \in requests : /\ requests' = requests \ {r}
                              /\ pollReq' = [pollReq EXCEPT ![p] = r]
    BY <1>4 DEF PollRecv
  <2>2. replies' = replies
    BY <1>4 DEF PollRecv
  <2>3. OnePlace'
    BY <1>0, <2>1, <2>2 DEF OnePlace
  <2>4. InFlight' \subseteq InFlight
    BY <1>0, <2>1, <2>2 DEF InFlight, Held
  <2> QED
    BY <1>1, <2>3, <2>4, Dwindles
<1>5. CASE PollReply(p)
  <2>1. /\ requests' = requests /\ replies' \subseteq replies \cup {pollReq[p]}
        /\ pollReq' = [pollReq EXCEPT ![p] = None] /\ pollReq[p] # None
    BY <1>5 DEF PollReply, LetGo, PollersHold
  <2>2. OnePlace'
    BY <1>0, <2>1 DEF OnePlace
  <2>3. InFlight' \subseteq InFlight
    BY <1>0, <2>1 DEF InFlight, Held
  <2> QED
    BY <1>1, <2>2, <2>3, Dwindles
<1> QED
  BY <1>2, <1>3, <1>4, <1>5 DEF PollStep

LEMMA FlightClient ==
  ASSUME TypeOK, OnePlace, Flight, NEW c \in Clients, ClientStep(c)
  PROVE  OnePlace' /\ Flight'
<1>0. /\ sock \in [Clients -> {"none", "ready", "awaiting"}]
      /\ conn \in [Clients -> Nat] /\ calling \in [Clients -> Nat] /\ tickets \in Nat
      /\ InFlight \subseteq Request
      /\ \A d \in Clients : calling[d] # 0 => sock[d] = "awaiting"
  BY HeldAreRequests DEF TypeOK, TypeClients
<1>1. pollReq' = pollReq /\ Held' = Held
  BY DEF ClientStep, Connect, Disconnect, RequestSend, RequestReturns, RequestGivesUp,
         pollVars, Held
<1> USE DEF Flight
<1>2. CASE Connect(c)
  <2>1. /\ UNCHANGED <<requests, replies, calling, tickets, returned>>
        /\ sock' = [sock EXCEPT ![c] = "ready"] /\ conn' = [conn EXCEPT ![c] = @ + 1]
        /\ calling[c] = 0
    BY <1>2 DEF Connect, netVars
  <2>2. InFlight' = InFlight
    BY <1>1, <2>1 DEF InFlight
  <2>3. TicketsUsed'
    <3> SUFFICES ASSUME NEW r \in InFlight
                 PROVE  r.ticket <= tickets' /\ r.conn <= conn'[r.client]
      BY <2>2 DEF TicketsUsed
    <3>1. r.client \in Clients /\ r.conn \in Nat /\ r.conn <= conn[r.client]
      BY <1>0 DEF Request, TicketsUsed
    <3> QED
      BY <1>0, <2>1, <3>1 DEF TicketsUsed
  <2>4. Current(c)' = {}
    <3> SUFFICES ASSUME NEW r \in InFlight, r.client = c, r.conn = conn[c] + 1 PROVE FALSE
      BY <1>0, <2>1, <2>2 DEF Current
    <3> QED
      BY <1>0 DEF TicketsUsed
  <2>5. \A d \in Clients \ {c} : Current(d)' = Current(d)
    BY <1>0, <2>1, <2>2 DEF Current
  <2>6. OneAtATime'
    BY <1>0, <2>1, <2>4, <2>5 DEF OneAtATime
  <2> QED
    BY <1>1, <2>1, <2>3, <2>6 DEF OnePlace, NoStaleReply
<1>3. CASE Disconnect(c)
  <2>1. /\ requests' \subseteq requests /\ replies' \subseteq replies
        /\ UNCHANGED <<conn, calling, tickets, returned>>
        /\ sock' = [sock EXCEPT ![c] = "none"]
    BY <1>3 DEF Disconnect
  <2>2. InFlight' \subseteq InFlight
    BY <1>1, <2>1 DEF InFlight
  <2>3. \A d \in Clients : Current(d)' \subseteq Current(d)
    BY <2>1, <2>2 DEF Current
  <2>4. TicketsUsed'
    BY <2>1, <2>2 DEF TicketsUsed
  <2>5. OneAtATime'
    BY <1>0, <2>1, <2>3 DEF OneAtATime
  <2> QED
    BY <1>1, <2>1, <2>4, <2>5 DEF OnePlace, NoStaleReply
<1>4. CASE RequestSend(c)
  <2> DEFINE new == [ticket |-> tickets + 1, client |-> c, conn |-> conn[c]]
  <2>1. /\ requests' = requests \cup {new} /\ tickets' = tickets + 1
        /\ UNCHANGED <<conn, replies, returned>>
        /\ sock' = [sock EXCEPT ![c] = "awaiting"] /\ sock[c] = "ready"
        /\ calling' = [calling EXCEPT ![c] = tickets + 1]
    BY <1>4 DEF RequestSend
  <2>2. new.ticket = tickets + 1 /\ new.client = c /\ new.conn = conn[c]
    OBVIOUS
  <2>3. new \notin InFlight
    BY <1>0, <2>2 DEF TicketsUsed
  <2> HIDE DEF new
  <2>4. InFlight' = InFlight \cup {new}
    BY <1>1, <2>1 DEF InFlight
  <2>5. new # None
    BY <1>0, NoneAssumption DEF new
  <2>6. OnePlace'
    BY <1>1, <2>1, <2>3, <2>5 DEF OnePlace, InFlight, Held
  <2>7. TicketsUsed'
    <3> SUFFICES ASSUME NEW r \in InFlight \cup {new}
                 PROVE  r.ticket <= tickets + 1 /\ r.conn <= conn[r.client]
      BY <2>1, <2>4 DEF TicketsUsed
    <3>1. CASE r = new
      BY <1>0, <2>2, <3>1
    <3>2. CASE r \in InFlight
      <4>1. r.ticket \in Nat /\ r.ticket <= tickets /\ r.conn <= conn[r.client]
        BY <1>0, <3>2 DEF TicketsUsed, Request
      <4> QED
        BY <1>0, <4>1
    <3> QED
      BY <3>1, <3>2
  <2>8. Current(c)' = {new}
    <3>1. Current(c) = {}
      BY <2>1 DEF OneAtATime
    <3> QED
      BY <2>1, <2>2, <2>4, <3>1 DEF Current
  <2>9. \A d \in Clients \ {c} : Current(d)' = Current(d)
    BY <2>1, <2>2, <2>4 DEF Current
  <2>10. OneAtATime'
    BY <1>0, <2>1, <2>2, <2>8, <2>9 DEF OneAtATime
  <2> QED
    BY <2>1, <2>6, <2>7, <2>10 DEF NoStaleReply
<1>5. CASE RequestReturns(c)
  <2>1. PICK r \in replies :
          /\ r.client = c /\ r.conn = conn[c] /\ replies' = replies \ {r}
          /\ returned' = returned \cup {[call |-> calling[c], reply |-> r.ticket]}
    BY <1>5 DEF RequestReturns
  <2>2. /\ sock' = [sock EXCEPT ![c] = "ready"] /\ calling' = [calling EXCEPT ![c] = 0]
        /\ UNCHANGED <<conn, tickets, requests>> /\ calling[c] # 0
    BY <1>5 DEF RequestReturns
  <2>3. r \in InFlight /\ InFlight' = InFlight \ {r}
    BY <1>1, <2>1, <2>2 DEF InFlight, Held, OnePlace
  <2>4. \A s \in Current(c) : s.ticket = calling[c]
    BY <2>2 DEF OneAtATime
  <2>5. r \in Current(c) /\ r.ticket = calling[c]
    BY <2>1, <2>3, <2>4 DEF Current
  <2>6. Current(c)' = {}
    <3> SUFFICES ASSUME NEW s \in Current(c) PROVE s = r
      BY <2>2, <2>3 DEF Current
    <3>1. s.ticket = r.ticket /\ s.client = r.client /\ s.conn = r.conn
      BY <2>4, <2>5 DEF Current
    <3>2. s \in Request /\ r \in Request
      BY <1>0, <2>5 DEF Current
    <3> QED
      BY <3>1, <3>2 DEF Request
  <2>7. \A d \in Clients \ {c} : Current(d)' = Current(d)
    BY <2>1, <2>2, <2>3 DEF Current
  <2>8. TicketsUsed'
    BY <2>2, <2>3 DEF TicketsUsed
  <2>9. OneAtATime'
    BY <1>0, <2>2, <2>6, <2>7 DEF OneAtATime
  <2>10. NoStaleReply'
    BY <2>1, <2>5 DEF NoStaleReply
  <2> QED
    BY <1>1, <2>1, <2>2, <2>8, <2>9, <2>10 DEF OnePlace
<1>6. CASE RequestGivesUp(c)
  <2>1. /\ calling' = [calling EXCEPT ![c] = 0]
        /\ UNCHANGED <<sock, conn, tickets, requests, replies, returned>>
    BY <1>6 DEF RequestGivesUp, netVars
  <2>2. InFlight' = InFlight /\ \A d \in Clients : Current(d)' = Current(d)
    BY <1>1, <2>1 DEF InFlight, Current
  <2> QED
    BY <1>0, <1>1, <2>1, <2>2 DEF OnePlace, TicketsUsed, OneAtATime, NoStaleReply
<1> QED
  BY <1>2, <1>3, <1>4, <1>5, <1>6 DEF ClientStep

-----------------------------------------------------------------------------
LEMMA InvNext == Inv /\ [Next]_vars => Inv'
<1> SUFFICES ASSUME Inv, [Next]_vars PROVE Inv'
  OBVIOUS
<1> USE DEF Inv, Flight
<1>1. Threads'
  BY ThreadsNext
<1>2. CASE Control
  <2>1. PollersHold'
    <3>1. pollReq' = pollReq
      BY <1>2 DEF Control, Bind, SetHandler, StartBackground, StopBegin, StopJoin, StopClose, pollVars
    <3>2. \A p \in Pollers : pollPc'[p] = "handling" <=> pollPc[p] = "handling"
      <4>1. CASE StartBackground \/ StopJoin
        <5>1. PICK label \in {"top", "off"} :
                 pollPc' = [pollPc EXCEPT ![Background] = label] \/ pollPc' = pollPc
          BY <4>1 DEF StartBackground, StopJoin
        <5>2. pollPc[Background] # "handling" \/ pollPc' = pollPc
          BY <4>1 DEF StartBackground, StopJoin, Threads, LoopOutlived
        <5> QED
          BY <5>1, <5>2 DEF TypeOK, TypePollers
      <4>2. CASE Bind \/ SetHandler \/ StopBegin \/ StopClose
        BY <4>2 DEF Bind, SetHandler, StopBegin, StopClose, pollVars
      <4> QED
        BY <1>2, <4>1, <4>2 DEF Control
    <3> QED
      BY <3>1, <3>2 DEF PollersHold
  <2> QED
    BY <1>1, <1>2, <2>1, TypeControl, FlightControl
<1>3. ASSUME NEW p \in Pollers, LoopTop \/ PollStep(p) PROVE Inv'
  BY <1>1, <1>3, TypePoll, FlightPoll
<1>4. ASSUME NEW c \in Clients, ClientStep(c) PROVE Inv'
  <2>1. PollersHold'
    BY <1>4 DEF ClientStep, Connect, Disconnect, RequestSend, RequestReturns, RequestGivesUp,
                pollVars, PollersHold
  <2> QED
    BY <1>1, <1>4, <2>1, TypeClient, FlightClient
<1>5. CASE Terminate \/ UNCHANGED vars
  <2>1. /\ UNCHANGED <<ctlVars, sockVars, running, pollVars, reqVars, netVars>>
        /\ termed' \in {termed, TRUE}
    BY <1>5 DEF Terminate, vars
  <2>2. TypeOK' /\ PollersHold' /\ OnePlace'
    BY <2>1 DEF TypeOK, TypeReplier, TypePollers, TypeClients, PollersHold, OnePlace,
                ctlVars, sockVars, pollVars, reqVars, netVars
  <2>3. InFlight' = InFlight
    BY <2>1 DEF InFlight, Held, pollVars, netVars
  <2> QED
    BY <1>1, <2>1, <2>2, <2>3, Dwindles
<1> QED
  BY <1>2, <1>3, <1>4, <1>5, PollersAssumption DEF Next

LEMMA InvAlways == Spec => []Inv
BY InvInit, InvNext, PTL DEF Spec

(* Every reachable state is of its type, for every number of pollers and   *)
(* requesters: PollOnce and Request never lose track of a socket           *)
(* (zmq_rep_server.cpp:64-112, zmq_req_client.cpp:52-92).                  *)
THEOREM Typing == Spec => []TypeOK
<1>1. Inv => TypeOK
  BY DEF Inv
<1> QED
  BY <1>1, InvAlways, PTL

(* The background thread of a replier never runs after Stop has joined it  *)
(* and closed the socket (zmq_rep_server.cpp:46-56).                       *)
THEOREM LoopSafe == Spec => []LoopOutlived
<1>1. Inv => LoopOutlived
  BY DEF Inv, Threads
<1> QED
  BY <1>1, InvAlways, PTL

(* Request never returns the reply to an earlier request, whatever timed   *)
(* out before and however many requesters share the replier                *)
(* (zmq_req_client.cpp:52-92).                                             *)
THEOREM FreshReplies == Spec => []NoStaleReply
<1>1. Inv => NoStaleReply
  BY DEF Inv
<1> QED
  BY <1>1, InvAlways, PTL

-----------------------------------------------------------------------------
(* Sockets: who refers to one, and who owes a reply on it.                 *)

LEMMA CopiesLetGo ==
  ASSUME Inv, CopiesKeepAlive, NEW p \in Pollers, LetGo(p), m_sock' = m_sock
  PROVE  CopiesKeepAlive'
<1> USE DEF CopiesKeepAlive, Holders
<1>1. pollSock \in [Pollers -> 0..gens] /\ gens \in Nat
  BY DEF Inv, TypeOK, TypePollers, TypeReplier
<1>2. /\ pollSock'[p] = 0
      /\ \A q \in Pollers \ {p} : pollSock'[q] = pollSock[q]
  BY <1>1 DEF LetGo
<1>3. CASE pollSock[p] = m_sock \/ \E q \in Pollers \ {p} : pollSock[q] = pollSock[p]
  <2>1. open' = open
    BY <1>3 DEF LetGo
  <2> QED
    BY <1>2, <1>3, <2>1
<1>4. CASE pollSock[p] # m_sock /\ \A q \in Pollers \ {p} : pollSock[q] # pollSock[p]
  <2>1. Holders(pollSock[p]) = {p}
    BY <1>4
  <2>2. open' = open \ {pollSock[p]}
    BY <1>4, <2>1 DEF LetGo
  <2> QED
    BY <1>2, <1>4, <2>2
<1> QED
  BY <1>3, <1>4

LEMMA CopiesNext == Inv /\ CopiesKeepAlive /\ [Next]_vars => CopiesKeepAlive'
<1> SUFFICES ASSUME Inv, CopiesKeepAlive, [Next]_vars PROVE CopiesKeepAlive'
  OBVIOUS
<1> USE DEF ctlVars, sockVars, pollVars, reqVars, netVars
<1>0. pollSock \in [Pollers -> 0..gens] /\ gens \in Nat /\ m_sock \in 0..gens
  BY DEF Inv, TypeOK, TypePollers, TypeReplier
<1>1. CASE Bind
  BY <1>0, <1>1 DEF Bind, CopiesKeepAlive
<1>2. CASE StopClose
  <2>1. m_sock' = 0 /\ pollSock' = pollSock
    BY <1>2 DEF StopClose
  <2>2. CASE \E p \in Pollers : pollSock[p] = m_sock
    <3>1. open' = open
      BY <1>2, <2>2 DEF StopClose, Holders
    <3> QED
      BY <2>1, <2>2, <3>1 DEF CopiesKeepAlive
  <2>3. CASE \A p \in Pollers : pollSock[p] # m_sock
    <3>1. open' = open \ {m_sock}
      BY <1>2, <2>3 DEF StopClose, Holders
    <3> QED
      BY <2>1, <2>3, <3>1 DEF CopiesKeepAlive
  <2> QED
    BY <2>2, <2>3
<1>3. CASE SetHandler \/ StartBackground \/ StopBegin \/ StopJoin \/ LoopTop
  BY <1>3 DEF SetHandler, StartBackground, StopBegin, StopJoin, LoopTop, CopiesKeepAlive
<1>4. ASSUME NEW p \in Pollers, PollBegin(p) PROVE CopiesKeepAlive'
  <2>1. /\ pollSock[p] = 0
        /\ open' = open /\ m_sock' = m_sock
        /\ pollSock' = pollSock \/ pollSock' = [pollSock EXCEPT ![p] = m_sock]
    BY <1>4 DEF PollBegin, Inv, TypeOK, TypePollers
  <2> QED
    BY <1>0, <2>1 DEF CopiesKeepAlive
<1>5. ASSUME NEW p \in Pollers, PollNothing(p) \/ PollTermed(p) \/ PollReply(p)
      PROVE  CopiesKeepAlive'
  BY <1>5, CopiesLetGo DEF PollNothing, PollTermed, PollReply
<1>6. ASSUME NEW p \in Pollers, PollRecv(p) PROVE CopiesKeepAlive'
  BY <1>6 DEF PollRecv, CopiesKeepAlive
<1>7. ASSUME NEW c \in Clients, ClientStep(c) PROVE CopiesKeepAlive'
  BY <1>7 DEF ClientStep, Connect, Disconnect, RequestSend, RequestReturns, RequestGivesUp,
              CopiesKeepAlive
<1>8. CASE Terminate \/ UNCHANGED vars
  BY <1>8 DEF Terminate, vars, CopiesKeepAlive
<1> QED
  BY <1>1, <1>2, <1>3, <1>4, <1>5, <1>6, <1>7, <1>8 DEF Next, Control, PollStep

(* A socket of the replier is destroyed when, and only when, neither       *)
(* m_sock nor a PollOnce refers to it, for every number of pollers, and    *)
(* its background thread does not outlive Stop (zmq_rep_server.cpp:46-77). *)
THEOREM Sockets == Spec => []SocketsHeld
<1>1. Init => CopiesKeepAlive
  BY DEF Init, CopiesKeepAlive
<1>2. Spec => []CopiesKeepAlive
  BY <1>1, CopiesNext, InvAlways, PTL DEF Spec
<1> QED
  BY <1>2, LoopSafe, PTL DEF SocketsHeld

LEMMA WedgedNext == Inv /\ NeverWedged /\ [Next]_vars => NeverWedged'
<1> SUFFICES ASSUME Inv, NeverWedged, [Next]_vars, ~termed' PROVE NeverWedged'
  BY DEF NeverWedged
<1> USE DEF NeverWedged, ctlVars, sockVars, pollVars, reqVars, netVars
<1>0. /\ pollPc \in [Pollers -> {"off", "top", "idle", "polling", "handling", "ended"}]
      /\ pollSock \in [Pollers -> 0..gens]
  BY DEF Inv, TypeOK, TypePollers
<1>1. ~termed
  BY DEF Next, Control, Bind, SetHandler, StartBackground, StopBegin, StopJoin, StopClose,
         LoopTop, PollStep, PollBegin, PollNothing, PollTermed, PollRecv, PollReply,
         ClientStep, Connect, Disconnect, RequestSend, RequestReturns, RequestGivesUp,
         Terminate, vars
<1>2. ASSUME UNCHANGED <<owes, pollSock>>, NEW p \in Pollers, pollPc[p] # "handling",
             pollPc' = pollPc \/ \E label : pollPc' = [pollPc EXCEPT ![p] = label]
      PROVE  NeverWedged'
  BY <1>0, <1>1, <1>2
<1>3. CASE Control
  <2>1. CASE StartBackground \/ StopJoin
    <3>1. pollPc[Background] # "handling" \/ pollPc' = pollPc
      BY <2>1 DEF StartBackground, StopJoin, Inv, Threads, LoopOutlived
    <3>2. /\ UNCHANGED <<owes, pollSock>>
          /\ pollPc' = pollPc \/ \E label : pollPc' = [pollPc EXCEPT ![Background] = label]
      BY <2>1 DEF StartBackground, StopJoin
    <3> QED
      BY <1>1, <1>2, <3>1, <3>2
  <2>2. CASE Bind \/ SetHandler \/ StopBegin \/ StopClose
    BY <1>1, <2>2 DEF Bind, SetHandler, StopBegin, StopClose
  <2> QED
    BY <1>3, <2>1, <2>2 DEF Control
<1>4. CASE LoopTop
  BY <1>2, <1>4 DEF LoopTop
<1>5. ASSUME NEW p \in Pollers, PollBegin(p) PROVE NeverWedged'
  BY <1>0, <1>1, <1>5 DEF PollBegin
<1>6. ASSUME NEW p \in Pollers, PollNothing(p) \/ PollTermed(p) PROVE NeverWedged'
  BY <1>0, <1>1, <1>6 DEF PollNothing, PollTermed, LetGo
<1>7. ASSUME NEW p \in Pollers, PollRecv(p) PROVE NeverWedged'
  BY <1>0, <1>1, <1>7 DEF PollRecv
<1>8. ASSUME NEW p \in Pollers, PollReply(p) PROVE NeverWedged'
  BY <1>0, <1>1, <1>8 DEF PollReply, LetGo
<1>9. ASSUME NEW c \in Clients, ClientStep(c) PROVE NeverWedged'
  BY <1>1, <1>9 DEF ClientStep, Connect, Disconnect, RequestSend, RequestReturns, RequestGivesUp
<1>10. CASE Terminate \/ UNCHANGED vars
  BY <1>1, <1>10 DEF Terminate, vars
<1> QED
  BY <1>3, <1>4, <1>5, <1>6, <1>7, <1>8, <1>9, <1>10 DEF Next, PollStep

(* A replier that is not inside a handler can receive: no path through     *)
(* PollOnce leaves its REP socket owing a reply (zmq_rep_server.cpp:79-99).*)
THEOREM Unwedging == Spec => []NeverWedged
<1>1. Init => NeverWedged
  BY DEF Init, NeverWedged
<1> QED
  BY <1>1, WedgedNext, InvAlways, PTL DEF Spec
=============================================================================
