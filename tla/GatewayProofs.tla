--------------------------- MODULE GatewayProofs ---------------------------
(***************************************************************************)
(* Theorems about module Gateway.  TypeOK is not inductive: StartRep sets  *)
(* the REP thread going whatever it was doing before, and only the phase   *)
(* Start is in says that it was doing nothing.  The inductive invariant is *)
(* Inv, TypeOK together with ThreadPhases.                                 *)
(*                                                                         *)
(* The last part shows that the gateway implements module Switchboard.     *)
(***************************************************************************)
EXTENDS Gateway, TLAPS

Inv == TypeOK /\ ThreadPhases

USE CallsAssumption, EmptyAssumption, BoundsAssumption

LEMMA InvInit == Init => Inv
<1> SUFFICES ASSUME Init PROVE Inv
  OBVIOUS
<1> USE DEF Init
<1>1. TypeThreads
  BY DEF TypeThreads
<1>2. TypeLocals
  BY DEF TypeLocals, RepHandling, RtHandling
<1>3. TypeData
  BY DEF TypeData, Counters
<1>4. TypeRequests
  BY DEF TypeRequests
<1>5. TypePeers
  <2>1. <<>> \in Seq(Message)
    OBVIOUS
  <2> QED
    BY <2>1 DEF TypePeers
<1>6. ThreadPhases
  BY DEF ThreadPhases
<1> QED
  BY <1>1, <1>2, <1>3, <1>4, <1>5, <1>6 DEF Inv, TypeOK

-----------------------------------------------------------------------------
(* Steps of the control thread.                                            *)

LEMMA LosesType == ASSUME TypePeers, RouterLoses PROVE outbox' \in [Ids -> Seq(Message)]
<1>1. PICK lost \in [Ids -> 0..MaxMessages] :
         /\ \A d \in Ids : lost[d] <= Len(outbox[d])
         /\ outbox' = [d \in Ids |-> SubSeq(outbox[d], lost[d] + 1, Len(outbox[d]))]
  BY DEF RouterLoses
<1>2. ASSUME NEW d \in Ids
      PROVE  SubSeq(outbox[d], lost[d] + 1, Len(outbox[d])) \in Seq(Message)
  BY DEF TypePeers
<1> QED
  BY <1>1, <1>2

LEMMA ControlType == Inv /\ Control => TypeOK'
<1> SUFFICES ASSUME TypeOK, ThreadPhases, Control PROVE TypeOK'
  BY DEF Inv
<1> USE DEF ctlVars, repVars, rtVars, reqVars, dealerVars, dataVars
<1>1. TypeThreads'
  <2> USE DEF TypeOK, TypeThreads
  <2>1. CASE StartBind
    BY <2>1 DEF StartBind, BindFails
  <2>2. CASE StartRep
    BY <2>2 DEF StartRep
  <2>3. CASE StartRouter
    BY <2>3 DEF StartRouter
  <2>4. CASE StopBegin
    BY <2>4 DEF StopBegin
  <2>5. CASE StopJoinRep
    BY <2>5 DEF StopJoinRep
  <2>6. CASE StopJoinRouter
    BY <2>6 DEF StopJoinRouter
  <2> QED
    BY <2>1, <2>2, <2>3, <2>4, <2>5, <2>6 DEF Control
<1>2. TypeLocals'
  <2> USE DEF TypeOK, TypeLocals, RepHandling, RtHandling
  <2>1. CASE StartRep
    BY <2>1 DEF StartRep, ThreadPhases
  <2>2. CASE StartRouter
    BY <2>2 DEF StartRouter, ThreadPhases
  <2>3. CASE StartBind \/ StopBegin \/ StopJoinRep \/ StopJoinRouter
    BY <2>3 DEF StartBind, StopBegin, StopJoinRep, StopJoinRouter
  <2> QED
    BY <2>1, <2>2, <2>3 DEF Control
<1>3. TypeData' /\ TypeRequests'
  BY DEF TypeOK, TypeData, TypeRequests, Control, BindFails,
         StartBind, StartRep, StartRouter, StopBegin, StopJoinRep, StopJoinRouter
<1>4. TypePeers'
  <2>1. outbox' = outbox \/ RouterLoses
    BY DEF Control, StartBind, BindFails, StartRep, StartRouter, StopBegin, StopJoinRep, StopJoinRouter
  <2>2. outbox' \in [Ids -> Seq(Message)]
    BY <2>1, LosesType DEF TypeOK, TypePeers
  <2>3. UNCHANGED <<joined, life, posts, inbox, taken>>
    BY DEF Control, StartBind, StartRep, StartRouter, StopBegin, StopJoinRep, StopJoinRouter
  <2> QED
    BY <2>2, <2>3 DEF TypeOK, TypePeers
<1> QED
  BY <1>1, <1>2, <1>3, <1>4 DEF TypeOK

LEMMA ControlPhases == Inv /\ Control => ThreadPhases'
<1> SUFFICES ASSUME TypeThreads, ThreadPhases, Control PROVE ThreadPhases'
  BY DEF Inv, TypeOK
<1> USE DEF ThreadPhases, TypeThreads, Sockets,
            ctlVars, repVars, rtVars, reqVars, dealerVars, dataVars
<1>1. CASE StartBind
  BY <1>1 DEF StartBind, BindFails
<1>2. CASE StartRep
  BY <1>2 DEF StartRep
<1>3. CASE StartRouter
  BY <1>3 DEF StartRouter
<1>4. CASE StopBegin
  BY <1>4 DEF StopBegin
<1>5. CASE StopJoinRep
  BY <1>5 DEF StopJoinRep
<1>6. CASE StopJoinRouter
  BY <1>6 DEF StopJoinRouter
<1> QED
  BY <1>1, <1>2, <1>3, <1>4, <1>5, <1>6 DEF Control

-----------------------------------------------------------------------------
(* Steps of the REP thread.                                                *)

LEMMA RepType ==
  ASSUME Inv, RepStep \/ \E c \in Requesters : RepRecv(c)
  PROVE  Inv'
<1> USE DEF Inv, TypeOK, ctlVars, repVars, rtVars, reqVars, dealerVars, dataVars
<1>1. TypePeers'
  BY DEF TypePeers, RepStep, RepTop, RepTimeout, RepHandle, RepPublish, RepCount, RepReply, RepRecv
<1>2. TypeThreads' /\ ThreadPhases'
  <2> USE DEF TypeThreads, ThreadPhases
  <2>1. CASE RepTop \/ RepTimeout \/ \E c \in Requesters : RepRecv(c)
    BY <2>1 DEF RepTop, RepTimeout, RepRecv
  <2>2. CASE RepHandle
    BY <2>2 DEF RepHandle, HandleRegister, HandleUnregister, HandleQuery, HandleRefused,
                Reply, ReplyAfterBroadcast
  <2>3. CASE RepPublish \/ RepCount \/ RepReply
    BY <2>3 DEF RepPublish, RepCount, RepReply
  <2> QED
    BY <2>1, <2>2, <2>3 DEF RepStep
<1>3. CASE RepTop \/ RepTimeout
  BY <1>1, <1>2, <1>3
     DEF RepTop, RepTimeout, TypeLocals, TypeData, TypeRequests, RepHandling, RtHandling
<1>4. ASSUME NEW c \in Requesters, RepRecv(c)
      PROVE  TypeLocals' /\ TypeData' /\ TypeRequests'
  BY <1>4 DEF RepRecv, TypeLocals, TypeData, TypeRequests, RepHandling, RtHandling
<1>5. CASE RepHandle
  <2> DEFINE call == repReq.call
  <2>1. /\ call.name \in Names \cup {Empty}
        /\ call.identity \in Ids \cup {Empty}
    BY <1>5 DEF RepHandle, TypeLocals, RepHandling, Request, Call
  <2>2. TypeRequests'
    BY <1>5 DEF RepHandle, TypeRequests
  <2>3. announced' = announced /\ stats["registrations"] \in Nat
    BY <1>5 DEF RepHandle, TypeData, Counters
  <2>4. CASE HandleRegister(call)
    <3>1. TypeData'
      BY <2>1, <2>3, <2>4 DEF HandleRegister, Count, TypeData, Counters
    <3>2. TypeLocals'
      BY <1>5, <2>4 DEF RepHandle, HandleRegister, Reply, ReplyAfterBroadcast,
                        TypeLocals, RepHandling, RtHandling, Answer
    <3> QED
      BY <1>1, <1>2, <2>2, <3>1, <3>2
  <2>5. CASE HandleUnregister(call)
    <3>1. TypeData'
      BY <2>1, <2>3, <2>5 DEF HandleUnregister, TypeData
    <3>2. TypeLocals'
      BY <1>5, <2>5 DEF RepHandle, HandleUnregister, ReplyAfterBroadcast,
                        TypeLocals, RepHandling, RtHandling, Answer
    <3> QED
      BY <1>1, <1>2, <2>2, <3>1, <3>2
  <2>6. CASE HandleQuery(call) \/ HandleRefused(call)
    <3>1. TypeData'
      BY <2>3, <2>6 DEF HandleQuery, HandleRefused, TypeData
    <3>2. TypeLocals'
      BY <1>5, <2>6 DEF RepHandle, HandleQuery, HandleRefused, Reply, TypeData,
                        TypeLocals, RepHandling, RtHandling, Answer
    <3> QED
      BY <1>1, <1>2, <2>2, <3>1, <3>2
  <2> QED
    BY <1>5, <2>4, <2>5, <2>6 DEF RepHandle
<1>6. CASE RepPublish
  <2>1. TypeData'
    BY <1>6 DEF RepPublish, TypeData
  <2>2. TypeLocals' /\ TypeRequests'
    BY <1>6 DEF RepPublish, TypeLocals, TypeRequests, RepHandling, RtHandling
  <2> QED
    BY <1>1, <1>2, <2>1, <2>2
<1>7. CASE RepCount
  BY <1>1, <1>2, <1>7 DEF RepCount, Count, Counters,
     TypeLocals, TypeData, TypeRequests, RepHandling, RtHandling
<1>8. CASE RepReply
  <2>1. TypeRequests'
    BY <1>8 DEF RepReply, TypeRequests, TypeLocals, RepHandling
  <2>2. TypeLocals' /\ TypeData'
    BY <1>8 DEF RepReply, TypeLocals, TypeData, RepHandling, RtHandling
  <2> QED
    BY <1>1, <1>2, <2>1, <2>2
<1> QED
  BY <1>1, <1>2, <1>3, <1>4, <1>5, <1>6, <1>7, <1>8 DEF RepStep

-----------------------------------------------------------------------------
(* Steps of the ROUTER thread.                                             *)

LEMMA RouterType ==
  ASSUME Inv, RouterStep \/ \E d \in Ids : RouterRecv(d)
  PROVE  Inv'
<1> USE DEF Inv, TypeOK, ctlVars, repVars, rtVars, reqVars, dealerVars, dataVars
<1>1. TypeRequests'
  BY DEF TypeRequests, RouterStep, RouterTop, RouterTimeout, RouterResolve, RouterSend,
         RouterCount, RouterRecv
<1>2. TypeThreads' /\ ThreadPhases'
  <2> USE DEF TypeThreads, ThreadPhases
  <2>1. ctlVars' = ctlVars /\ repPc' = repPc /\ rtPc # "off"
    BY DEF RouterStep, RouterTop, RouterTimeout, RouterResolve, RouterSend, RouterCount, RouterRecv
  <2>2. rtPc' \in {"off", "top", "poll", "resolve", "send", "count"}
    BY DEF RouterStep, RouterTop, RouterTimeout, RouterResolve, RouterSend, RouterCount, RouterRecv
  <2> QED
    BY <2>1, <2>2
<1>3. CASE RouterTop \/ RouterTimeout
  BY <1>1, <1>2, <1>3
     DEF RouterTop, RouterTimeout, TypeLocals, TypeData, TypePeers, RepHandling, RtHandling
<1>4. ASSUME NEW d \in Ids, RouterRecv(d) PROVE Inv'
  <2>1. PICK i \in 1..Len(outbox[d]) :
          /\ rtMsg' = outbox[d][i]
          /\ outbox' = [outbox EXCEPT ![d] =
                          SubSeq(@, 1, i - 1) \o SubSeq(@, i + 1, Len(@))]
    BY <1>4 DEF RouterRecv
  <2>2. outbox[d] \in Seq(Message)
    BY DEF TypePeers
  <2>3. outbox[d][i] \in Message
    BY <2>2
  <2>4. SubSeq(outbox[d], 1, i - 1) \o SubSeq(outbox[d], i + 1, Len(outbox[d])) \in Seq(Message)
    BY <2>2
  <2>5. TypePeers'
    BY <1>4, <2>1, <2>4 DEF RouterRecv, TypePeers
  <2>6. TypeLocals' /\ TypeData'
    BY <1>4, <2>1, <2>3 DEF RouterRecv, TypeLocals, TypeData, RepHandling, RtHandling
  <2> QED
    BY <1>1, <1>2, <2>5, <2>6
<1>5. CASE RouterResolve
  BY <1>1, <1>2, <1>5
     DEF RouterResolve, TypeLocals, TypeData, TypePeers, RepHandling, RtHandling
<1>6. CASE RouterSend
  <2>1. rtId \in Ids /\ rtMsg \in Message
    BY <1>6 DEF RouterSend, TypeLocals, RtHandling
  <2>2. inbox' \in [Ids -> Seq(Message)]
    <3>1. Append(inbox[rtId], rtMsg) \in Seq(Message)
      BY <2>1 DEF TypePeers
    <3> QED
      BY <1>6, <3>1 DEF RouterSend, TypePeers
  <2>3. TypePeers'
    BY <1>6, <2>2 DEF RouterSend, TypePeers
  <2>4. TypeLocals' /\ TypeData'
    BY <1>6 DEF RouterSend, TypeLocals, TypeData, RepHandling, RtHandling
  <2> QED
    BY <1>1, <1>2, <2>3, <2>4
<1>7. CASE RouterCount
  <2>1. TypeLocals' /\ TypePeers'
    BY <1>7 DEF RouterCount, TypeLocals, TypePeers, RepHandling, RtHandling
  <2>2. TypeData'
    BY <1>7 DEF RouterCount, Count, TypeData, Counters
  <2> QED
    BY <1>1, <1>2, <2>1, <2>2
<1> QED
  BY <1>3, <1>4, <1>5, <1>6, <1>7 DEF RouterStep

LEMMA InterruptedType == Inv /\ RouterInterrupted => Inv'
<1> SUFFICES ASSUME Inv, RouterInterrupted PROVE Inv'
  OBVIOUS
<1> USE DEF Inv, TypeOK, ctlVars, repVars, rtVars, reqVars, dealerVars, dataVars
<1>1. TypeThreads' /\ ThreadPhases'
  BY DEF RouterInterrupted, TypeThreads, ThreadPhases, Sockets
<1>2. TypeLocals'
  BY DEF RouterInterrupted, TypeLocals, RepHandling, RtHandling
<1>3. TypeData' /\ TypeRequests'
  BY DEF RouterInterrupted, TypeData, TypeRequests
<1>4. TypePeers'
  <2>1. outbox' \in [Ids -> Seq(Message)]
    BY LosesType DEF RouterInterrupted
  <2> QED
    BY <2>1 DEF RouterInterrupted, TypePeers
<1> QED
  BY <1>1, <1>2, <1>3, <1>4

-----------------------------------------------------------------------------
(* Steps of the environment.                                               *)

LEMMA EnvironmentType ==
  ASSUME Inv, Environment
  PROVE  Inv'
<1> USE DEF Inv, TypeOK, ctlVars, repVars, rtVars, reqVars, dealerVars, dataVars
<1>1. TypeThreads' /\ ThreadPhases' /\ TypeLocals' /\ TypeData'
  <2>1. UNCHANGED <<ctlVars, repVars, rtVars, clients, stats>>
    BY DEF Environment, Ask, GiveUp, Join, Leave, Post
  <2>2. TypeThreads' /\ ThreadPhases'
    BY <2>1 DEF TypeThreads, ThreadPhases
  <2>3. TypeLocals'
    BY <2>1 DEF TypeLocals, RepHandling, RtHandling
  <2>4. TypeData'
    BY DEF Environment, Ask, GiveUp, Join, Leave, Post, TypeData
  <2> QED
    BY <2>2, <2>3, <2>4
<1>2. TypeRequests'
  <2> USE DEF TypeRequests
  <2>1. ASSUME NEW c \in Requesters, Ask(c) PROVE TypeRequests'
    <3>1. PICK call \in Calls :
            requests' = requests \cup {[ticket |-> tickets + 1, client |-> c, call |-> call]}
      BY <2>1 DEF Ask
    <3>2. tickets + 1 \in 1..MaxRequests
      BY <2>1 DEF Ask
    <3> QED
      BY <2>1, <3>1, <3>2 DEF Ask, Request
  <2>2. ASSUME NEW c \in Requesters, GiveUp(c) PROVE TypeRequests'
    BY <2>2 DEF GiveUp
  <2>3. ASSUME NEW d \in Ids, Join(d) \/ Leave(d) \/ Post(d) PROVE TypeRequests'
    BY <2>3 DEF Join, Leave, Post
  <2> QED
    BY <2>1, <2>2, <2>3 DEF Environment
<1>3. TypePeers'
  <2> USE DEF TypePeers
  <2>1. ASSUME NEW c \in Requesters, Ask(c) \/ GiveUp(c) PROVE TypePeers'
    BY <2>1 DEF Ask, GiveUp
  <2>2. ASSUME NEW d \in Ids, Join(d) PROVE TypePeers'
    BY <2>2 DEF Join
  <2>3. ASSUME NEW d \in Ids, Leave(d) PROVE TypePeers'
    <3>1. PICK k \in 0..Len(outbox[d]) : outbox' = [outbox EXCEPT ![d] = SubSeq(@, 1, k)]
      BY <2>3 DEF Leave
    <3>2. SubSeq(outbox[d], 1, k) \in Seq(Message) /\ <<>> \in Seq(Message)
      OBVIOUS
    <3> QED
      BY <2>3, <3>1, <3>2 DEF Leave
  <2>4. ASSUME NEW d \in Ids, Post(d) PROVE TypePeers'
    <3>1. PICK n \in Names \cup {Empty} :
            outbox' = [outbox EXCEPT ![d] =
              Append(@, [from |-> d, life |-> life[d], seq |-> posts + 1, target |-> n])]
      BY <2>4 DEF Post
    <3>2. [from |-> d, life |-> life[d], seq |-> posts + 1, target |-> n] \in Message
      BY <2>4 DEF Post, Message
    <3>3. Append(outbox[d], [from |-> d, life |-> life[d], seq |-> posts + 1, target |-> n])
            \in Seq(Message)
      BY <3>2
    <3> QED
      BY <2>4, <3>1, <3>3 DEF Post
  <2> QED
    BY <2>1, <2>2, <2>3, <2>4 DEF Environment
<1> QED
  BY <1>1, <1>2, <1>3

-----------------------------------------------------------------------------
LEMMA InvNext == Inv /\ [Next]_vars => Inv'
<1> SUFFICES ASSUME Inv, [Next]_vars PROVE Inv'
  OBVIOUS
<1>1. CASE Control
  BY <1>1, ControlType, ControlPhases DEF Inv
<1>2. CASE UNCHANGED vars
  <2> USE <1>2 DEF vars, ctlVars, repVars, rtVars, reqVars, dealerVars, dataVars, Inv, TypeOK
  <2>1. TypeThreads' /\ ThreadPhases'
    BY DEF TypeThreads, ThreadPhases
  <2>2. TypeLocals' /\ TypeData'
    BY DEF TypeLocals, TypeData, RepHandling, RtHandling
  <2>3. TypeRequests' /\ TypePeers'
    BY DEF TypeRequests, TypePeers
  <2> QED
    BY <2>1, <2>2, <2>3
<1> QED
  BY <1>1, <1>2, RepType, RouterType, InterruptedType, EnvironmentType DEF Next

LEMMA InvAlways == Spec => []Inv
  BY InvInit, InvNext, PTL DEF Spec

(* Every variable of the gateway keeps its type, and no name is ever bound *)
(* to the empty identity (RegisterClient, gateway.cpp:183-203, 307-320).   *)
THEOREM Typing == Spec => []TypeOK
  BY InvAlways, PTL DEF Inv

(* The order of the steps of Start and Stop keeps threads and sockets in   *)
(* the phases it is meant to (gateway.cpp:74-162).                         *)
THEOREM Phases == Spec => []ThreadPhases
  BY InvAlways, PTL DEF Inv

(* No background thread of the gateway uses a socket that is closed or not *)
(* yet bound (gateway.cpp:112-162).                                        *)
THEOREM SocketSafety == Spec => []SocketsOutliveThreads
<1>1. Inv => SocketsOutliveThreads
  BY DEF Inv, TypeOK, TypeThreads, ThreadPhases, SocketsOutliveThreads, Sockets
<1> QED
  BY <1>1, InvAlways, PTL

(* Through every order of Start, its bind failures and Stop, threads and   *)
(* sockets begin and end together (gateway.cpp:74-162).                    *)
THEOREM Lifetimes == Spec => []LifetimesKept
  BY Phases, SocketSafety, PTL DEF LifetimesKept

-----------------------------------------------------------------------------
(* The announcements.  While an announcement is due, it will say what the  *)
(* table already says: only the REP thread writes the table, and it        *)
(* publishes before it takes its next request.                             *)

AnnouncementDue ==
  repPc = "publish" =>
    (repReq.call.cmd = "register" <=> repReq.call.name \in DOMAIN clients)

AnnounceInv == AnnouncementDue /\ AnnouncedAgrees

LEMMA AnnounceOthers ==
  ASSUME AnnounceInv, UNCHANGED <<clients, announced, repReq>>,
         ctl # "ended" \/ ctl' = ctl,
         repPc' = repPc \/ (repPc # "publish" /\ repPc' # "publish")
  PROVE  AnnounceInv'
  BY DEF AnnounceInv, AnnouncementDue, AnnouncedAgrees

LEMMA AnnounceHandle == Inv /\ AnnounceInv /\ RepHandle => AnnounceInv'
<1> SUFFICES ASSUME Inv, AnnounceInv, RepHandle PROVE AnnounceInv'
  OBVIOUS
<1> DEFINE call == repReq.call
<1> USE DEF AnnounceInv, AnnouncementDue, AnnouncedAgrees, Reply, ReplyAfterBroadcast
<1>1. repPc = "handle" /\ repReq' = repReq /\ announced' = announced /\ ctl' = ctl
  BY DEF RepHandle, ctlVars
<1>2. CASE HandleRegister(call)
  <2>1. DOMAIN clients' = DOMAIN clients \cup {call.name}
    BY <1>2 DEF HandleRegister
  <2>2. CASE call.name \notin DOMAIN clients
    <3>1. repPc' = "publish" /\ call.cmd = "register"
      BY <1>2, <2>2 DEF HandleRegister
    <3> QED
      BY <1>1, <2>1, <3>1
  <2>3. CASE call.name \in DOMAIN clients
    <3>1. repPc' = "reply" /\ DOMAIN clients' = DOMAIN clients
      BY <1>2, <2>1, <2>3 DEF HandleRegister
    <3> QED
      BY <1>1, <3>1
  <2> QED
    BY <2>2, <2>3
<1>3. CASE HandleUnregister(call)
  <2>1. /\ DOMAIN clients' = DOMAIN clients \ {call.name}
        /\ repPc' = "publish" /\ call.cmd = "unregister"
    BY <1>3 DEF HandleUnregister
  <2> QED
    BY <1>1, <2>1
<1>4. CASE HandleQuery(call) \/ HandleRefused(call)
  BY <1>1, <1>4 DEF HandleQuery, HandleRefused
<1> QED
  BY <1>2, <1>3, <1>4 DEF RepHandle

LEMMA AnnouncePublish == Inv /\ AnnounceInv /\ RepPublish => AnnounceInv'
<1> SUFFICES ASSUME Inv, AnnounceInv, RepPublish PROVE AnnounceInv'
  OBVIOUS
<1>1. announced \in [Names -> {"in", "out", "unknown"}]
  BY DEF Inv, TypeOK, TypeData
<1>2. /\ repPc = "publish" /\ repPc' = "count"
      /\ repReq' = repReq /\ clients' = clients
      /\ ctl # "ended"
  BY DEF RepPublish, dataVars, Inv, ThreadPhases
<1>3. ASSUME NEW n \in Names
      PROVE  announced'[n] = "unknown" \/ (announced'[n] = "in" <=> n \in DOMAIN clients)
  <2>1. CASE n = repReq.call.name
    BY <1>1, <1>2, <2>1 DEF RepPublish, AnnounceInv, AnnouncementDue
  <2>2. CASE n # repReq.call.name
    <3>1. announced'[n] = announced[n]
      BY <1>1, <2>2 DEF RepPublish
    <3> QED
      BY <1>2, <2>2, <3>1 DEF AnnounceInv, AnnouncedAgrees
  <2> QED
    BY <2>1, <2>2
<1> QED
  BY <1>2, <1>3 DEF AnnounceInv, AnnouncementDue, AnnouncedAgrees

LEMMA AnnounceNext == Inv /\ AnnounceInv /\ [Next]_vars => AnnounceInv'
<1> SUFFICES ASSUME Inv, AnnounceInv, [Next]_vars PROVE AnnounceInv'
  OBVIOUS
<1> USE DEF ctlVars, repVars, rtVars, reqVars, dealerVars, dataVars
<1>1. CASE Control
  <2>1. CASE StartRep
    <3>1. repPc = "off"
      BY <2>1 DEF StartRep, Inv, ThreadPhases
    <3> QED
      BY <2>1, <3>1, AnnounceOthers DEF StartRep
  <2>2. CASE ~StartRep
    BY <1>1, <2>2, AnnounceOthers
       DEF Control, StartBind, StartRouter, StopBegin, StopJoinRep, StopJoinRouter
  <2> QED
    BY <2>1, <2>2
<1>2. CASE RepStep \/ \E c \in Requesters : RepRecv(c)
  <2>1. CASE RepTop \/ RepTimeout \/ RepCount
    BY <2>1, AnnounceOthers DEF RepTop, RepTimeout, RepCount
  <2>2. ASSUME NEW c \in Requesters, RepRecv(c) PROVE AnnounceInv'
    BY <2>2 DEF RepRecv, AnnounceInv, AnnouncementDue, AnnouncedAgrees
  <2>3. CASE RepReply
    BY <2>3 DEF RepReply, AnnounceInv, AnnouncementDue, AnnouncedAgrees
  <2> QED
    BY <1>2, <2>1, <2>2, <2>3, AnnounceHandle, AnnouncePublish DEF RepStep
<1>3. CASE RouterStep \/ \E d \in Ids : RouterRecv(d)
  BY <1>3, AnnounceOthers
     DEF RouterStep, RouterTop, RouterTimeout, RouterResolve, RouterSend, RouterCount, RouterRecv
<1>4. CASE Environment
  BY <1>4, AnnounceOthers DEF Environment, Ask, GiveUp, Join, Leave, Post
<1>5. CASE UNCHANGED vars
  BY <1>5, AnnounceOthers DEF vars
<1>6. CASE RouterInterrupted
  BY <1>6 DEF RouterInterrupted, AnnounceInv, AnnouncementDue, AnnouncedAgrees
<1> QED
  BY <1>1, <1>2, <1>3, <1>4, <1>5, <1>6 DEF Next

(* The last announcement of a name agrees with the table, whatever the     *)
(* order in which the gateway's clients register and unregister it         *)
(* (gateway.cpp:194-217, 332-341).                                         *)
THEOREM Announcements == Spec => []AnnouncedAgrees
<1>1. Init => AnnounceInv
  BY DEF Init, AnnounceInv, AnnouncementDue, AnnouncedAgrees
<1>2. AnnounceInv => AnnouncedAgrees
  BY DEF AnnounceInv
<1> QED
  BY <1>1, <1>2, AnnounceNext, InvAlways, PTL DEF Spec

-----------------------------------------------------------------------------
(* The counters.                                                           *)

(* Every message taken from the ROUTER socket is counted once, as routed   *)
(* or as an error (gateway.cpp:253-305).                                   *)
THEOREM Accounting == Spec => []RoutingAccounted
<1>1. Init => RoutingAccounted
  BY DEF Init, RoutingAccounted, RtHandling
<1>2. Inv /\ RoutingAccounted /\ [Next]_vars => RoutingAccounted'
  <2> SUFFICES ASSUME Inv, RoutingAccounted, [Next]_vars PROVE RoutingAccounted'
    OBVIOUS
  <2> USE DEF RoutingAccounted, RtHandling, ctlVars, repVars, rtVars, reqVars, dealerVars, dataVars
  <2>1. /\ stats["messages_routed"] \in Nat /\ stats["errors"] \in Nat
        /\ stats \in [Counters -> Nat] /\ taken \in Nat
    BY DEF Inv, TypeOK, TypeData, TypePeers, Counters
  <2>2. CASE Control
    BY <2>2 DEF Inv, ThreadPhases, Control, StartBind, StartRep, StartRouter, StopBegin,
                StopJoinRep, StopJoinRouter
  <2>3. CASE RepStep \/ \E c \in Requesters : RepRecv(c)
    <3>1. /\ stats'["messages_routed"] = stats["messages_routed"]
          /\ stats'["errors"] = stats["errors"]
      BY <2>1, <2>3 DEF RepStep, RepTop, RepTimeout, RepHandle, RepPublish, RepCount, RepReply,
         RepRecv, HandleRegister, HandleUnregister, HandleQuery, HandleRefused, Count, Counters
    <3>2. rtPc' = rtPc /\ taken' = taken
      BY <2>3 DEF RepStep, RepTop, RepTimeout, RepHandle, RepPublish, RepCount, RepReply, RepRecv
    <3> QED
      BY <3>1, <3>2
  <2>4. CASE RouterCount
    <3>1. stats' = [stats EXCEPT !["messages_routed"] = @ + 1]
            \/ stats' = [stats EXCEPT !["errors"] = @ + 1]
      BY <2>4 DEF RouterCount, Count
    <3>2. rtPc = "count" /\ rtPc' = "top" /\ taken' = taken
      BY <2>4 DEF RouterCount
    <3> QED
      BY <2>1, <3>1, <3>2 DEF Counters
  <2>5. CASE RouterTop \/ RouterTimeout \/ RouterResolve \/ RouterSend
    BY <2>5 DEF RouterTop, RouterTimeout, RouterResolve, RouterSend
  <2>6. ASSUME NEW d \in Ids, RouterRecv(d) PROVE RoutingAccounted'
    BY <2>1, <2>6 DEF RouterRecv
  <2>7. CASE Environment
    BY <2>7 DEF Environment, Ask, GiveUp, Join, Leave, Post
  <2>8. CASE UNCHANGED vars
    BY <2>8 DEF vars
  <2>9. CASE RouterInterrupted
    BY <2>9 DEF RouterInterrupted
  <2> QED
    BY <2>2, <2>3, <2>4, <2>5, <2>6, <2>7, <2>8, <2>9 DEF Next, RouterStep
<1> QED
  BY <1>1, <1>2, InvAlways, PTL DEF Spec

-----------------------------------------------------------------------------
(* The gateway implements module Switchboard: every step of a thread or of *)
(* the environment is a step of the abstract switch or changes nothing     *)
(* there.  Two facts beside Inv are needed.  A request being handled does  *)
(* not wait in the socket as well (HandledOnce), and a message being       *)
(* routed is not in an outbox any more (Ordered).  Ordered says where the  *)
(* messages of a connection are: those delivered are older than the one    *)
(* being routed, and that one is older than those that wait; hence         *)
(* messages arrive in order.                                               *)

-----------------------------------------------------------------------------
(* Requests.                                                               *)

HandledOnce ==
  /\ \A r \in requests : r.ticket <= tickets
  /\ repPc = "handle" => repReq.ticket <= tickets /\ repReq \notin requests

LEMMA HandledOnceNext == Inv /\ HandledOnce /\ [Next]_vars => HandledOnce'
<1> SUFFICES ASSUME Inv, HandledOnce, [Next]_vars PROVE HandledOnce'
  OBVIOUS
<1> USE DEF HandledOnce, ctlVars, repVars, rtVars, reqVars, dealerVars, dataVars
<1>1. requests \subseteq Request /\ tickets \in Nat
  BY DEF Inv, TypeOK, TypeRequests
<1>2. CASE Control \/ RouterInterrupted
  BY <1>2 DEF Control, StartBind, BindFails, StartRep, StartRouter, StopBegin, StopJoinRep,
              StopJoinRouter, RouterInterrupted
<1>3. ASSUME NEW c \in Requesters, RepRecv(c) PROVE HandledOnce'
  BY <1>3 DEF RepRecv
<1>4. CASE RepStep
  BY <1>4 DEF RepStep, RepTop, RepTimeout, RepHandle, RepPublish, RepCount, RepReply,
     HandleRegister, HandleUnregister, HandleQuery, HandleRefused, Reply, ReplyAfterBroadcast
<1>5. CASE RouterStep \/ \E d \in Ids : RouterRecv(d)
  BY <1>5 DEF RouterStep, RouterTop, RouterTimeout, RouterResolve, RouterSend, RouterCount, RouterRecv
<1>6. ASSUME NEW c \in Requesters, Ask(c) PROVE HandledOnce'
  <2>1. PICK call \in Calls :
          requests' = requests \cup {[ticket |-> tickets + 1, client |-> c, call |-> call]}
    BY <1>6 DEF Ask
  <2>2. tickets' = tickets + 1 /\ repPc' = repPc /\ repReq' = repReq
    BY <1>6 DEF Ask
  <2>3. \A r \in requests' : r.ticket <= tickets + 1
    BY <1>1, <2>1 DEF Request
  <2>4. repPc = "handle" => repReq # [ticket |-> tickets + 1, client |-> c, call |-> call]
    BY <1>1
  <2>5. repPc = "handle" => repReq.ticket <= tickets + 1
    BY <1>1 DEF Inv, TypeOK, TypeLocals, RepHandling, Request
  <2> QED
    BY <2>1, <2>2, <2>3, <2>4, <2>5
<1>7. ASSUME NEW c \in Requesters, GiveUp(c) PROVE HandledOnce'
  BY <1>7 DEF GiveUp
<1>8. ASSUME NEW d \in Ids, Join(d) \/ Leave(d) \/ Post(d) PROVE HandledOnce'
  BY <1>8 DEF Join, Leave, Post
<1>9. CASE UNCHANGED vars
  BY <1>9 DEF vars
<1> QED
  BY <1>2, <1>3, <1>4, <1>5, <1>6, <1>7, <1>8, <1>9 DEF Next, Environment

-----------------------------------------------------------------------------
(* Messages.                                                               *)

(* m was posted before k, if one connection posted both.                   *)
Before(m, k) == m.from = k.from /\ m.life = k.life => m.seq < k.seq

OutboxOrdered ==
  \A d \in Ids : \A i \in 1..Len(outbox[d]) :
    /\ outbox[d][i].from = d
    /\ outbox[d][i].seq <= posts
    /\ \A j \in 1..Len(outbox[d]) : i < j => outbox[d][i].seq < outbox[d][j].seq

InboxOrdered ==
  \A d \in Ids : \A i \in 1..Len(inbox[d]) :
    /\ inbox[d][i].seq <= posts
    /\ \A j \in 1..Len(inbox[d]) : i < j => Before(inbox[d][i], inbox[d][j])
    /\ rtPc \in {"resolve", "send"} => Before(inbox[d][i], rtMsg)
    /\ \A e \in Ids : \A j \in 1..Len(outbox[e]) : Before(inbox[d][i], outbox[e][j])

RoutedOrdered ==
  RtHandling =>
    /\ rtMsg.seq <= posts
    /\ \A e \in Ids : \A j \in 1..Len(outbox[e]) : Before(rtMsg, outbox[e][j])

Ordered == OutboxOrdered /\ InboxOrdered /\ RoutedOrdered

(* Steps that leave the messages where they are.                           *)
LEMMA OrderedOthers ==
  ASSUME Ordered, UNCHANGED <<posts, outbox, inbox>>,
         \/ ~RtHandling'
         \/ rtMsg' = rtMsg /\ rtPc' = rtPc
         \/ rtMsg' = rtMsg /\ rtPc \in {"resolve", "send"} /\ rtPc' \in {"send", "count"}
  PROVE  Ordered'
  BY DEF Ordered, OutboxOrdered, InboxOrdered, RoutedOrdered, Before, RtHandling

(* Steps that take messages out of the outboxes: what is left keeps its    *)
(* order.                                                                  *)
Rises(f) == \A i, j \in DOMAIN f : i < j => f[i] < f[j]

ThinnedAt(d) ==
  \E f \in [1..Len(outbox'[d]) -> 1..Len(outbox[d])] :
    Rises(f) /\ \A i \in 1..Len(outbox'[d]) : outbox'[d][i] = outbox[d][f[i]]

Thinned == \A d \in Ids : ThinnedAt(d)

LEMMA ThinnedOutboxes ==
  ASSUME Ordered, Thinned, posts' = posts
  PROVE  /\ OutboxOrdered'
         /\ \A m : (\A e \in Ids : \A j \in 1..Len(outbox[e]) : Before(m, outbox[e][j]))
                  => \A e \in Ids : \A j \in 1..Len(outbox'[e]) : Before(m, outbox'[e][j])
<1>1. OutboxOrdered'
  <2> SUFFICES ASSUME NEW d \in Ids, NEW i \in 1..Len(outbox'[d])
               PROVE  /\ outbox'[d][i].from = d
                      /\ outbox'[d][i].seq <= posts
                      /\ \A j \in 1..Len(outbox'[d]) :
                           i < j => outbox'[d][i].seq < outbox'[d][j].seq
    BY DEF OutboxOrdered
  <2>1. PICK f \in [1..Len(outbox'[d]) -> 1..Len(outbox[d])] :
          Rises(f) /\ \A j \in 1..Len(outbox'[d]) : outbox'[d][j] = outbox[d][f[j]]
    BY DEF Thinned, ThinnedAt
  <2>2. f[i] \in 1..Len(outbox[d]) /\ outbox'[d][i] = outbox[d][f[i]]
    BY <2>1
  <2>3. ASSUME NEW j \in 1..Len(outbox'[d]), i < j
        PROVE  outbox'[d][i].seq < outbox'[d][j].seq
    <3>1. f[j] \in 1..Len(outbox[d]) /\ outbox'[d][j] = outbox[d][f[j]] /\ f[i] < f[j]
      BY <2>1, <2>3 DEF Rises
    <3> QED
      BY <2>2, <3>1 DEF Ordered, OutboxOrdered
  <2> QED
    BY <2>2, <2>3 DEF Ordered, OutboxOrdered
<1>2. ASSUME NEW e \in Ids, NEW j \in 1..Len(outbox'[e])
      PROVE  \E x \in 1..Len(outbox[e]) : outbox'[e][j] = outbox[e][x]
  BY DEF Thinned, ThinnedAt
<1> QED
  BY <1>1, <1>2

LEMMA ThinnedKeeps ==
  ASSUME Ordered, Thinned, UNCHANGED <<posts, inbox, rtMsg, rtPc>>
  PROVE  Ordered'
<1>1. OutboxOrdered'
  BY ThinnedOutboxes
<1>2. InboxOrdered'
  BY ThinnedOutboxes DEF Ordered, InboxOrdered
<1>3. RoutedOrdered'
  BY ThinnedOutboxes DEF Ordered, RoutedOrdered, RtHandling
<1> QED
  BY <1>1, <1>2, <1>3 DEF Ordered

LEMMA SubSeqThins ==
  ASSUME NEW d \in Ids, outbox[d] \in Seq(Message),
         NEW a \in Nat \ {0}, NEW b \in 0..Len(outbox[d]),
         outbox'[d] = SubSeq(outbox[d], a, b)
  PROVE  ThinnedAt(d)
<1> DEFINE f == [i \in 1..Len(outbox'[d]) |-> a + i - 1]
<1>1. ASSUME NEW i \in 1..Len(outbox'[d])
      PROVE  a + i - 1 \in 1..Len(outbox[d]) /\ outbox'[d][i] = outbox[d][a + i - 1]
  OBVIOUS
<1>2. f \in [1..Len(outbox'[d]) -> 1..Len(outbox[d])]
  BY <1>1
<1>3. Rises(f)
  BY DEF Rises
<1>4. \A i \in 1..Len(outbox'[d]) : outbox'[d][i] = outbox[d][f[i]]
  BY <1>1
<1> HIDE DEF f
<1> QED
  BY <1>2, <1>3, <1>4 DEF ThinnedAt

LEMMA LosesThins == ASSUME Inv, RouterLoses PROVE Thinned
<1>1. PICK lost \in [Ids -> 0..MaxMessages] :
        /\ \A d \in Ids : lost[d] <= Len(outbox[d])
        /\ outbox' = [d \in Ids |-> SubSeq(outbox[d], lost[d] + 1, Len(outbox[d]))]
  BY DEF RouterLoses
<1>2. outbox \in [Ids -> Seq(Message)]
  BY DEF Inv, TypeOK, TypePeers
<1>3. ASSUME NEW d \in Ids PROVE ThinnedAt(d)
  <2>1. lost[d] + 1 \in Nat \ {0}
    BY <1>1
  <2>2. outbox[d] \in Seq(Message) /\ Len(outbox[d]) \in 0..Len(outbox[d])
    BY <1>2
  <2>3. outbox'[d] = SubSeq(outbox[d], lost[d] + 1, Len(outbox[d]))
    BY <1>1
  <2> QED
    BY <2>1, <2>2, <2>3, SubSeqThins
<1> QED
  BY <1>3 DEF Thinned

(* Closing the ROUTER socket: the thread routes nothing at that moment.    *)
LEMMA OrderedLoses ==
  ASSUME Inv, Ordered, RouterLoses, UNCHANGED <<posts, inbox>>, rtPc' = "off",
         rtPc \notin {"resolve", "send", "count"}
  PROVE  Ordered'
<1>1. Thinned
  BY LosesThins
<1>2. OutboxOrdered'
  BY <1>1, ThinnedOutboxes
<1>3. InboxOrdered'
  BY <1>1, ThinnedOutboxes DEF Ordered, InboxOrdered
<1>4. RoutedOrdered'
  BY DEF RoutedOrdered, RtHandling
<1> QED
  BY <1>2, <1>3, <1>4 DEF Ordered

LEMMA LeaveThins == ASSUME Inv, NEW d \in Ids, Leave(d) PROVE Thinned
<1>1. PICK k \in 0..Len(outbox[d]) : outbox' = [outbox EXCEPT ![d] = SubSeq(@, 1, k)]
  BY DEF Leave
<1>2. outbox \in [Ids -> Seq(Message)]
  BY DEF Inv, TypeOK, TypePeers
<1> SUFFICES ASSUME NEW e \in Ids PROVE ThinnedAt(e)
  BY DEF Thinned
<1>3. outbox[e] \in Seq(Message) /\ Len(outbox[e]) \in 0..Len(outbox[e])
  BY <1>2
<1>4. PICK l \in 0..Len(outbox[e]) : outbox'[e] = SubSeq(outbox[e], 1, l)
  <2>1. CASE e = d
    BY <1>1, <1>2, <2>1
  <2>2. CASE e # d
    <3>1. outbox'[e] = SubSeq(outbox[e], 1, Len(outbox[e]))
      BY <1>1, <1>2, <1>3, <2>2
    <3> QED
      BY <1>3, <3>1
  <2> QED
    BY <2>1, <2>2
<1>5. 1 \in Nat \ {0}
  OBVIOUS
<1> QED
  BY <1>3, <1>4, <1>5, SubSeqThins

LEMMA OrderedLeave == ASSUME Inv, Ordered, NEW d \in Ids, Leave(d) PROVE Ordered'
<1>1. outbox \in [Ids -> Seq(Message)] /\ inbox \in [Ids -> Seq(Message)]
  BY DEF Inv, TypeOK, TypePeers
<1>2. Thinned
  BY LeaveThins
<1>3. /\ posts' = posts /\ rtMsg' = rtMsg /\ rtPc' = rtPc
      /\ inbox' = [inbox EXCEPT ![d] = <<>>]
  BY DEF Leave, rtVars
<1>4. OutboxOrdered'
  BY <1>2, <1>3, ThinnedOutboxes
<1>5. InboxOrdered'
  <2> SUFFICES ASSUME NEW f \in Ids, NEW i \in 1..Len(inbox'[f])
               PROVE  /\ inbox'[f][i].seq <= posts
                      /\ \A j \in 1..Len(inbox'[f]) : i < j => Before(inbox'[f][i], inbox'[f][j])
                      /\ rtPc \in {"resolve", "send"} => Before(inbox'[f][i], rtMsg)
                      /\ \A e \in Ids : \A j \in 1..Len(outbox'[e]) :
                           Before(inbox'[f][i], outbox'[e][j])
    BY <1>3 DEF InboxOrdered
  <2>1. f # d /\ inbox'[f] = inbox[f]
    BY <1>1, <1>3
  <2> QED
    BY <1>2, <1>3, <2>1, ThinnedOutboxes DEF Ordered, InboxOrdered
<1>6. RoutedOrdered'
  BY <1>2, <1>3, ThinnedOutboxes DEF Ordered, RoutedOrdered, RtHandling
<1> QED
  BY <1>4, <1>5, <1>6 DEF Ordered

(* What is left of a queue when its i-th member is taken.                  *)
Without(q, i) == SubSeq(q, 1, i - 1) \o SubSeq(q, i + 1, Len(q))
Skip(i, j) == IF j < i THEN j ELSE j + 1

LEMMA WithoutMembers ==
  ASSUME NEW q \in Seq(Message), NEW i \in 1..Len(q)
  PROVE  /\ Len(Without(q, i)) = Len(q) - 1
         /\ \A j \in 1..(Len(q) - 1) : Without(q, i)[j] = q[Skip(i, j)]
<1> DEFINE s == SubSeq(q, 1, i - 1)
           t == SubSeq(q, i + 1, Len(q))
<1>1. s \in Seq(Message) /\ Len(s) = i - 1 /\ \A j \in 1..(i - 1) : s[j] = q[j]
  OBVIOUS
<1>2. t \in Seq(Message) /\ Len(t) = Len(q) - i /\ \A j \in 1..(Len(q) - i) : t[j] = q[i + j]
  <2>1. i + 1 \in 1..(Len(q) + 1) /\ Len(q) \in Nat
    OBVIOUS
  <2>2. t \in Seq(Message) /\ Len(t) = Len(q) - i
    BY <2>1
  <2>3. ASSUME NEW j \in 1..(Len(q) - i) PROVE t[j] = q[i + j]
    <3>1. t[j] = q[(i + 1) + j - 1]
      BY <2>1
    <3> QED
      BY <2>1, <3>1
  <2> QED
    BY <2>2, <2>3
<1>3. Without(q, i) = s \o t
  BY DEF Without
<1> HIDE DEF s, t
<1>4. Len(q) \in Nat /\ i \in Int
  OBVIOUS
<1>5. Len(s \o t) = Len(q) - 1
  <2>1. s \in Seq(Message) /\ t \in Seq(Message) /\ Len(s) = i - 1 /\ Len(t) = Len(q) - i
    BY <1>1, <1>2
  <2>2. Len(s \o t) = Len(s) + Len(t)
    BY <2>1
  <2> QED
    BY <1>4, <2>1, <2>2
<1>6. ASSUME NEW j \in 1..(Len(q) - 1) PROVE (s \o t)[j] = q[Skip(i, j)]
  <2>1. CASE j < i
    BY <1>1, <1>2, <2>1 DEF Skip
  <2>2. CASE j >= i
    <3>1. (s \o t)[j] = t[j - Len(s)]
      BY <1>1, <1>2, <2>2
    <3>. j - Len(s) = j - i + 1
      BY <1>1
    <3>2. j - i + 1 \in 1..(Len(q) - i) /\ i + (j - i + 1) = j + 1
      BY <2>2
    <3> QED
      BY <1>2, <2>2, <3>1, <3>2 DEF Skip
  <2>3. j < i \/ j >= i
    BY <1>4
  <2> QED
    BY <2>1, <2>2, <2>3
<1> QED
  BY <1>3, <1>5, <1>6

(* Where the messages of the outboxes are when the ROUTER thread has taken *)
(* the i-th one of d.                                                      *)
Takes(d, i) ==
  /\ FirstOfItsLife(outbox[d], i)
  /\ rtMsg' = outbox[d][i]
  /\ Len(outbox'[d]) = Len(outbox[d]) - 1
  /\ \A j \in 1..(Len(outbox[d]) - 1) : /\ Skip(i, j) \in 1..Len(outbox[d]) \ {i}
                                       /\ outbox'[d][j] = outbox[d][Skip(i, j)]
  /\ \A e \in Ids \ {d} : outbox'[e] = outbox[e]

LEMMA Taking ==
  ASSUME Inv, NEW d \in Ids, RouterRecv(d)
  PROVE  \E i \in 1..Len(outbox[d]) : Takes(d, i)
<1>1. PICK i \in 1..Len(outbox[d]) :
        /\ FirstOfItsLife(outbox[d], i)
        /\ rtMsg' = outbox[d][i]
        /\ outbox' = [outbox EXCEPT ![d] = Without(@, i)]
  BY DEF RouterRecv, Without
<1>2. outbox \in [Ids -> Seq(Message)]
  BY DEF Inv, TypeOK, TypePeers
<1>3. /\ Len(outbox'[d]) = Len(outbox[d]) - 1
      /\ \A j \in 1..(Len(outbox[d]) - 1) : outbox'[d][j] = outbox[d][Skip(i, j)]
      /\ \A e \in Ids \ {d} : outbox'[e] = outbox[e]
  BY <1>1, <1>2, WithoutMembers
<1>4. ASSUME NEW j \in 1..(Len(outbox[d]) - 1)
      PROVE  Skip(i, j) \in 1..Len(outbox[d]) \ {i}
  BY <1>2, <1>4 DEF Skip
<1> QED
  BY <1>1, <1>3, <1>4 DEF Takes

LEMMA TakingThins ==
  ASSUME Inv, NEW d \in Ids, NEW i \in 1..Len(outbox[d]), Takes(d, i)
  PROVE  Thinned
<1>1. outbox \in [Ids -> Seq(Message)]
  BY DEF Inv, TypeOK, TypePeers
<1> SUFFICES ASSUME NEW e \in Ids PROVE ThinnedAt(e)
  BY DEF Thinned
<1>2. CASE e = d
  <2> DEFINE f == [j \in 1..(Len(outbox[d]) - 1) |-> Skip(i, j)]
  <2>1. f \in [1..Len(outbox'[d]) -> 1..Len(outbox[d])]
    BY DEF Takes
  <2>2. Rises(f)
    BY <1>1 DEF Rises, Skip
  <2>3. \A j \in 1..Len(outbox'[d]) : outbox'[d][j] = outbox[d][f[j]]
    BY DEF Takes
  <2> HIDE DEF f
  <2> QED
    BY <1>2, <2>1, <2>2, <2>3 DEF ThinnedAt
<1>3. CASE e # d
  <2>1. outbox'[e] = SubSeq(outbox[e], 1, Len(outbox[e]))
    BY <1>1, <1>3 DEF Takes
  <2>2. outbox[e] \in Seq(Message) /\ Len(outbox[e]) \in 0..Len(outbox[e]) /\ 1 \in Nat \ {0}
    BY <1>1
  <2> QED
    BY <2>1, <2>2, SubSeqThins
<1> QED
  BY <1>2, <1>3

LEMMA OrderedReceive == ASSUME Inv, Ordered, NEW d \in Ids, RouterRecv(d) PROVE Ordered'
<1>1. PICK i \in 1..Len(outbox[d]) : Takes(d, i)
  BY Taking
<1>2. rtMsg' = outbox[d][i]
  BY <1>1 DEF Takes
<1>3. ~RtHandling /\ rtPc' = "resolve" /\ posts' = posts /\ inbox' = inbox
  BY DEF RouterRecv, RtHandling
<1>4. Thinned
  BY <1>1, TakingThins
<1>5. OutboxOrdered'
  BY <1>3, <1>4, ThinnedOutboxes
<1>6. InboxOrdered'
  <2>1. ASSUME NEW e \in Ids, NEW j \in 1..Len(inbox[e]) PROVE Before(inbox[e][j], rtMsg')
    BY <1>2 DEF Ordered, InboxOrdered
  <2> QED
    BY <1>3, <1>4, <2>1, ThinnedOutboxes DEF Ordered, InboxOrdered
<1>7. RoutedOrdered'
  <2>1. rtMsg'.seq <= posts' /\ rtMsg'.from = d
    BY <1>2, <1>3 DEF Ordered, OutboxOrdered
  <2>2. ASSUME NEW e \in Ids, NEW j \in 1..Len(outbox'[e]) PROVE Before(rtMsg', outbox'[e][j])
    <3>1. CASE e # d
      BY <1>5, <2>1, <3>1 DEF OutboxOrdered, Before
    <3>2. CASE e = d
      <4> DEFINE k == Skip(i, j)
      <4>1. k \in 1..Len(outbox[d]) \ {i} /\ outbox'[e][j] = outbox[d][k]
        BY <1>1, <3>2 DEF Takes
      <4>2. CASE k < i
        <5>1. outbox[d][k].life # outbox[d][i].life
          BY <1>1, <4>1, <4>2 DEF Takes, FirstOfItsLife
        <5> QED
          BY <1>2, <4>1, <5>1 DEF Before
      <4>3. CASE i < k
        BY <1>2, <4>1, <4>3 DEF Before, Ordered, OutboxOrdered
      <4> HIDE DEF k
      <4>4. i \in Int /\ k \in Int
        BY <4>1
      <4> QED
        BY <4>1, <4>2, <4>3, <4>4
    <3> QED
      BY <3>1, <3>2
  <2> QED
    BY <2>1, <2>2 DEF RoutedOrdered
<1> QED
  BY <1>5, <1>6, <1>7 DEF Ordered

LEMMA MessageSeq == \A m \in Message : m.seq \in Int
  BY DEF Message

LEMMA OrderedPost == ASSUME Inv, Ordered, NEW d \in Ids, Post(d) PROVE Ordered'
<1>1. PICK n \in Names \cup {Empty} :
        outbox' = [outbox EXCEPT ![d] =
          Append(@, [from |-> d, life |-> life[d], seq |-> posts + 1, target |-> n])]
  BY DEF Post
<1> DEFINE m == [from |-> d, life |-> life[d], seq |-> posts + 1, target |-> n]
<1>2. /\ outbox \in [Ids -> Seq(Message)] /\ inbox \in [Ids -> Seq(Message)]
      /\ posts \in Nat /\ posts' = posts + 1
      /\ rtMsg' = rtMsg /\ rtPc' = rtPc /\ inbox' = inbox
  BY DEF Inv, TypeOK, TypePeers, Post, rtVars
<1>3. m.from = d /\ m.seq = posts + 1
  OBVIOUS
<1>4. \A e \in Ids \ {d} : outbox'[e] = outbox[e]
  BY <1>1, <1>2
<1>5. /\ Len(outbox'[d]) = Len(outbox[d]) + 1
      /\ \A i \in 1..Len(outbox[d]) : outbox'[d][i] = outbox[d][i]
      /\ outbox'[d][Len(outbox[d]) + 1] = m
  <2>1. outbox'[d] = Append(outbox[d], m) /\ outbox[d] \in Seq(Message)
    BY <1>1, <1>2
  <2> HIDE DEF m
  <2> QED
    BY <2>1
<1> HIDE DEF m
<1>6. ASSUME NEW e \in Ids, NEW j \in 1..Len(outbox'[e])
      PROVE  \/ e = d /\ j = Len(outbox[d]) + 1 /\ outbox'[e][j] = m
             \/ j \in 1..Len(outbox[e]) /\ outbox'[e][j] = outbox[e][j]
  BY <1>2, <1>4, <1>5
<1>7. \A e \in Ids : \A j \in 1..Len(outbox[e]) : outbox[e][j].seq \in Int
  <2>1. \A e \in Ids : \A j \in 1..Len(outbox[e]) : outbox[e][j] \in Message
    BY <1>2
  <2> QED
    BY <2>1, MessageSeq
<1>8. OutboxOrdered'
  <2> SUFFICES ASSUME NEW e \in Ids, NEW i \in 1..Len(outbox'[e])
               PROVE  /\ outbox'[e][i].from = e
                      /\ outbox'[e][i].seq <= posts + 1
                      /\ \A j \in 1..Len(outbox'[e]) :
                           i < j => outbox'[e][i].seq < outbox'[e][j].seq
    BY <1>2 DEF OutboxOrdered
  <2>1. CASE e = d /\ i = Len(outbox[d]) + 1 /\ outbox'[e][i] = m
    BY <1>2, <1>3, <1>5, <2>1
  <2>2. CASE i \in 1..Len(outbox[e]) /\ outbox'[e][i] = outbox[e][i]
    <3>1. outbox[e][i].from = e /\ outbox[e][i].seq <= posts /\ outbox[e][i].seq \in Int
      BY <1>7, <2>2 DEF Ordered, OutboxOrdered
    <3>2. ASSUME NEW j \in 1..Len(outbox'[e]), i < j
          PROVE  outbox'[e][i].seq < outbox'[e][j].seq
      <4>1. CASE outbox'[e][j] = m
        BY <1>2, <1>3, <2>2, <3>1, <4>1
      <4>2. CASE j \in 1..Len(outbox[e]) /\ outbox'[e][j] = outbox[e][j]
        BY <2>2, <3>2, <4>2 DEF Ordered, OutboxOrdered
      <4> QED
        BY <1>6, <4>1, <4>2
    <3> QED
      BY <1>2, <2>2, <3>1, <3>2
  <2> QED
    BY <1>6, <2>1, <2>2
<1>9. ASSUME NEW x, x.seq \in Int, x.seq <= posts,
             \A e \in Ids : \A j \in 1..Len(outbox[e]) : Before(x, outbox[e][j]),
             NEW e \in Ids, NEW j \in 1..Len(outbox'[e])
      PROVE  Before(x, outbox'[e][j])
  <2>1. CASE outbox'[e][j] = m
    <3>1. x.seq < posts + 1
      BY <1>2, <1>9
    <3> QED
      BY <1>3, <2>1, <3>1 DEF Before
  <2>2. CASE j \in 1..Len(outbox[e]) /\ outbox'[e][j] = outbox[e][j]
    BY <1>9, <2>2
  <2> QED
    BY <1>6, <2>1, <2>2
<1>10. InboxOrdered'
  <2> SUFFICES ASSUME NEW f \in Ids, NEW i \in 1..Len(inbox[f])
               PROVE  /\ inbox[f][i].seq <= posts + 1
                      /\ \A j \in 1..Len(inbox[f]) : i < j => Before(inbox[f][i], inbox[f][j])
                      /\ rtPc \in {"resolve", "send"} => Before(inbox[f][i], rtMsg)
                      /\ \A e \in Ids : \A j \in 1..Len(outbox'[e]) :
                           Before(inbox[f][i], outbox'[e][j])
    BY <1>2 DEF InboxOrdered
  <2>1. inbox[f][i].seq \in Int
    <3>1. inbox[f][i] \in Message
      BY <1>2
    <3> QED
      BY <3>1, MessageSeq
  <2>2. /\ inbox[f][i].seq <= posts
        /\ \A j \in 1..Len(inbox[f]) : i < j => Before(inbox[f][i], inbox[f][j])
        /\ rtPc \in {"resolve", "send"} => Before(inbox[f][i], rtMsg)
        /\ \A e \in Ids : \A j \in 1..Len(outbox[e]) : Before(inbox[f][i], outbox[e][j])
    BY DEF Ordered, InboxOrdered
  <2>3. \A e \in Ids : \A j \in 1..Len(outbox'[e]) : Before(inbox[f][i], outbox'[e][j])
    BY <1>9, <2>1, <2>2
  <2>4. inbox[f][i].seq <= posts + 1
    BY <1>2, <2>1, <2>2
  <2> QED
    BY <2>2, <2>3, <2>4
<1>11. RoutedOrdered'
  <2> SUFFICES ASSUME RtHandling
               PROVE  /\ rtMsg.seq <= posts + 1
                      /\ \A e \in Ids : \A j \in 1..Len(outbox'[e]) : Before(rtMsg, outbox'[e][j])
    BY <1>2 DEF RoutedOrdered, RtHandling
  <2>1. rtMsg.seq \in Int
    BY MessageSeq DEF Inv, TypeOK, TypeLocals
  <2>2. /\ rtMsg.seq <= posts
        /\ \A e \in Ids : \A j \in 1..Len(outbox[e]) : Before(rtMsg, outbox[e][j])
    BY DEF Ordered, RoutedOrdered
  <2> QED
    BY <1>2, <1>9, <2>1, <2>2
<1> QED
  BY <1>8, <1>10, <1>11 DEF Ordered

LEMMA OrderedSend == ASSUME Inv, Ordered, RouterSend PROVE Ordered'
<1>1. /\ rtPc = "send" /\ rtPc' = "count" /\ rtMsg' = rtMsg
      /\ outbox' = outbox /\ posts' = posts
  BY DEF RouterSend
<1>2. CASE inbox' = inbox
  BY <1>1, <1>2, OrderedOthers
<1>3. CASE inbox' = [inbox EXCEPT ![rtId] = Append(@, rtMsg)]
  <2>1. inbox \in [Ids -> Seq(Message)] /\ rtId \in Ids /\ rtMsg \in Message
    BY <1>1 DEF Inv, TypeOK, TypePeers, TypeLocals, RtHandling
  <2>2. /\ Len(inbox'[rtId]) = Len(inbox[rtId]) + 1
        /\ \A i \in 1..Len(inbox[rtId]) : inbox'[rtId][i] = inbox[rtId][i]
        /\ inbox'[rtId][Len(inbox[rtId]) + 1] = rtMsg
        /\ \A f \in Ids \ {rtId} : inbox'[f] = inbox[f]
    <3>1. inbox'[rtId] = Append(inbox[rtId], rtMsg) /\ inbox[rtId] \in Seq(Message)
      BY <1>3, <2>1
    <3> QED
      BY <1>3, <2>1, <3>1
  <2>3. ASSUME NEW f \in Ids, NEW i \in 1..Len(inbox'[f])
        PROVE  \/ f = rtId /\ i = Len(inbox[rtId]) + 1 /\ inbox'[f][i] = rtMsg
               \/ i \in 1..Len(inbox[f]) /\ inbox'[f][i] = inbox[f][i]
    BY <2>1, <2>2
  <2>4. /\ rtMsg.seq <= posts
        /\ \A e \in Ids : \A j \in 1..Len(outbox[e]) : Before(rtMsg, outbox[e][j])
    BY <1>1 DEF Ordered, RoutedOrdered, RtHandling
  <2>5. InboxOrdered'
    <3> SUFFICES ASSUME NEW f \in Ids, NEW i \in 1..Len(inbox'[f])
                 PROVE  /\ inbox'[f][i].seq <= posts
                        /\ \A j \in 1..Len(inbox'[f]) : i < j => Before(inbox'[f][i], inbox'[f][j])
                        /\ \A e \in Ids : \A j \in 1..Len(outbox[e]) :
                             Before(inbox'[f][i], outbox[e][j])
      BY <1>1 DEF InboxOrdered
    <3>1. CASE f = rtId /\ i = Len(inbox[rtId]) + 1 /\ inbox'[f][i] = rtMsg
      BY <2>1, <2>2, <2>4, <3>1
    <3>2. CASE i \in 1..Len(inbox[f]) /\ inbox'[f][i] = inbox[f][i]
      <4>1. /\ inbox[f][i].seq <= posts
            /\ \A j \in 1..Len(inbox[f]) : i < j => Before(inbox[f][i], inbox[f][j])
            /\ Before(inbox[f][i], rtMsg)
            /\ \A e \in Ids : \A j \in 1..Len(outbox[e]) : Before(inbox[f][i], outbox[e][j])
        BY <1>1, <3>2 DEF Ordered, InboxOrdered
      <4> QED
        BY <2>3, <3>2, <4>1
    <3> QED
      BY <2>3, <3>1, <3>2
  <2> QED
    BY <1>1, <2>5 DEF Ordered, OutboxOrdered, RoutedOrdered, RtHandling
<1> QED
  BY <1>2, <1>3 DEF RouterSend

LEMMA OrderedNext == Inv /\ Ordered /\ [Next]_vars => Ordered'
<1> SUFFICES ASSUME Inv, Ordered, [Next]_vars PROVE Ordered'
  OBVIOUS
<1> USE DEF ctlVars, repVars, rtVars, reqVars, dealerVars, dataVars
<1>1. CASE Control
  <2>1. CASE StartRouter
    BY <2>1, OrderedOthers DEF StartRouter, RtHandling
  <2>2. CASE (StartBind /\ ~RouterLoses) \/ StartRep \/ StopBegin \/ StopJoinRep
    BY <2>2, OrderedOthers DEF StartBind, BindFails, StartRep, StopBegin, StopJoinRep
  <2>3. CASE StartBind /\ RouterLoses
    <3>1. rtPc = "off" /\ rtPc' = "off"
      BY <2>3 DEF StartBind, Inv, ThreadPhases
    <3> QED
      BY <2>3, <3>1, OrderedLoses DEF StartBind
  <2>4. CASE StopJoinRouter
    BY <2>4, OrderedLoses DEF StopJoinRouter
  <2> QED
    BY <1>1, <2>1, <2>2, <2>3, <2>4 DEF Control
<1>2. CASE RepStep \/ \E c \in Requesters : RepRecv(c)
  BY <1>2, OrderedOthers
     DEF RepStep, RepTop, RepTimeout, RepHandle, RepPublish, RepCount, RepReply, RepRecv
<1>3. CASE RouterTop \/ RouterTimeout \/ RouterCount
  BY <1>3, OrderedOthers DEF RouterTop, RouterTimeout, RouterCount, RtHandling
<1>4. CASE RouterResolve
  BY <1>4, OrderedOthers DEF RouterResolve
<1>5. CASE Environment
  <2>1. ASSUME NEW c \in Requesters, Ask(c) \/ GiveUp(c) PROVE Ordered'
    BY <2>1, OrderedOthers DEF Ask, GiveUp
  <2>2. ASSUME NEW d \in Ids, Join(d) PROVE Ordered'
    BY <2>2, OrderedOthers DEF Join
  <2> QED
    BY <1>5, <2>1, <2>2, OrderedLeave, OrderedPost DEF Environment
<1>6. CASE UNCHANGED vars
  BY <1>6, OrderedOthers DEF vars
<1>7. CASE RouterInterrupted
  BY <1>7, OrderedLoses DEF RouterInterrupted
<1> QED
  BY <1>1, <1>2, <1>3, <1>4, <1>5, <1>6, <1>7, OrderedReceive, OrderedSend DEF Next, RouterStep

Inv2 == HandledOnce /\ Ordered

LEMMA Inv2Always == Spec => []Inv2
<1>1. Init => Inv2
  BY DEF Init, Inv2, HandledOnce, Ordered, OutboxOrdered, InboxOrdered, RoutedOrdered, RtHandling
<1>2. Inv /\ Inv2 /\ [Next]_vars => Inv2'
  BY HandledOnceNext, OrderedNext DEF Inv2
<1> QED
  BY <1>1, <1>2, InvAlways, PTL DEF Spec

(* What reaches a peer from one connection of another arrives in the order *)
(* it was posted in, and once, whatever the table's changes and the        *)
(* peers' departures (RecvLoop, HandleRouterMessage, gateway.cpp:253-305). *)
THEOREM InOrder == Spec => []DeliveredInOrder
<1>1. Ordered => DeliveredInOrder
  BY DEF Ordered, InboxOrdered, Before, DeliveredInOrder
<1> QED
  BY <1>1, Inv2Always, PTL DEF Inv2

-----------------------------------------------------------------------------
(* The steps, mapped.                                                      *)

LEMMA SameRequests ==
  ASSUME UNCHANGED <<clients, requests, tickets, answers>>,
         \/ UNCHANGED <<repPc, repReq, repAnswer>>
         \/ /\ {repPc, repPc'} \cap {"handle", "publish", "count", "reply"} = {}
         \/ /\ {repPc, repPc'} \subseteq {"publish", "count", "reply"}
            /\ UNCHANGED <<repReq, repAnswer>>
  PROVE  UNCHANGED <<Binding, tickets, Waiting, Applied, answers>>
<1>1. Binding' = Binding
  BY DEF Binding
<1>2. Waiting' = Waiting
  BY DEF Waiting
<1>3. Applied' = Applied
  BY DEF Applied
<1> QED
  BY <1>1, <1>2, <1>3

LEMMA SameMessages ==
  ASSUME UNCHANGED <<posts, outbox, inbox>>,
         \/ UNCHANGED <<rtPc, rtMsg, rtId>>
         \/ {rtPc, rtPc'} \cap {"resolve", "send"} = {}
  PROVE  UNCHANGED <<posts, Posted, Routed, inbox>>
<1>1. Posted' = Posted
  <2>1. CASE UNCHANGED <<rtPc, rtMsg>>
    BY <2>1 DEF Posted
  <2>2. CASE rtPc # "resolve" /\ rtPc' # "resolve"
    BY <2>2 DEF Posted
  <2> QED
    BY <2>1, <2>2
<1>2. Routed' = Routed
  BY DEF Routed
<1> QED
  BY <1>1, <1>2

LEMMA SameForSwitchboard ==
  ASSUME UNCHANGED <<Binding, tickets, Waiting, Applied, answers>>,
         UNCHANGED <<posts, Posted, Routed, inbox>>
  PROVE  UNCHANGED SB!vars
  BY DEF SB!vars

LEMMA InPosted ==
  ASSUME NEW d \in Ids, NEW x \in 1..Len(outbox[d])
  PROVE  outbox[d][x] \in Posted
<1>1. outbox[d][x] \in {outbox[d][i] : i \in 1..Len(outbox[d])}
  OBVIOUS
<1> QED
  BY <1>1 DEF Posted

LEMMA ThinnedFrom ==
  ASSUME NEW d \in Ids, ThinnedAt(d), NEW i \in 1..Len(outbox'[d])
  PROVE  \E x \in 1..Len(outbox[d]) : outbox'[d][i] = outbox[d][x]
<1>1. PICK f \in [1..Len(outbox'[d]) -> 1..Len(outbox[d])] :
        \A j \in 1..Len(outbox'[d]) : outbox'[d][j] = outbox[d][f[j]]
  BY DEF ThinnedAt
<1>2. f[i] \in 1..Len(outbox[d])
  OBVIOUS
<1> QED
  BY <1>1, <1>2

LEMMA ThinnedPosted ==
  ASSUME \A d \in Ids : ThinnedAt(d),
         UNCHANGED <<rtPc, rtMsg>> \/ rtPc' # "resolve"
  PROVE  Posted' \in SUBSET Posted
<1>1. ASSUME NEW d \in Ids, NEW i \in 1..Len(outbox'[d])
      PROVE  \E x \in 1..Len(outbox[d]) : outbox'[d][i] = outbox[d][x]
  BY ThinnedFrom
<1>2. ASSUME NEW m \in Posted' PROVE m \in Posted
  <2>1. CASE rtPc = "resolve" /\ m = rtMsg
    BY <2>1 DEF Posted
  <2>2. CASE \E d \in Ids : \E i \in 1..Len(outbox'[d]) : m = outbox'[d][i]
    <3>1. PICK d \in Ids : \E i \in 1..Len(outbox'[d]) : m = outbox'[d][i]
      BY <2>2
    <3>2. \E x \in 1..Len(outbox[d]) : m = outbox[d][x]
      BY <1>1, <3>1
    <3> QED
      BY <3>2, InPosted
  <2> QED
    BY <2>1, <2>2 DEF Posted
<1> QED
  BY <1>2

(* Sockets are closed with what waits in them while no thread has anything *)
(* to route, and nothing will be answered any more.                        *)
LEMMA MapHalt ==
  ASSUME Inv, UNCHANGED <<clients, tickets, answers, posts, inbox>>,
         requests' \in SUBSET requests, outbox' = outbox \/ RouterLoses,
         rtPc \notin {"resolve", "send", "count"}, repPc' = "off", rtPc' = "off"
  PROVE  SB!Halt
<1>1. Waiting' \in SUBSET Waiting /\ Applied' = {}
  BY DEF Waiting, Applied
<1>2. Routed' = {} /\ UNCHANGED <<Binding, tickets, answers, posts, inbox>>
  BY DEF Routed, Binding
<1>3. Posted' \in SUBSET Posted
  <2>1. CASE outbox' = outbox
    BY <2>1 DEF Posted
  <2>2. CASE RouterLoses
    BY <2>2, LosesThins, ThinnedPosted DEF Thinned
  <2> QED
    BY <2>1, <2>2
<1> QED
  BY <1>1, <1>2, <1>3 DEF SB!Halt

LEMMA MapControl == ASSUME Inv, Control PROVE [SB!Next]_(SB!vars)
<1> USE DEF ctlVars, repVars, rtVars, reqVars, dealerVars, dataVars
<1>1. CASE StopBegin
  BY <1>1, SameRequests, SameMessages, SameForSwitchboard DEF StopBegin
<1>2. CASE StartRep
  <2>1. repPc = "off" /\ repPc' = "top"
    BY <1>2 DEF StartRep, Inv, ThreadPhases
  <2> QED
    BY <1>2, <2>1, SameRequests, SameMessages, SameForSwitchboard DEF StartRep
<1>3. CASE StartRouter
  <2>1. rtPc = "off" /\ rtPc' = "top"
    BY <1>3 DEF StartRouter, Inv, ThreadPhases
  <2> QED
    BY <1>3, <2>1, SameRequests, SameMessages, SameForSwitchboard DEF StartRouter
<1>4. CASE StopJoinRep
  <2>1. Waiting' \in SUBSET Waiting /\ UNCHANGED <<Binding, tickets, Applied, answers>>
    BY <1>4 DEF StopJoinRep, Waiting, Applied, Binding
  <2>2. UNCHANGED <<posts, Posted, Routed, inbox>>
    BY <1>4, SameMessages DEF StopJoinRep
  <2> QED
    BY <2>1, <2>2 DEF SB!Next, SB!Lose
<1>5. CASE StopJoinRouter
  <2>1. repPc' = "off" /\ rtPc = "off" /\ rtPc' = "off"
    BY <1>5 DEF StopJoinRouter, Inv, ThreadPhases
  <2>2. RouterLoses /\ UNCHANGED <<clients, requests, tickets, answers, posts, inbox>>
    BY <1>5 DEF StopJoinRouter
  <2> QED
    BY <2>1, <2>2, MapHalt DEF SB!Next
<1>6. CASE StartBind
  <2>1. repPc' = "off" /\ rtPc = "off" /\ rtPc' = "off"
    BY <1>6 DEF StartBind, Inv, ThreadPhases
  <2>2. requests' \in SUBSET requests /\ (outbox' = outbox \/ RouterLoses)
    BY <1>6 DEF StartBind, BindFails
  <2> QED
    BY <1>6, <2>1, <2>2, MapHalt DEF StartBind, SB!Next
<1> QED
  BY <1>1, <1>2, <1>3, <1>4, <1>5, <1>6 DEF Control

(* HandleRepRequest is atomic: what it does to the table and what it       *)
(* answers is settled in one step, under both locks.                       *)
LEMMA MapHandle == ASSUME Inv, HandledOnce, RepHandle PROVE SB!Apply
<1> DEFINE call == repReq.call
<1>1. /\ repPc = "handle" /\ repReq' = repReq /\ requests' = requests
      /\ UNCHANGED <<tickets, answers, posts, Posted, Routed, inbox>>
  BY SameMessages DEF RepHandle, rtVars, reqVars, dealerVars
<1>2. /\ repReq \in Request /\ call \in Call
      /\ DOMAIN clients \subseteq Names /\ \A n \in DOMAIN clients : clients[n] \in Ids
  <2>1. repReq \in Request
    BY <1>1 DEF Inv, TypeOK, TypeLocals, RepHandling
  <2>2. call \in Call
    BY <2>1, CallsAssumption DEF Request
  <2> QED
    BY <2>1, <2>2 DEF Inv, TypeOK, TypeData
<1>3. repPc' \in {"publish", "reply"}
  BY DEF RepHandle, HandleRegister, HandleUnregister, HandleQuery, HandleRefused,
         Reply, ReplyAfterBroadcast
<1>4. /\ repReq \in Waiting /\ Waiting' = Waiting \ {repReq}
      /\ Applied = {} /\ Applied' = {[request |-> repReq, answer |-> repAnswer']}
  BY <1>1, <1>3 DEF HandledOnce, Waiting, Applied
<1>5. \A n : SB!Bound(n) <=> n \in DOMAIN clients
  BY <1>2 DEF SB!Bound, Binding
<1> DEFINE whats == {"registered", "updated", "unregistered", "names", "stats", "refused"}
<1>6. ASSUME NEW names \in SUBSET Names, NEW what \in whats, SB!Effect(call, what, names),
             repAnswer' = [what |-> what, names |-> names]
      PROVE  SB!Apply
  BY <1>1, <1>4, <1>6 DEF SB!Apply
<1>7. CASE HandleRegister(call)
  <2>1. call.cmd = "register" /\ Empty \notin {call.name, call.identity}
    BY <1>7 DEF HandleRegister
  <2>2. clients' = [n \in DOMAIN clients \cup {call.name} |->
                      IF n = call.name THEN call.identity ELSE clients[n]]
    BY <1>7 DEF HandleRegister
  <2>3. Binding' = SB!Drop(call.name) \cup {<<call.name, call.identity>>}
    <3>1. DOMAIN clients' = DOMAIN clients \cup {call.name}
      BY <2>2
    <3>2. clients'[call.name] = call.identity
      BY <2>2
    <3>3. \A n \in DOMAIN clients \ {call.name} : clients'[n] = clients[n]
      BY <2>2
    <3> QED
      BY <3>1, <3>2, <3>3 DEF Binding, SB!Drop
  <2>4. CASE call.name \in DOMAIN clients
    <3>1. repAnswer' = [what |-> "updated", names |-> {}]
      BY <1>7, <2>4 DEF HandleRegister, Reply
    <3>2. SB!Effect(call, "updated", {})
      BY <1>5, <2>1, <2>3, <2>4 DEF SB!Effect
    <3> QED
      BY <1>6, <3>1, <3>2
  <2>5. CASE call.name \notin DOMAIN clients
    <3>1. repAnswer' = [what |-> "registered", names |-> {}]
      BY <1>7, <2>5 DEF HandleRegister, ReplyAfterBroadcast
    <3>2. SB!Effect(call, "registered", {})
      BY <1>5, <2>1, <2>3, <2>5 DEF SB!Effect
    <3> QED
      BY <1>6, <3>1, <3>2
  <2> QED
    BY <2>4, <2>5
<1>8. CASE HandleUnregister(call)
  <2>1. /\ call.cmd = "unregister" /\ call.name # Empty
        /\ clients' = [n \in DOMAIN clients \ {call.name} |-> clients[n]]
        /\ repAnswer' = [what |-> "unregistered", names |-> {}]
    BY <1>8 DEF HandleUnregister, ReplyAfterBroadcast
  <2>2. Binding' = SB!Drop(call.name)
    <3>1. DOMAIN clients' = DOMAIN clients \ {call.name}
      BY <2>1
    <3>2. \A n \in DOMAIN clients' : clients'[n] = clients[n]
      BY <2>1
    <3> QED
      BY <3>1, <3>2 DEF Binding, SB!Drop
  <2>3. SB!Effect(call, "unregistered", {})
    BY <2>1, <2>2 DEF SB!Effect
  <2> QED
    BY <1>6, <2>1, <2>3
<1>9. CASE HandleQuery(call)
  <2>1. Binding' = Binding
    BY <1>9 DEF HandleQuery, Binding
  <2>2. CASE call.cmd = "list" /\ repAnswer' = [what |-> "names", names |-> DOMAIN clients]
    <3>1. DOMAIN clients = {n \in Names : SB!Bound(n)}
      BY <1>2, <1>5
    <3>2. SB!Effect(call, "names", DOMAIN clients)
      BY <2>1, <2>2, <3>1 DEF SB!Effect
    <3> QED
      BY <1>2, <1>6, <2>2, <3>2
  <2>3. CASE call.cmd = "stats" /\ repAnswer' = [what |-> "stats", names |-> {}]
    <3>1. SB!Effect(call, "stats", {})
      BY <2>1, <2>3 DEF SB!Effect
    <3> QED
      BY <1>6, <2>3, <3>1
  <2> QED
    BY <1>9, <2>2, <2>3 DEF HandleQuery, Reply
<1>10. CASE HandleRefused(call)
  <2>1. Binding' = Binding /\ repAnswer' = [what |-> "refused", names |-> {}]
    BY <1>10 DEF HandleRefused, Reply, Binding
  <2>2. \/ call.cmd = "other"
        \/ call.cmd = "unregister" /\ call.name = Empty
        \/ call.cmd = "register" /\ Empty \in {call.name, call.identity}
    BY <1>10 DEF HandleRefused, Refused
  <2>3. SB!Effect(call, "refused", {})
    BY <2>1, <2>2 DEF SB!Effect
  <2> QED
    BY <1>6, <2>1, <2>3
<1> QED
  BY <1>7, <1>8, <1>9, <1>10 DEF RepHandle

LEMMA MapRep ==
  ASSUME Inv, HandledOnce, RepStep \/ \E c \in Requesters : RepRecv(c)
  PROVE  [SB!Next]_(SB!vars)
<1> USE DEF ctlVars, rtVars, reqVars, dealerVars, dataVars
<1>1. CASE RepTop \/ RepTimeout
  BY <1>1, SameRequests, SameMessages, SameForSwitchboard DEF RepTop, RepTimeout
<1>2. ASSUME NEW c \in Requesters, RepRecv(c) PROVE [SB!Next]_(SB!vars)
  <2>1. PICK r \in requests : repReq' = r /\ requests' = requests \ {r}
    BY <1>2 DEF RepRecv
  <2>2. repPc = "poll" /\ repPc' = "handle"
    BY <1>2 DEF RepRecv
  <2>3. Waiting' = Waiting /\ Applied' = Applied
    BY <2>1, <2>2 DEF Waiting, Applied
  <2>4. UNCHANGED <<Binding, tickets, answers>>
    BY <1>2 DEF RepRecv, Binding
  <2>5. UNCHANGED <<posts, Posted, Routed, inbox>>
    BY <1>2, SameMessages DEF RepRecv
  <2> QED
    BY <2>3, <2>4, <2>5, SameForSwitchboard
<1>3. CASE RepPublish \/ RepCount
  BY <1>3, SameRequests, SameMessages, SameForSwitchboard DEF RepPublish, RepCount
<1>4. CASE RepReply
  <2> DEFINE a == [request |-> repReq, answer |-> repAnswer]
  <2>1. Applied = {a} /\ Applied' = Applied \ {a}
    BY <1>4 DEF RepReply, Applied
  <2>2. answers' \in {answers, answers \cup {a}}
    BY <1>4 DEF RepReply
  <2>3. UNCHANGED <<Binding, tickets, Waiting>>
    BY <1>4 DEF RepReply, Binding, Waiting
  <2>4. UNCHANGED <<posts, Posted, Routed, inbox>>
    BY <1>4, SameMessages DEF RepReply
  <2> QED
    BY <2>1, <2>2, <2>3, <2>4 DEF SB!Next, SB!Answer
<1>5. CASE RepHandle
  BY <1>5, MapHandle DEF SB!Next
<1> QED
  BY <1>1, <1>2, <1>3, <1>4, <1>5 DEF RepStep

LEMMA MapReceive ==
  ASSUME Inv, NEW d \in Ids, RouterRecv(d)
  PROVE  Posted' = Posted
<1>1. PICK i \in 1..Len(outbox[d]) : Takes(d, i)
  BY Taking
<1>2. Thinned
  BY <1>1, TakingThins
<1>3. /\ rtPc = "poll" /\ rtPc' = "resolve" /\ rtMsg' = outbox[d][i]
      /\ outbox[d] \in Seq(Message)
  BY <1>1 DEF RouterRecv, Takes, Inv, TypeOK, TypePeers
<1>4. ASSUME NEW m \in Posted' PROVE m \in Posted
  <2>1. CASE m = rtMsg'
    <3>1. rtMsg' \in Posted
      BY <1>3, InPosted
    <3> QED
      BY <2>1, <3>1
  <2>2. ASSUME NEW e \in Ids, NEW j \in 1..Len(outbox'[e]), m = outbox'[e][j]
        PROVE  m \in Posted
    <3>1. PICK x \in 1..Len(outbox[e]) : outbox'[e][j] = outbox[e][x]
      BY <1>2, ThinnedFrom DEF Thinned
    <3>2. outbox[e][x] \in Posted
      BY InPosted
    <3> QED
      BY <2>2, <3>1, <3>2
  <2> QED
    BY <2>1, <2>2 DEF Posted
<1>5. ASSUME NEW m \in Posted PROVE m \in Posted'
  <2>1. PICK e \in Ids : \E x \in 1..Len(outbox[e]) : m = outbox[e][x]
    BY <1>3 DEF Posted
  <2>2. PICK x \in 1..Len(outbox[e]) : m = outbox[e][x]
    BY <2>1
  <2>3. CASE e # d
    BY <1>1, <2>2, <2>3 DEF Posted, Takes
  <2>4. CASE e = d /\ x = i
    BY <1>3, <2>2, <2>4 DEF Posted
  <2>5. CASE e = d /\ x # i
    <3> DEFINE j == IF x < i THEN x ELSE x - 1
    <3>1. j \in 1..(Len(outbox[d]) - 1) /\ Skip(i, j) = x
      BY <1>3, <2>5 DEF Skip
    <3>2. j \in 1..Len(outbox'[d]) /\ outbox'[d][j] = m
      BY <1>1, <2>2, <2>5, <3>1 DEF Takes
    <3> HIDE DEF j
    <3> QED
      BY <3>2 DEF Posted
  <2> QED
    BY <2>3, <2>4, <2>5
<1> QED
  BY <1>4, <1>5

LEMMA MapResolve == ASSUME Inv, Ordered, RouterResolve PROVE SB!Resolve
<1>1. /\ rtPc = "resolve" /\ rtMsg' = rtMsg /\ outbox' = outbox
      /\ rtPc' \in {"send", "count"}
      /\ UNCHANGED <<clients, tickets, requests, answers, repPc, repReq, repAnswer, posts, inbox>>
  BY DEF RouterResolve, repVars, reqVars, dealerVars, dataVars
<1>2. UNCHANGED <<Binding, tickets, Waiting, Applied, answers, posts, inbox>>
  BY <1>1, SameRequests
<1>3. rtMsg \in Posted /\ Posted' = Posted \ {rtMsg}
  <2>1. rtMsg.seq \in Int
    BY <1>1, MessageSeq DEF Inv, TypeOK, TypeLocals, RtHandling
  <2>2. ASSUME NEW e \in Ids, NEW j \in 1..Len(outbox[e]) PROVE outbox[e][j] # rtMsg
    BY <1>1, <2>1 DEF Ordered, RoutedOrdered, RtHandling, Before
  <2> QED
    BY <1>1, <2>2 DEF Posted
<1>4. DOMAIN clients \subseteq Names /\ \A n \in DOMAIN clients : clients[n] \in Ids
  BY DEF Inv, TypeOK, TypeData
<1>5. Routed = {}
  BY <1>1 DEF Routed
<1>6. CASE rtMsg.target \in DOMAIN clients /\ rtId' = clients[rtMsg.target] /\ rtPc' = "send"
  <2>1. Routed' = Routed \cup {[message |-> rtMsg, to |-> clients[rtMsg.target]]}
    BY <1>1, <1>5, <1>6 DEF Routed
  <2>2. <<rtMsg.target, clients[rtMsg.target]>> \in Binding /\ clients[rtMsg.target] \in Ids
    BY <1>4, <1>6 DEF Binding
  <2> QED
    BY <1>2, <1>3, <2>1, <2>2 DEF SB!Resolve
<1>7. CASE rtMsg.target \notin DOMAIN clients /\ rtPc' = "count"
  <2>1. Routed' = Routed
    BY <1>1, <1>7 DEF Routed
  <2>2. ~SB!Bound(rtMsg.target)
    BY <1>7 DEF SB!Bound, Binding
  <2> QED
    BY <1>2, <1>3, <2>1, <2>2 DEF SB!Resolve
<1> QED
  BY <1>6, <1>7 DEF RouterResolve

LEMMA MapRouter ==
  ASSUME Inv, Ordered, RouterStep \/ \E d \in Ids : RouterRecv(d)
  PROVE  [SB!Next]_(SB!vars)
<1> USE DEF ctlVars, repVars, rtVars, reqVars, dealerVars, dataVars
<1>1. CASE RouterTop \/ RouterTimeout \/ RouterCount
  BY <1>1, SameRequests, SameMessages, SameForSwitchboard DEF RouterTop, RouterTimeout, RouterCount
<1>2. ASSUME NEW d \in Ids, RouterRecv(d) PROVE [SB!Next]_(SB!vars)
  <2>1. UNCHANGED <<Binding, tickets, Waiting, Applied, answers>>
    BY <1>2, SameRequests DEF RouterRecv
  <2>2. UNCHANGED <<posts, Routed, inbox>>
    BY <1>2 DEF RouterRecv, Routed
  <2> QED
    BY <1>2, <2>1, <2>2, MapReceive, SameForSwitchboard
<1>3. CASE RouterResolve
  BY <1>3, MapResolve DEF SB!Next
<1>4. CASE RouterSend
  <2> DEFINE x == [message |-> rtMsg, to |-> rtId]
  <2>1. Routed = {x} /\ Routed' = Routed \ {x} /\ Posted' = Posted
    BY <1>4 DEF RouterSend, Routed, Posted
  <2>2. inbox' \in {inbox, [inbox EXCEPT ![x.to] = Append(@, x.message)]}
    BY <1>4 DEF RouterSend
  <2>3. UNCHANGED <<Binding, tickets, Waiting, Applied, answers, posts>>
    BY <1>4, SameRequests DEF RouterSend
  <2> QED
    BY <2>1, <2>2, <2>3 DEF SB!Next, SB!Deliver
<1> QED
  BY <1>1, <1>2, <1>3, <1>4 DEF RouterStep

LEMMA MapEnvironment == ASSUME Inv, Environment PROVE [SB!Next]_(SB!vars)
<1> USE DEF ctlVars, repVars, rtVars, reqVars, dealerVars, dataVars
<1>1. ASSUME NEW c \in Requesters, Ask(c) PROVE SB!Make
  <2>1. PICK call \in Calls :
          requests' = requests \cup {[ticket |-> tickets + 1, client |-> c, call |-> call]}
    BY <1>1 DEF Ask
  <2>2. Waiting' = Waiting \cup {[ticket |-> tickets + 1, client |-> c, call |-> call]}
    BY <1>1, <2>1 DEF Ask, Waiting
  <2>3. tickets' = tickets + 1 /\ UNCHANGED <<Binding, Applied, answers>>
    BY <1>1 DEF Ask, Binding, Applied
  <2>4. UNCHANGED <<posts, Posted, Routed, inbox>>
    BY <1>1, SameMessages DEF Ask
  <2> QED
    BY <2>2, <2>3, <2>4 DEF SB!Make
<1>2. ASSUME NEW c \in Requesters, GiveUp(c) PROVE SB!Lose
  <2>1. Waiting' \in SUBSET Waiting /\ UNCHANGED <<Binding, tickets, Applied, answers>>
    BY <1>2 DEF GiveUp, Waiting, Binding, Applied
  <2>2. UNCHANGED <<posts, Posted, Routed, inbox>>
    BY <1>2, SameMessages DEF GiveUp
  <2> QED
    BY <2>1, <2>2 DEF SB!Lose
<1>3. ASSUME NEW d \in Ids, Join(d) PROVE UNCHANGED SB!vars
  BY <1>3, SameRequests, SameMessages, SameForSwitchboard DEF Join
<1>4. ASSUME NEW d \in Ids, Leave(d) PROVE SB!Lose
  <2>1. ASSUME NEW e \in Ids PROVE ThinnedAt(e)
    BY <1>4, LeaveThins DEF Thinned
  <2>2. Posted' \in SUBSET Posted
    BY <1>4, <2>1, ThinnedPosted DEF Leave
  <2>3. inbox' \in {inbox} \cup {[inbox EXCEPT ![e] = <<>>] : e \in Ids}
    BY <1>4 DEF Leave
  <2>4. UNCHANGED <<Binding, tickets, Waiting, Applied, answers>>
    BY <1>4, SameRequests DEF Leave
  <2>5. UNCHANGED <<posts, Routed>>
    BY <1>4 DEF Leave, Routed
  <2> QED
    BY <2>2, <2>3, <2>4, <2>5 DEF SB!Lose
<1>5. ASSUME NEW d \in Ids, Post(d) PROVE SB!Post
  <2>1. PICK n \in Names \cup {Empty} :
          outbox' = [outbox EXCEPT ![d] =
            Append(@, [from |-> d, life |-> life[d], seq |-> posts + 1, target |-> n])]
    BY <1>5 DEF Post
  <2> DEFINE m == [from |-> d, life |-> life[d], seq |-> posts + 1, target |-> n]
  <2>2. m \in [from : Ids, life : 1..MaxLives, seq : {posts + 1}, target : Names \cup {Empty}]
    <3>1. life[d] \in 1..MaxLives
      BY <1>5 DEF Post, Inv, TypeOK, TypePeers
    <3> QED
      BY <3>1
  <2> HIDE DEF m
  <2>3. outbox[d] \in Seq(Message) /\ outbox'[d] = Append(outbox[d], m)
        /\ \A e \in Ids \ {d} : outbox'[e] = outbox[e]
    BY <2>1 DEF Inv, TypeOK, TypePeers, m
  <2>4. {outbox'[d][i] : i \in 1..Len(outbox'[d])} = {outbox[d][i] : i \in 1..Len(outbox[d])} \cup {m}
    BY <2>3
  <2>5. Posted' = Posted \cup {m}
    BY <1>5, <2>3, <2>4 DEF Post, Posted
  <2>6. UNCHANGED <<Binding, tickets, Waiting, Applied, answers>>
    BY <1>5, SameRequests DEF Post
  <2>7. posts' = posts + 1 /\ UNCHANGED <<Routed, inbox>>
    BY <1>5 DEF Post, Routed
  <2> QED
    BY <2>2, <2>5, <2>6, <2>7 DEF SB!Post
<1> QED
  BY <1>1, <1>2, <1>3, <1>4, <1>5 DEF Environment, SB!Next

LEMMA MapInterrupted == ASSUME Inv, RouterInterrupted PROVE SB!Halt
  BY MapHalt DEF RouterInterrupted, dataVars

LEMMA MapNext == Inv /\ Inv2 /\ [Next]_vars => [SB!Next]_(SB!vars)
<1> SUFFICES ASSUME Inv, Inv2, [Next]_vars PROVE [SB!Next]_(SB!vars)
  OBVIOUS
<1>1. CASE UNCHANGED vars
  BY <1>1, SameRequests, SameMessages, SameForSwitchboard
     DEF vars, repVars, rtVars, reqVars, dealerVars, dataVars
<1> QED
  BY <1>1, MapControl, MapRep, MapRouter, MapInterrupted, MapEnvironment DEF Next, Inv2, SB!Next

(* The gateway's threads, locks and sockets amount to a name table that is *)
(* changed at one instant per request and a switch that looks a target up  *)
(* at one instant per message (gateway.cpp:176-341).                       *)
THEOREM Implementation == Spec => ImplementsSwitchboard
<1>1. Init => SB!Init
  BY DEF Init, SB!Init, Binding, Waiting, Applied, Posted, Routed
<1> QED
  BY <1>1, MapNext, InvAlways, Inv2Always, PTL DEF Spec, ImplementsSwitchboard, SB!Spec
=============================================================================
