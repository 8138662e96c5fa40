------------------------------- MODULE Legacy -------------------------------
(***************************************************************************)
(* The older wrapper as a whole.  Its four classes share the context of    *)
(* ZmqContext and nothing else, and that is never terminated: what a       *)
(* program does with a request/reply pair and what it does with a          *)
(* publish/subscribe pair do not touch each other.  A behaviour is         *)
(* therefore one of either pair, with the other at rest.                   *)
(***************************************************************************)
EXTENDS Naturals, Sequences

CONSTANTS Pollers, Background, Clients, Testers, None, MaxGens, MaxConns, MaxTickets,
          Topics, Payloads, TesterTopic, TesterCount, MaxSubs, MaxPubs, MaxBinds, MaxOpens, Hwm

ASSUME PollersAssumption == Background \in Pollers
ASSUME ClientsAssumption == Clients \cap Testers = {}
ASSUME NoneAssumption == None \notin [ticket : Nat, client : Clients \cup Testers, conn : Nat, at : Nat]
ASSUME BoundsAssumption ==
  /\ {MaxGens, MaxConns, MaxTickets, MaxSubs, MaxPubs, MaxBinds, MaxOpens} \subseteq Nat
  /\ Hwm \in Nat \ {0}
ASSUME TopicsAssumption == <<>> \in Topics
ASSUME TesterCountAssumption == TesterCount \in Nat

VARIABLES
  half, \* the pair that is in use
  ctl, m_socket, gens, open, owes, refused, m_handler, m_running, joinable,
  pollPc, pollSock, pollReq, sock, conn, calling, tickets, outgoing, requests, replies, returned,
  bound, sub, looping, threaded, owner, worker, m_handlers, registered, filters,
  wire, got, chosen, published, called, tester, frames, printed, opens

pairVars ==
  <<ctl, m_socket, gens, open, owes, refused, m_handler, m_running, joinable, pollPc, pollSock,
    pollReq, sock, conn, calling, tickets, outgoing, requests, replies, returned>>
feedVars ==
  <<bound, sub, looping, threaded, owner, worker, m_handlers, registered, filters,
    wire, got, chosen, published, called, tester, frames, printed, opens>>
vars == <<half, pairVars, feedVars>>

Pair == INSTANCE LegacyReqRep
Feed == INSTANCE LegacyPubSub

Init == half \in {"request/reply", "publish/subscribe"} /\ Pair!Init /\ Feed!Init

ReqRepNext == half = "request/reply" /\ Pair!Next /\ UNCHANGED <<half, feedVars>>

PubSubNext == half = "publish/subscribe" /\ Feed!Next /\ UNCHANGED <<half, pairVars>>

Next == ReqRepNext \/ PubSubNext

Spec == Init /\ [][Next]_vars

FairSpec == Spec /\ Pair!Fairness /\ Feed!Fairness

-----------------------------------------------------------------------------
(* Every variable of both pairs keeps its type.                            *)
TypeOK == Pair!TypeOK /\ Feed!TypeOK

(* ZmqRepServer::PollOnce works on live sockets and owes no reply, unless  *)
(* a codec refused (zmq_rep_server.cpp:68-132).                            *)
Unwedged == Pair!Unwedged

(* ZmqReqClient::Call and the tester's SendAndReceiveJson return the reply *)
(* to their own request (zmq_req_client.cpp:55-112).                       *)
NoStaleReply == Pair!NoStaleReply

(* ZmqSubscriber's filters follow its handlers (zmq_subscriber.cpp:21-73). *)
FiltersFollow == Feed!FiltersFollow

(* ZmqPublisher and ZmqSubscriber implement the service of TopicFeed, and  *)
(* the tester prints what was published (zmq_subscriber.cpp:86-153,        *)
(* sub_client.cpp:59-81).                                                  *)
SubscribersServed == Feed!ImplementsTopicFeed /\ []Feed!TesterPrintsAll

(* ZmqRepServer::Stop, ZmqSubscriber::Disconnect and, while there is a     *)
(* server, SendAndReceiveJson return.                                      *)
CallsReturn == Pair!CallsReturn /\ Feed!CallsReturn
=============================================================================
