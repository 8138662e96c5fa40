---------------------------- MODULE LegacyPubSub ----------------------------
(***************************************************************************)
(* The publish/subscribe pair of the older wrapper: a ZmqPublisher, a      *)
(* ZmqSubscriber, and the IPC tester in its sub mode, which prints what a  *)
(* SUB socket of its own receives.                                         *)
(*                                                                         *)
(* What differs from PubSub: the loop receives without the mutex, on a     *)
(* copy of the shared_ptr m_socket, so that nothing keeps Subscribe from   *)
(* the socket meanwhile, which libzmq leaves undefined and the module      *)
(* leaves out; the loop may run before there is a socket; codecs may       *)
(* refuse a message; the context is never terminated.  A subscription is   *)
(* taken to reach the publisher at once, which PubSub does not.            *)
(***************************************************************************)
EXTENDS Naturals, Sequences, FiniteSets, SequencesExt

CONSTANTS Topics,      \* topics given to Subscribe and Publish
          Payloads,    \* payloads given to Publish
          TesterTopic, TesterCount, \* SubOptions::topic, and ::count, 0 for no end
          MaxSubs,     \* bound: calls of Subscribe
          MaxPubs,     \* bound: calls of Publish on a bound socket
          MaxBinds,    \* bound: sockets of the publisher
          MaxOpens,    \* bound: sockets of the subscriber
          Hwm          \* messages that fit between Publish and a SUB socket's recv

VARIABLES
  bound,       \* ZmqPublisher::m_socket holds a socket
  sub,         \* ZmqSubscriber::m_socket holds a socket
  looping, threaded, \* its m_running and m_thread.joinable()
  owner,       \* where the thread that connects and disconnects is
  worker,      \* where the background thread is
  m_handlers,  \* the number of the registration, 0 for none
  registered,  \* history: the topics given to Subscribe, in order
  filters,     \* the subscriptions of the SUB socket
  wire, got,   \* messages that wait at the SUB socket; the one received
  chosen,      \* the handler copied out of m_handlers
  published, called, \* history: what Publish was given, calls of handlers
  tester,      \* where RunSubscriber is
  frames, printed, \* messages that wait at its socket; the frames printed
  opens

pubVars    == <<bound, published>>
subVars    == <<sub, m_handlers, registered, filters>>
ownVars    == <<looping, threaded, owner>>
workVars   == <<worker, got, chosen, called>>
testerVars == <<tester, frames, printed>>
vars == <<pubVars, subVars, ownVars, workVars, wire, testerVars, opens>>

Empty == <<>>
Nothing == [id |-> 0, parts |-> <<>>]

Init ==
  /\ bound = FALSE /\ sub = FALSE /\ looping = FALSE /\ threaded = FALSE
  /\ owner = "idle" /\ worker = "off"
  /\ m_handlers = [t \in Topics |-> 0] /\ registered = <<>> /\ filters = {}
  /\ wire = <<>> /\ got = Nothing /\ chosen = 0 /\ published = <<>> /\ called = <<>>
  /\ tester = "off" /\ frames = <<>> /\ printed = <<>>
  /\ opens = [bind |-> 0, connect |-> 0]

-----------------------------------------------------------------------------
(* ZmqPublisher.                                                           *)

Bind ==
  /\ ~bound /\ opens.bind < MaxBinds
  /\ bound' = TRUE /\ opens' = [opens EXCEPT !.bind = @ + 1]
  /\ UNCHANGED <<published, subVars, ownVars, workVars, wire, testerVars>>

(* With linger 0, what has not left is discarded; a message of which a     *)
(* frame was received has left.                                            *)
Unbind ==
  /\ bound /\ bound' = FALSE
  /\ \E n \in 0..Len(wire) : wire' = SubSeq(wire, 1, n)
  /\ \E n \in 0..Len(frames) :
       /\ n = 0 /\ frames # <<>> /\ printed # <<>> => printed[Len(printed)].id # frames[1].id
       /\ frames' = SubSeq(frames, 1, n)
  /\ UNCHANGED <<published, subVars, ownVars, workVars, tester, printed, opens>>

(* The frames of a publication: the topic first, unless it is empty.       *)
Parts(topic, payload) == IF topic = Empty THEN <<payload>> ELSE <<topic, payload>>

(* A codec that refuses makes Publish return false before it sends.  What  *)
(* does not fit a subscriber's queue is dropped for that subscriber.       *)
Publish(topic, payload) ==
  LET parts == Parts(topic, payload)
      m == [id |-> Len(published) + 1, parts |-> parts]
  IN  /\ bound /\ Len(published) < MaxPubs
      /\ published' = Append(published, [topic |-> topic, payload |-> payload])
      /\ wire' = IF Len(wire) < Hwm /\ sub /\ \E f \in filters : IsPrefix(f, parts[1])
                 THEN Append(wire, m) ELSE wire
      /\ frames' = IF Len(frames) < Hwm /\ tester = "recv" /\ IsPrefix(TesterTopic, parts[1])
                   THEN Append(frames, m) ELSE frames
      /\ UNCHANGED <<bound, subVars, ownVars, workVars, tester, printed, opens>>

-----------------------------------------------------------------------------
(* ZmqSubscriber, its owner's calls and Subscribe, any thread's.           *)

(* Mutant: subscriptions made before Connect are not applied.              *)
Connect_NoFilters ==
  /\ owner = "idle" /\ ~sub /\ opens.connect < MaxOpens
  /\ sub' = TRUE /\ opens' = [opens EXCEPT !.connect = @ + 1] /\ filters' = {}
  /\ UNCHANGED <<m_handlers, registered, pubVars, ownVars, workVars, wire, testerVars>>

Connect ==
  /\ owner = "idle" /\ ~sub /\ opens.connect < MaxOpens
  /\ sub' = TRUE /\ opens' = [opens EXCEPT !.connect = @ + 1]
  /\ filters' = {t \in Topics : m_handlers[t] # 0}
  /\ UNCHANGED <<m_handlers, registered, pubVars, ownVars, workVars, wire, testerVars>>

(* Setting the option while the loop is in recv_multipart would use the    *)
(* socket from two threads, which libzmq leaves undefined: only programs   *)
(* that do not so are modelled, although zmq_subscriber.h:44 allows it.    *)
Subscribe(topic) ==
  /\ ~(sub /\ worker = "recv")
  /\ Len(registered) < MaxSubs /\ registered' = Append(registered, topic)
  /\ m_handlers' = [m_handlers EXCEPT ![topic] = Len(registered) + 1]
  /\ filters' = IF sub THEN filters \cup {topic} ELSE filters
  /\ UNCHANGED <<sub, pubVars, ownVars, workVars, wire, testerVars, opens>>

(* As in LegacyReqRep, the thread must not be joinable.                    *)
StartBackground ==
  /\ owner = "idle" /\ ~threaded
  /\ looping' = TRUE /\ threaded' = TRUE /\ worker' = "top"
  /\ UNCHANGED <<owner, got, chosen, called, pubVars, subVars, wire, testerVars, opens>>

DisconnectBegin ==
  /\ owner = "idle" /\ owner' = "join" /\ looping' = FALSE
  /\ UNCHANGED <<threaded, pubVars, subVars, workVars, wire, testerVars, opens>>

DisconnectJoin ==
  /\ owner = "join" /\ (threaded => worker = "ended")
  /\ owner' = "close" /\ threaded' = FALSE /\ worker' = "off"
  /\ UNCHANGED <<looping, got, chosen, called, pubVars, subVars, wire, testerVars, opens>>

DisconnectClose ==
  /\ owner = "close"
  /\ owner' = "idle" /\ sub' = FALSE /\ filters' = {} /\ wire' = <<>>
  /\ UNCHANGED <<m_handlers, registered, looping, threaded, pubVars, workVars, testerVars, opens>>

-----------------------------------------------------------------------------
(* RecvLoop.                                                               *)

(* Without a socket the loop sleeps and looks again.                       *)
WorkerTop ==
  /\ worker = "top"
  /\ worker' = IF ~looping THEN "ended" ELSE IF sub THEN "recv" ELSE "top"
  /\ UNCHANGED <<got, chosen, called, pubVars, subVars, ownVars, wire, testerVars, opens>>

(* A message is received, and the codec takes it or it is dropped.         *)
WorkerGets ==
  /\ worker = "recv" /\ wire # <<>> /\ wire' = Tail(wire)
  /\ \/ got' = Head(wire) /\ worker' = "dispatch"
     \/ got' = got /\ worker' = "top"
  /\ UNCHANGED <<chosen, called, pubVars, subVars, ownVars, testerVars, opens>>

(* Time-out or signal.                                                     *)
WorkerGetsNone ==
  /\ worker = "recv" /\ wire = <<>> /\ worker' = "top"
  /\ UNCHANGED <<got, chosen, called, pubVars, subVars, ownVars, wire, testerVars, opens>>

(* Topic and payload of what was received.                                 *)
Read(parts) ==
  IF Len(parts) >= 2 THEN [topic |-> parts[1], payload |-> parts[2]]
                     ELSE [topic |-> Empty, payload |-> parts[1]]

(* Mutant: a handler takes the topics it is a prefix of.                   *)
Find_Prefix(topic) ==
  LET taking == {t \in Topics : m_handlers[t] # 0 /\ IsPrefix(t, topic)}
  IN  IF taking = {} THEN 0 ELSE m_handlers[CHOOSE t \in taking : \A u \in taking : Len(u) <= Len(t)]

(* The handler of just this topic or, failing that, of the empty one.      *)
Find(topic) ==
  IF topic \in Topics /\ m_handlers[topic] # 0 THEN m_handlers[topic] ELSE m_handlers[Empty]

WorkerDispatches ==
  /\ worker = "dispatch"
  /\ chosen' = Find(Read(got.parts).topic)
  /\ IF chosen' # 0 THEN worker' = "call" /\ UNCHANGED got ELSE worker' = "top" /\ got' = Nothing
  /\ UNCHANGED <<called, pubVars, subVars, ownVars, wire, testerVars, opens>>

WorkerCalls ==
  /\ worker = "call" /\ worker' = "top" /\ got' = Nothing /\ chosen' = 0
  /\ called' = Append(called, [id |-> got.id, msg |-> Read(got.parts), by |-> chosen])
  /\ UNCHANGED <<pubVars, subVars, ownVars, wire, testerVars, opens>>

WorkerStep == WorkerTop \/ WorkerGets \/ WorkerGetsNone \/ WorkerDispatches \/ WorkerCalls

-----------------------------------------------------------------------------
(* RunSubscriber.                                                          *)

TesterConnects ==
  /\ tester = "off" /\ tester' = "recv"
  /\ UNCHANGED <<pubVars, subVars, ownVars, workVars, wire, frames, printed, opens>>

(* One zmq_msg_recv: a frame, which is printed and counted.                *)
TesterPrints ==
  /\ tester = "recv" /\ frames # <<>>
  /\ printed' = Append(printed, [id |-> Head(frames).id, frame |-> Head(Head(frames).parts)])
  /\ frames' = IF Len(Head(frames).parts) = 1 THEN Tail(frames)
               ELSE [frames EXCEPT ![1].parts = Tail(@)]
  /\ tester' = IF TesterCount > 0 /\ Len(printed') >= TesterCount THEN "done" ELSE "recv"
  /\ UNCHANGED <<pubVars, subVars, ownVars, workVars, wire, opens>>

-----------------------------------------------------------------------------
Next ==
  \/ Bind \/ Unbind
  \/ \E t \in Topics : Subscribe(t) \/ \E p \in Payloads : Publish(t, p)
  \/ Connect \/ StartBackground \/ DisconnectBegin \/ DisconnectJoin \/ DisconnectClose
  \/ WorkerStep \/ TesterConnects \/ TesterPrints

(* The background thread, a Disconnect that was begun, and the tester keep *)
(* going.                                                                  *)
Fairness ==
  /\ WF_vars(WorkerStep)
  /\ WF_vars(DisconnectJoin \/ DisconnectClose)
  /\ WF_vars(TesterPrints)

-----------------------------------------------------------------------------
(* Properties.                                                             *)

Messages == [id : 1..MaxPubs, parts : Seq(Topics \cup Payloads)]

(* Every variable keeps its type, and the loop does not run unjoined.      *)
TypeOK ==
  /\ worker # "off" => threaded
  /\ bound \in BOOLEAN /\ sub \in BOOLEAN /\ looping \in BOOLEAN /\ threaded \in BOOLEAN
  /\ owner \in {"idle", "join", "close"}
  /\ worker \in {"off", "top", "recv", "dispatch", "call", "ended"}
  /\ registered \in Seq(Topics) /\ filters \subseteq Topics
  /\ m_handlers \in [Topics -> 0..Len(registered)] /\ chosen \in 0..Len(registered)
  /\ wire \in Seq(Messages) /\ frames \in Seq(Messages) /\ got \in Messages \cup {Nothing}
  /\ tester \in {"off", "recv", "done"}

(* While there is a socket its filters are the topics of the handlers,     *)
(* whatever the order of Subscribe, Connect and Disconnect.                *)
FiltersFollow == sub => filters = {t \in Topics : m_handlers[t] # 0}

(* As in PubSub, a message is on its way until there is a handler for it,  *)
(* and chosen until that is called.                                        *)
Pending ==
  (IF worker = "dispatch" THEN <<got.id>> ELSE <<>>) \o [i \in 1..Len(wire) |-> wire[i].id]
Chosen == IF worker = "call" THEN [id |-> got.id, by |-> chosen] ELSE [id |-> 0, by |-> 0]

(* The older pair implements the service that the newer one does, except   *)
(* that the subscriber's codec may refuse a message: in order and once, a  *)
(* message goes to the registration that its topic or else the empty topic *)
(* has at one instant, before or after a Subscribe beside the loop.  That  *)
(* the empty topic's handler is a fallback is what the code does           *)
(* (zmq_subscriber.cpp:136-150); zmq/README.md:192 and zmq_subscriber.h:45 *)
(* say that it receives all messages.                                      *)
Service == INSTANCE TopicFeed WITH
             Refusing <- TRUE, subscribed <- m_handlers, registrations <- Len(registered),
             log <- published, pending <- Pending, chosen <- Chosen, calls <- called
ImplementsTopicFeed == Service!Spec

(* The frames of the message of which the i-th frame printed is one, and   *)
(* how many of the first i frames printed are of that message.             *)
PartsOf(i) == Parts(published[printed[i].id].topic, published[printed[i].id].payload)
Nth(i) == Cardinality({j \in 1..i : printed[j].id = printed[i].id})

(* As far as it gets, the tester prints messages in the order of           *)
(* publication, each once and whole before the next begins, whatever the   *)
(* publisher discards.  Where it stops is not part of this: it counts      *)
(* frames, where zmq_ipc_tester/src/main.cpp:64 says messages.             *)
TesterPrintsAll ==
  /\ \A i \in 1..Len(printed) : Nth(i) <= Len(PartsOf(i)) /\ printed[i].frame = PartsOf(i)[Nth(i)]
  /\ \A i \in 2..Len(printed) : printed[i-1].id # printed[i].id =>
       printed[i-1].id < printed[i].id /\ Nth(i-1) = Len(PartsOf(i-1))

(* Disconnect returns, with or without a socket and whatever is under way. *)
CallsReturn == (owner = "join") ~> (owner = "idle")
=============================================================================
