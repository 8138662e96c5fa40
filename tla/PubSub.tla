------------------------------- MODULE PubSub -------------------------------
(***************************************************************************)
(* zmq_wrap::PublisherSocket and zmq_wrap::SubscriberSocket, and the       *)
(* ZeroMQ PUB and SUB sockets between them.  The subscriber keeps one      *)
(* handler for a topic and asks ZeroMQ for the topics as filters; a filter *)
(* selects by prefix of the first frame, a handler is found by equality    *)
(* with the topic or, failing that, under the empty topic.                 *)
(*                                                                         *)
(* Topics and payloads are sequences of characters, as their prefixes      *)
(* matter.  Every registration of a handler has a number of its own.       *)
(* Statistics are left out.                                                *)
(***************************************************************************)
EXTENDS Naturals, Sequences, SequencesExt

CONSTANTS Topics,      \* topics given to Subscribe and Publish
          Payloads,    \* payloads given to Publish
          Hwm,         \* messages that fit between Publish and recv
          MaxSubs,     \* bound: calls of Subscribe
          MaxPubs,     \* bound: calls of Publish on a bound socket
          MaxOpens     \* bound: calls of Bind, and of Connect, that open a socket

Empty == <<>>

ASSUME TopicsAssumption == Empty \in Topics
ASSUME BoundsAssumption ==
  Hwm \in Nat \ {0} /\ MaxSubs \in Nat /\ MaxPubs \in Nat /\ MaxOpens \in Nat

VARIABLES
  bound,       \* PublisherSocket::m_sock holds a socket
  sock,        \* SubscriberSocket::m_sock holds a socket
  running,     \* m_running
  joinable,    \* m_thread.joinable()
  owner,       \* where the thread that connects and disconnects is
  worker,      \* where the background thread is
  handlers,    \* m_handlers: the number of the registration, 0 for none
  registered,  \* history: the topics given to Subscribe, in order
  filters,     \* the subscriptions of the SUB socket
  known,       \* those that have reached the PUB socket
  wire,        \* messages accepted by the PUB socket and not yet received
  published,   \* history: what Publish was given
  got,         \* the message the background thread has received
  handler,     \* the handler it has copied out of m_handlers
  called,      \* history: the calls of handlers
  ignored,     \* history: the messages for which it found no handler
  termed, opens

pubVars  == <<bound, known, wire, published>>
subVars  == <<sock, filters, handlers, registered>>
ownVars  == <<running, joinable, owner>>
workVars == <<worker, got, handler, called, ignored>>
vars     == <<pubVars, subVars, ownVars, workVars, termed, opens>>

(* SubscriberSocket::m_mutex: only the background thread keeps it for more *)
(* than a moment, while it is in RecvMultipart.                            *)
MutexFree == worker # "recv"

(* The frames of a publication, and what RecvMultipart makes of them.      *)
Wire(topic, payload) == IF topic = Empty THEN <<payload>> ELSE <<topic, payload>>

Read(frames) ==
  [topic |-> IF Len(frames) = 1 THEN Empty ELSE frames[1], payload |-> frames[Len(frames)]]

(* Mutant: no handler of the empty topic is looked for.                    *)
Find_NoFallback(topic) == handlers[topic]

(* The handler for a topic: its own, or that of the empty topic.           *)
Find(topic) == IF handlers[topic] # 0 THEN handlers[topic] ELSE handlers[Empty]

Nothing == [id |-> 0, frames |-> <<>>, due |-> FALSE]

Init ==
  /\ bound = FALSE /\ sock = FALSE /\ running = FALSE /\ joinable = FALSE
  /\ owner = "idle" /\ worker = "off"
  /\ handlers = [t \in Topics |-> 0] /\ registered = <<>>
  /\ filters = {} /\ known = {} /\ wire = <<>> /\ published = <<>>
  /\ got = Nothing /\ handler = 0 /\ called = <<>> /\ ignored = {}
  /\ termed = FALSE /\ opens = [bind |-> 0, connect |-> 0]

-----------------------------------------------------------------------------
(* PublisherSocket.                                                        *)

Bind ==
  /\ ~bound /\ ~termed /\ opens.bind < MaxOpens
  /\ bound' = TRUE /\ opens' = [opens EXCEPT !.bind = @ + 1]
  /\ UNCHANGED <<known, wire, published, subVars, ownVars, workVars, termed>>

(* With linger 0, what has not left for the subscriber is discarded; the   *)
(* next socket learns the subscriptions anew.                              *)
Unbind ==
  /\ bound /\ bound' = FALSE /\ known' = {}
  /\ \E n \in 0..Len(wire) : wire' = SubSeq(wire, 1, n)
  /\ UNCHANGED <<published, subVars, ownVars, workVars, termed, opens>>

(* ZeroMQ selects by the first frame and drops at the high-water mark.     *)
(* "due" records that the subscriber had a handler at that moment.         *)
Publish(topic, payload) ==
  LET frames == Wire(topic, payload)
  IN  /\ bound /\ ~termed /\ Len(published) < MaxPubs
      /\ published' = Append(published, [topic |-> topic, payload |-> payload])
      /\ wire' = IF Len(wire) < Hwm /\ \E f \in known : IsPrefix(f, frames[1])
                 THEN Append(wire, [id |-> Len(published) + 1, frames |-> frames,
                                    due |-> handlers[topic] # 0 \/ handlers[Empty] # 0])
                 ELSE wire
      /\ UNCHANGED <<bound, known, subVars, ownVars, workVars, termed, opens>>

(* A subscription reaches the publisher some time after it was made.       *)
Propagate ==
  /\ bound /\ sock
  /\ \E f \in filters \ known : known' = known \cup {f}
  /\ UNCHANGED <<bound, wire, published, subVars, ownVars, workVars, termed, opens>>

-----------------------------------------------------------------------------
(* SubscriberSocket, its owner's calls and Subscribe, any thread's.        *)

Connect ==
  /\ owner = "idle" /\ MutexFree /\ ~sock /\ ~termed /\ opens.connect < MaxOpens
  /\ sock' = TRUE /\ opens' = [opens EXCEPT !.connect = @ + 1]
  /\ filters' = {t \in Topics : handlers[t] # 0}
  /\ UNCHANGED <<handlers, registered, pubVars, ownVars, workVars, termed>>

(* Mutant: a topic is not passed on to a socket that is already there.     *)
Subscribe_OnlyBeforeConnect(topic) ==
  /\ MutexFree /\ Len(registered) < MaxSubs
  /\ registered' = Append(registered, topic)
  /\ handlers' = [handlers EXCEPT ![topic] = Len(registered) + 1]
  /\ UNCHANGED <<sock, filters, pubVars, ownVars, workVars, termed, opens>>

(* Once the socket has learnt that the context has ended, the option is    *)
(* refused with ETERM, which leaves Subscribe as an exception: the handler *)
(* has been stored by then.                                                *)
Subscribe(topic) ==
  /\ MutexFree /\ Len(registered) < MaxSubs
  /\ registered' = Append(registered, topic)
  /\ handlers' = [handlers EXCEPT ![topic] = Len(registered) + 1]
  /\ \/ sock /\ filters' = filters \cup {topic}
     \/ (~sock \/ termed) /\ filters' = filters
  /\ UNCHANGED <<sock, pubVars, ownVars, workVars, termed, opens>>

StartBackground ==
  /\ owner = "idle" /\ ~joinable /\ MutexFree /\ sock
  /\ running' = TRUE /\ joinable' = TRUE /\ worker' = "top"
  /\ UNCHANGED <<owner, got, handler, called, ignored, pubVars, subVars, termed, opens>>

DisconnectBegin ==
  /\ owner = "idle"
  /\ owner' = "join" /\ running' = FALSE
  /\ UNCHANGED <<joinable, pubVars, subVars, workVars, termed, opens>>

(* Mutant: the thread is detached.                                         *)
DisconnectJoin_Detach ==
  /\ owner = "join"
  /\ owner' = "close" /\ joinable' = FALSE
  /\ UNCHANGED <<running, pubVars, subVars, workVars, termed, opens>>

DisconnectJoin ==
  /\ owner = "join"
  /\ joinable => worker = "ended"
  /\ owner' = "close" /\ joinable' = FALSE /\ worker' = "off"
  /\ UNCHANGED <<running, got, handler, called, ignored, pubVars, subVars, termed, opens>>

DisconnectClose ==
  /\ owner = "close" /\ MutexFree
  /\ owner' = "idle" /\ sock' = FALSE /\ filters' = {} /\ known' = {} /\ wire' = <<>>
  /\ UNCHANGED <<handlers, registered, bound, published, running, joinable, workVars, termed, opens>>

-----------------------------------------------------------------------------
(* The background thread: RecvLoop and, with the mutex, RecvMultipart.     *)

WorkerTop ==
  /\ worker = "top"
  /\ worker' = IF running THEN "take" ELSE "ended"
  /\ UNCHANGED <<got, handler, called, ignored, pubVars, subVars, ownVars, termed, opens>>

WorkerTakesMutex ==
  /\ worker = "take"
  /\ worker' = IF sock THEN "recv" ELSE "top"
  /\ UNCHANGED <<got, handler, called, ignored, pubVars, subVars, ownVars, termed, opens>>

WorkerGets ==
  /\ worker = "recv" /\ wire # <<>>
  /\ got' = Head(wire) /\ wire' = Tail(wire) /\ worker' = "dispatch"
  /\ UNCHANGED <<handler, called, ignored, bound, known, published, subVars, ownVars, termed, opens>>

(* Mutant: the receive time-out is not set.                                *)
WorkerGetsNone_Waits ==
  /\ worker = "recv" /\ termed
  /\ worker' = "top" /\ running' = FALSE
  /\ UNCHANGED <<got, handler, called, ignored, pubVars, subVars, joinable, owner, termed, opens>>

(* Time-out, signal, or the end of the context, which ends the loop.       *)
WorkerGetsNone ==
  /\ worker = "recv" /\ (wire = <<>> \/ termed)
  /\ worker' = "top" /\ running' = (running /\ ~termed)
  /\ UNCHANGED <<got, handler, called, ignored, pubVars, subVars, joinable, owner, termed, opens>>

(* Mutant: the handler is called without looking whether there is one.     *)
WorkerDispatches_NoTest ==
  /\ worker = "dispatch"
  /\ handler' = Find(Read(got.frames).topic)
  /\ worker' = "call"
  /\ UNCHANGED <<got, called, ignored, pubVars, subVars, ownVars, termed, opens>>

WorkerDispatches ==
  /\ worker = "dispatch"
  /\ handler' = Find(Read(got.frames).topic)
  /\ IF handler' # 0 THEN worker' = "call" /\ UNCHANGED <<got, ignored>>
                     ELSE worker' = "top" /\ ignored' = ignored \cup {got} /\ got' = Nothing
  /\ UNCHANGED <<called, pubVars, subVars, ownVars, termed, opens>>

(* Mutant: the handler is looked up again when it is called.               *)
WorkerCalls_Late ==
  /\ worker = "call"
  /\ called' = Append(called, [id |-> got.id, msg |-> Read(got.frames), by |-> Find(Read(got.frames).topic)])
  /\ worker' = "top" /\ got' = Nothing /\ handler' = 0
  /\ UNCHANGED <<ignored, pubVars, subVars, ownVars, termed, opens>>

(* The handler is the copy: Subscribe may have replaced it in between.     *)
WorkerCalls ==
  /\ worker = "call"
  /\ called' = Append(called, [id |-> got.id, msg |-> Read(got.frames), by |-> handler])
  /\ worker' = "top" /\ got' = Nothing /\ handler' = 0
  /\ UNCHANGED <<ignored, pubVars, subVars, ownVars, termed, opens>>

WorkerStep ==
  \/ WorkerTop \/ WorkerTakesMutex \/ WorkerGets \/ WorkerGetsNone
  \/ WorkerDispatches \/ WorkerCalls

Terminate ==
  /\ ~termed /\ termed' = TRUE
  /\ UNCHANGED <<pubVars, subVars, ownVars, workVars, opens>>

-----------------------------------------------------------------------------
Next ==
  \/ Bind \/ Unbind \/ Propagate
  \/ \E t \in Topics : Subscribe(t) \/ \E p \in Payloads : Publish(t, p)
  \/ Connect \/ StartBackground \/ DisconnectBegin \/ DisconnectJoin \/ DisconnectClose
  \/ WorkerStep \/ Terminate

Spec == Init /\ [][Next]_vars

(* The background thread is scheduled, a Disconnect that was begun is      *)
(* carried through, and ZeroMQ passes subscriptions on.  Nothing makes a   *)
(* thread call anything.                                                   *)
Fairness ==
  /\ WF_vars(WorkerStep)
  /\ WF_vars(DisconnectJoin \/ DisconnectClose)
  /\ WF_vars(Propagate)

FairSpec == Spec /\ Fairness

-----------------------------------------------------------------------------
(* Properties.                                                             *)

Messages == [id : 1..MaxPubs, frames : Seq(Topics \cup Payloads), due : BOOLEAN]

TypeFlags ==
  /\ bound \in BOOLEAN /\ sock \in BOOLEAN /\ termed \in BOOLEAN
  /\ running \in BOOLEAN /\ joinable \in BOOLEAN
  /\ owner \in {"idle", "join", "close"}
  /\ worker \in {"off", "top", "take", "recv", "dispatch", "call", "ended"}
  /\ opens \in [bind : 0..MaxOpens, connect : 0..MaxOpens]

TypeTopics ==
  /\ registered \in Seq(Topics) /\ Len(registered) <= MaxSubs
  /\ handlers \in [Topics -> 0..Len(registered)]
  /\ filters \subseteq Topics /\ known \subseteq filters

TypeMessages ==
  /\ handler \in 0..Len(registered)
  /\ wire \in Seq(Messages) /\ Len(wire) <= Hwm
  /\ published \in Seq([topic : Topics, payload : Payloads])
  /\ got \in Messages \cup {Nothing} /\ ignored \subseteq Messages
  /\ called \in Seq([id : 1..MaxPubs, by : 1..MaxSubs,
                     msg : [topic : Topics, payload : Payloads]])

(* Every variable keeps its type.                                          *)
TypeOK == TypeFlags /\ TypeTopics /\ TypeMessages

(* Disconnect joins the thread before it resets the socket                 *)
(* (zmq_subscriber.h:49), and no thread is left unjoined.                  *)
WorkerOutlived ==
  /\ worker # "off" => joinable
  /\ worker \notin {"off", "ended"} => sock

Registered == {t \in Topics : handlers[t] # 0}

(* "Subscriptions registered before Connect() are applied automatically"   *)
(* (zmq_subscriber.h:30-31): the socket's filters are the handlers'        *)
(* topics, whatever the order of Subscribe, Connect, Disconnect and        *)
(* Connect again, until the context ends.  Then Subscribe may throw at     *)
(* zmq_subscriber.cpp:70 and leave a handler without its filter, but still *)
(* no filter is without a handler.                                         *)
FiltersFollow ==
  sock => /\ filters \subseteq Registered
          /\ termed \/ filters = Registered

(* What the background thread needs of the socket it works on.             *)
SocketKept == WorkerOutlived /\ FiltersFollow

(* No handler is given a message twice, and all of them together get the   *)
(* messages in the order of publication, through reconnections of either   *)
(* side and replaced handlers.  How many handlers a message has is left    *)
(* open: the code calls one, zmq_subscriber.h:29 can be read as two.       *)
CalledInOrder ==
  \A i, j \in 1..Len(called) : i < j =>
    \/ called[i].id < called[j].id
    \/ called[i].id = called[j].id /\ called[i].by # called[j].by

(* A handler is given what was published, topic and payload, and was       *)
(* registered for just this topic, or for the empty one: never for a       *)
(* topic that is only a prefix, though ZeroMQ lets these messages through. *)
CallsMatch ==
  \A i \in 1..Len(called) :
    /\ called[i].msg = published[called[i].id]
    /\ registered[called[i].by] \in {called[i].msg.topic, Empty}

(* A message that the socket accepted when the subscriber had a handler    *)
(* for it is not ignored by all, however long it was under way.            *)
NotIgnored == \A m \in ignored : ~m.due

(* What the background thread makes of the messages: which handlers it     *)
(* calls, in which order, and which messages it may pass over              *)
(* (zmq_subscriber.cpp:108-136).                                           *)
Dispatched == CalledInOrder /\ CallsMatch /\ NotIgnored

(* A message that the thread has received is on its way until the thread   *)
(* has a handler for it, and chosen until it has called it.                *)
Pending ==
  (IF worker = "dispatch" THEN <<got.id>> ELSE <<>>) \o [i \in 1..Len(wire) |-> wire[i].id]
Chosen == IF worker = "call" THEN [id |-> got.id, by |-> handler] ELSE [id |-> 0, by |-> 0]

(* Filters that travel, frames, mutex and threads implement the service of *)
(* module TopicFeed: above all, the registration a message is given to is  *)
(* that of one instant, and nothing is sent that nobody asked for.         *)
Service == INSTANCE TopicFeed WITH
             Refusing <- FALSE, subscribed <- handlers, registrations <- Len(registered),
             log <- published, pending <- Pending, chosen <- Chosen, calls <- called
ImplementsTopicFeed == Service!Spec

(* Disconnect returns.                                                     *)
DisconnectReturns == (owner = "join") ~> (owner = "idle")

(* A topic with a handler is heard by the publisher sooner or later, while *)
(* both sockets and the context last.                                      *)
SubscriptionArrives ==
  \A t \in Topics :
    (handlers[t] # 0 /\ bound /\ sock /\ ~termed) ~> (t \in known \/ ~bound \/ ~sock \/ termed)

(* What the socket accepts does not stay there while the loop runs.        *)
MessagesTaken == (wire # <<>> /\ running) ~> (wire = <<>> \/ ~running)

(* Both ways, subscriptions and messages get through.                      *)
Delivery == SubscriptionArrives /\ MessagesTaken
=============================================================================
