---------------------------- MODULE PubSubProofs ----------------------------
(***************************************************************************)
(* Theorems about module PubSub: types, the background thread, the filters *)
(* of the SUB socket, and what the thread makes of the messages.  The last *)
(* needs to be known of every message under way: that it is what Publish   *)
(* was given under its number, that those before it have smaller numbers,  *)
(* and that a topic that once had a handler still has one.                 *)
(***************************************************************************)
EXTENDS PubSub, TLAPS, SequenceTheorems, MessageLemmas

USE TopicsAssumption, BoundsAssumption

-----------------------------------------------------------------------------
(* The threads and the socket.                                             *)

(* Disconnect resets the socket only after the join; a socket that is gone *)
(* has no filters.                                                         *)
ThreadInv ==
  /\ TypeFlags /\ WorkerOutlived
  /\ owner = "close" => ~joinable

FilterInv ==
  /\ TypeTopics /\ FiltersFollow
  /\ ~sock => filters = {}

LEMMA ThreadInit == Init => ThreadInv /\ FilterInv
<1> SUFFICES ASSUME Init PROVE ThreadInv /\ FilterInv
  OBVIOUS
<1> USE DEF Init
<1>1. ThreadInv
  <2>1. opens \in [bind : 0..MaxOpens, connect : 0..MaxOpens]
    OBVIOUS
  <2> QED
    BY <2>1 DEF ThreadInv, TypeFlags, WorkerOutlived
<1>3. FilterInv
  <2>1. <<>> \in Seq(Topics) /\ Len(<<>>) = 0
    OBVIOUS
  <2> QED
    BY <2>1 DEF FilterInv, TypeTopics, FiltersFollow
<1> QED
  BY <1>1, <1>3

LEMMA ThreadNext == ThreadInv /\ [Next]_vars => ThreadInv'
<1> SUFFICES ASSUME ThreadInv, [Next]_vars PROVE ThreadInv'
  OBVIOUS
<1> USE DEF ThreadInv, TypeFlags, WorkerOutlived
<1>1. CASE UNCHANGED vars
  BY <1>1 DEF vars, pubVars, subVars, ownVars, workVars
<1> USE DEF pubVars, subVars, ownVars, workVars
<1>2. CASE Bind
  <2>1. /\ opens.bind + 1 \in 0..MaxOpens /\ opens.connect \in 0..MaxOpens
        /\ opens' = [bind |-> opens.bind + 1, connect |-> opens.connect]
    BY <1>2 DEF Bind
  <2>2. opens' \in [bind : 0..MaxOpens, connect : 0..MaxOpens]
    BY <2>1
  <2> QED
    BY <1>2, <2>2 DEF Bind
<1>3. CASE Unbind
  BY <1>3 DEF Unbind
<1>12. CASE Propagate
  BY <1>12 DEF Propagate
<1>13. CASE Terminate
  BY <1>13 DEF Terminate
<1>4. ASSUME NEW t \in Topics, Subscribe(t) PROVE ThreadInv'
  BY <1>4 DEF Subscribe
<1>5. ASSUME NEW t \in Topics, NEW p \in Payloads, Publish(t, p) PROVE ThreadInv'
  BY <1>5 DEF Publish
<1>6. CASE Connect
  <2>1. /\ opens.bind \in 0..MaxOpens /\ opens.connect + 1 \in 0..MaxOpens
        /\ opens' = [bind |-> opens.bind, connect |-> opens.connect + 1]
    BY <1>6 DEF Connect
  <2>2. opens' \in [bind : 0..MaxOpens, connect : 0..MaxOpens]
    BY <2>1
  <2> QED
    BY <1>6, <2>2 DEF Connect
<1>7. CASE StartBackground
  BY <1>7 DEF StartBackground
<1>8. CASE DisconnectBegin
  BY <1>8 DEF DisconnectBegin
<1>9. CASE DisconnectJoin
  BY <1>9 DEF DisconnectJoin
<1>10. CASE DisconnectClose
  BY <1>10 DEF DisconnectClose
<1>11. CASE WorkerStep
  BY <1>11 DEF WorkerStep, WorkerTop, WorkerTakesMutex, WorkerGets, WorkerGetsNone,
               WorkerDispatches, WorkerCalls
<1> QED
  BY <1>1, <1>2, <1>3, <1>4, <1>5, <1>6, <1>7, <1>8, <1>9, <1>10, <1>11, <1>12, <1>13 DEF Next

(* The number of a registration is that of its place in the history.       *)
LEMMA Registering ==
  ASSUME TypeTopics, NEW t \in Topics, Subscribe(t)
  PROVE  /\ registered' \in Seq(Topics) /\ Len(registered') = Len(registered) + 1
         /\ Len(registered) \in Nat /\ Len(registered') <= MaxSubs
         /\ registered'[Len(registered) + 1] = t
         /\ \A i \in 1..Len(registered) : registered'[i] = registered[i]
         /\ handlers'[t] = Len(registered) + 1
         /\ \A u \in Topics \ {t} : handlers'[u] = handlers[u]
         /\ handlers' \in [Topics -> 0..Len(registered')]
<1>1. /\ registered' \in Seq(Topics) /\ Len(registered') = Len(registered) + 1
      /\ Len(registered) \in Nat /\ registered'[Len(registered) + 1] = t
      /\ \A i \in 1..Len(registered) : registered'[i] = registered[i]
  BY AppendProperties, LenProperties DEF TypeTopics, Subscribe
<1>2. Len(registered') <= MaxSubs
  BY <1>1 DEF TypeTopics, Subscribe
<1>3. /\ handlers'[t] = Len(registered) + 1
      /\ \A u \in Topics \ {t} : handlers'[u] = handlers[u]
      /\ DOMAIN handlers' = Topics /\ handlers' = [u \in Topics |-> handlers'[u]]
  BY DEF TypeTopics, Subscribe
<1>4. \A u \in Topics : handlers'[u] \in 0..Len(registered')
  BY <1>1, <1>3 DEF TypeTopics
<1> QED
  BY <1>1, <1>2, <1>3, <1>4

LEMMA FilterNext == ThreadInv /\ FilterInv /\ [Next]_vars => FilterInv'
<1> SUFFICES ASSUME ThreadInv, FilterInv, [Next]_vars PROVE FilterInv'
  OBVIOUS
<1>1. CASE UNCHANGED <<sock, filters, handlers, registered, known, termed>>
  BY <1>1 DEF FilterInv, TypeTopics, FiltersFollow, Registered
<1> USE DEF pubVars, subVars, ownVars, workVars
<1>2. CASE UNCHANGED vars \/ Bind
  BY <1>1, <1>2 DEF vars, Bind
<1>11. CASE Terminate
  BY <1>11 DEF Terminate, FilterInv, TypeTopics, FiltersFollow, Registered
<1>3. CASE Unbind \/ Propagate
  BY <1>3 DEF Unbind, Propagate, FilterInv, TypeTopics, FiltersFollow, Registered
<1>4. ASSUME NEW t \in Topics, Subscribe(t) PROVE FilterInv'
  <2> USE DEF FilterInv
  <2>1. /\ registered' \in Seq(Topics) /\ Len(registered') = Len(registered) + 1
        /\ Len(registered) \in Nat /\ Len(registered') <= MaxSubs
        /\ handlers'[t] = Len(registered) + 1
        /\ \A u \in Topics \ {t} : handlers'[u] = handlers[u]
        /\ handlers' \in [Topics -> 0..Len(registered')]
    BY <1>4, Registering
  <2>2. /\ (filters' = filters \cup {t} /\ sock) \/ (filters' = filters /\ (~sock \/ termed))
        /\ known' = known /\ sock' = sock /\ termed' = termed
    BY <1>4 DEF Subscribe
  <2>3. Registered' = Registered \cup {t}
    BY <2>1 DEF Registered
  <2>4. FiltersFollow'
    BY <2>2, <2>3 DEF FiltersFollow
  <2>5. filters' \subseteq Topics /\ known' \subseteq filters' /\ (~sock' => filters' = {})
    BY <2>2 DEF TypeTopics
  <2> QED
    BY <2>1, <2>4, <2>5 DEF TypeTopics
<1>5. ASSUME NEW t \in Topics, NEW p \in Payloads, Publish(t, p) PROVE FilterInv'
  BY <1>1, <1>5 DEF Publish
<1>6. CASE Connect
  BY <1>6 DEF Connect, FilterInv, TypeTopics, FiltersFollow, Registered
<1>7. CASE StartBackground \/ DisconnectBegin \/ DisconnectJoin
  BY <1>1, <1>7 DEF StartBackground, DisconnectBegin, DisconnectJoin
<1>8. CASE DisconnectClose
  BY <1>8 DEF DisconnectClose, FilterInv, TypeTopics, FiltersFollow, Registered
<1>9. CASE WorkerTop \/ WorkerTakesMutex \/ WorkerGets \/ WorkerGetsNone
  BY <1>1, <1>9 DEF WorkerTop, WorkerTakesMutex, WorkerGets, WorkerGetsNone
<1>10. CASE WorkerDispatches \/ WorkerCalls
  BY <1>1, <1>10 DEF WorkerDispatches, WorkerCalls
<1> QED
  BY <1>1, <1>2, <1>3, <1>4, <1>5, <1>6, <1>7, <1>8, <1>9, <1>10, <1>11 DEF Next, WorkerStep

-----------------------------------------------------------------------------
(* Messages under way.                                                     *)

(* m is publication m.id of p; if it was due when it was published, h has  *)
(* a handler for it.                                                       *)
Known(m, p, h) ==
  /\ m \in Messages /\ m.id \in 1..Len(p) /\ Read(m.frames) = p[m.id]
  /\ m.due => h[p[m.id].topic] # 0 \/ h[Empty] # 0

(* Call c was rightly made: of publication c.id of p, to a handler that r  *)
(* lists under its topic or the empty one.                                 *)
Right(c, p, r) ==
  /\ c.id \in 1..Len(p) /\ c.msg = p[c.id]
  /\ c.by \in 1..Len(r) /\ r[c.by] \in {c.msg.topic, Empty}

Publication == [topic : Topics, payload : Payloads]

Coming ==
  /\ wire \in Seq(Messages) /\ Len(wire) <= Hwm
  /\ Ascending(wire) /\ \A i \in 1..Len(wire) : Known(wire[i], published, handlers)

(* The thread has a message exactly while it looks for its handler and     *)
(* calls it.                                                               *)
Taken ==
  /\ got # Nothing <=> worker \in {"dispatch", "call"}
  /\ got # Nothing => Known(got, published, handlers) /\ Above(got.id, wire)
  /\ handler \in 0..Len(registered)
  /\ worker = "call" => handler # 0 /\ registered[handler] \in {published[got.id].topic, Empty}
  /\ ignored \subseteq Messages /\ NotIgnored

Given ==
  /\ called \in Seq([id : 1..MaxPubs, by : 1..MaxSubs, msg : Publication])
  /\ Ascending(called)
  /\ \A i \in 1..Len(called) : /\ Right(called[i], published, registered)
                               /\ Above(called[i].id, wire)
                               /\ got # Nothing => called[i].id < got.id

Own == \A t \in Topics : handlers[t] # 0 => registered[handlers[t]] = t

FlowInv == published \in Seq(Publication) /\ Coming /\ Taken /\ Given /\ Own

Inv == ThreadInv /\ FilterInv /\ FlowInv

LEMMA FlowInit == Init => FlowInv
<1> SUFFICES ASSUME Init PROVE FlowInv
  OBVIOUS
<1>1. \A S : <<>> \in Seq(S)
  OBVIOUS
<1>2. Len(<<>>) = 0 /\ 1..0 = {}
  OBVIOUS
<1>3. Coming
  BY <1>1, <1>2 DEF Init, Coming, Ascending
<1>4. Taken
  BY <1>1, <1>2 DEF Init, Taken, NotIgnored
<1>5. Given
  BY <1>1, <1>2 DEF Init, Given, Ascending
<1> QED
  BY <1>1, <1>3, <1>4, <1>5 DEF Init, FlowInv, Own

(* What is read of a publication is what was published.                    *)
LEMMA ReadWire ==
  ASSUME NEW t \in Topics, NEW p \in Payloads
  PROVE  /\ Wire(t, p) \in Seq(Topics \cup Payloads)
         /\ Read(Wire(t, p)) = [topic |-> t, payload |-> p]
<1>1. CASE t = Empty
  <2>1. <<p>> \in Seq(Topics \cup Payloads) /\ Len(<<p>>) = 1 /\ <<p>>[1] = p
    OBVIOUS
  <2> QED
    BY <1>1, <2>1 DEF Wire, Read
<1>2. CASE t # Empty
  <2>1. <<t, p>> \in Seq(Topics \cup Payloads) /\ Len(<<t, p>>) = 2 /\ <<t, p>>[1] = t /\ <<t, p>>[2] = p
    OBVIOUS
  <2> QED
    BY <1>2, <2>1 DEF Wire, Read
<1> QED
  BY <1>1, <1>2

(* What is known of a message stays so.                                    *)
LEMMA KnownStays ==
  ASSUME NEW p \in Seq(Publication), NEW q \in Seq(Publication), NEW h, NEW k,
         Len(p) <= Len(q), \A i \in 1..Len(p) : q[i] = p[i],
         \A t \in Topics : h[t] # 0 => k[t] # 0,
         NEW m, Known(m, p, h)
  PROVE  Known(m, q, k)
<1>1. m.id \in 1..Len(p) /\ q[m.id] = p[m.id] /\ Len(p) \in Nat /\ Len(q) \in Nat
  BY LenProperties DEF Known
<1>3. p[m.id] \in Publication
  BY <1>1, ElementOfSeq
<1>4. p[m.id].topic \in Topics
  BY <1>3 DEF Publication
<1>2. m.id \in 1..Len(q)
  BY <1>1
<1> QED
  BY <1>1, <1>2, <1>4, TopicsAssumption DEF Known

-----------------------------------------------------------------------------
(* The steps.                                                              *)

msgVars == <<wire, published, got, handler, called, ignored, handlers, registered>>

LEMMA QuietFlow ==
  ASSUME FlowInv, UNCHANGED msgVars,
         worker' = worker \/ {worker, worker'} \cap {"dispatch", "call"} = {}
  PROVE  FlowInv'
<1>1. /\ wire' = wire /\ published' = published /\ got' = got /\ handler' = handler
      /\ called' = called /\ ignored' = ignored /\ handlers' = handlers /\ registered' = registered
  BY DEF msgVars
<1>2. Coming'
  BY <1>1 DEF FlowInv, Coming
<1>3. Taken'
  BY <1>1 DEF FlowInv, Taken, NotIgnored
<1>4. Given'
  BY <1>1 DEF FlowInv, Given
<1> QED
  BY <1>1, <1>2, <1>3, <1>4 DEF FlowInv, Own

(* Unbind and Disconnect leave a beginning of what was under way.          *)
LEMMA DropFlow ==
  ASSUME FlowInv, NEW n \in 0..Len(wire), wire' = SubSeq(wire, 1, n),
         UNCHANGED <<published, got, handler, called, ignored, handlers, registered, worker>>
  PROVE  FlowInv'
<1>1. /\ wire \in Seq(Messages) /\ Len(wire) \in Nat /\ n \in Nat /\ n <= Len(wire)
      /\ Len(wire) <= Hwm
  BY LenProperties DEF FlowInv, Coming
<1>2. \A i \in 1..n : i \in 1..Len(wire)
  BY <1>1
<1>3. /\ wire' \in Seq(Messages) /\ Len(wire') = n
      /\ \A i \in 1..n : wire'[i] = wire[i]
  BY <1>1, Cutting
<1>4. \A k : Above(k, wire) => Above(k, wire')
  BY <1>2, <1>3 DEF Above
<1>5. Coming'
  <2>1. Len(wire') <= Hwm
    BY <1>1, <1>3
  <2>2. Ascending(wire')
    BY <1>2, <1>3 DEF FlowInv, Coming, Ascending
  <2>3. \A i \in 1..Len(wire') : Known(wire'[i], published, handlers)
    BY <1>2, <1>3 DEF FlowInv, Coming
  <2> QED
    BY <1>3, <2>1, <2>2, <2>3 DEF Coming
<1>6. Taken'
  BY <1>4 DEF FlowInv, Taken, NotIgnored
<1>7. Given'
  BY <1>4 DEF FlowInv, Given
<1> QED
  BY <1>5, <1>6, <1>7 DEF FlowInv, Own

LEMMA SubscribeFlow ==
  ASSUME FilterInv, FlowInv, NEW t \in Topics, Subscribe(t)
  PROVE  FlowInv'
<1>1. /\ registered' \in Seq(Topics) /\ Len(registered') = Len(registered) + 1
      /\ registered \in Seq(Topics) /\ handlers \in [Topics -> 0..Len(registered)]
      /\ Len(registered) \in Nat
      /\ registered'[Len(registered) + 1] = t
      /\ \A i \in 1..Len(registered) : registered'[i] = registered[i]
      /\ handlers'[t] = Len(registered) + 1
      /\ \A u \in Topics \ {t} : handlers'[u] = handlers[u]
  BY Registering DEF FilterInv, TypeTopics
<1>2. /\ wire' = wire /\ published' = published /\ got' = got /\ handler' = handler
      /\ called' = called /\ ignored' = ignored /\ worker' = worker
  BY DEF Subscribe, pubVars, workVars
<1>3. published \in Seq(Publication) /\ \A u \in Topics : handlers[u] # 0 => handlers'[u] # 0
  BY <1>1 DEF FlowInv
<1>4. \A m : Known(m, published, handlers) => Known(m, published, handlers')
  BY <1>3, KnownStays
<1>5. ASSUME NEW c, Right(c, published, registered) PROVE Right(c, published, registered')
  <2>1. \A i \in 1..Len(registered) : i \in 1..Len(registered')
    BY <1>1
  <2>2. c.by \in 1..Len(registered)
    BY <1>5 DEF Right
  <2>3. c.by \in 1..Len(registered') /\ registered'[c.by] = registered[c.by]
    BY <1>1, <2>1, <2>2
  <2> QED
    BY <1>5, <2>3 DEF Right
<1>6. Coming'
  BY <1>2, <1>4 DEF FlowInv, Coming
<1>7. Taken'
  <2>1. handler' \in 0..Len(registered')
    BY <1>1, <1>2 DEF FlowInv, Taken
  <2>2. ASSUME worker = "call" PROVE registered'[handler] = registered[handler]
    <3>1. handler \in 1..Len(registered)
      BY <1>1, <2>2 DEF FlowInv, Taken
    <3> QED
      BY <1>1, <3>1
  <2> QED
    BY <1>2, <1>4, <2>1, <2>2 DEF FlowInv, Taken, NotIgnored
<1>8. Given'
  BY <1>2, <1>5 DEF FlowInv, Given
<1>9. Own'
  <2>1. ASSUME NEW u \in Topics, handlers'[u] # 0 PROVE registered'[handlers'[u]] = u
    <3>1. CASE u = t
      BY <1>1, <3>1
    <3>2. CASE u # t
      <4>1. handlers'[u] = handlers[u] /\ handlers[u] \in 1..Len(registered)
        BY <1>1, <2>1, <3>2
      <4>2. registered[handlers[u]] = u
        BY <2>1, <4>1 DEF FlowInv, Own
      <4> QED
        BY <1>1, <4>1, <4>2
    <3> QED
      BY <3>1, <3>2
  <2> QED
    BY <2>1 DEF Own
<1> QED
  BY <1>2, <1>3, <1>6, <1>7, <1>8, <1>9 DEF FlowInv

LEMMA PublishFlow ==
  ASSUME FlowInv, NEW t \in Topics, NEW p \in Payloads, Publish(t, p)
  PROVE  FlowInv'
<1> DEFINE n == Len(published) + 1
           m == [id |-> n, frames |-> Wire(t, p), due |-> handlers[t] # 0 \/ handlers[Empty] # 0]
<1>1. /\ published \in Seq(Publication) /\ Len(published) \in Nat /\ wire \in Seq(Messages) /\ Len(wire) \in Nat
  BY LenProperties DEF FlowInv, Coming
<1>2. /\ published' \in Seq(Publication) /\ Len(published') = n
      /\ published'[n] = [topic |-> t, payload |-> p]
      /\ \A i \in 1..Len(published) : published'[i] = published[i]
  <2>1. [topic |-> t, payload |-> p] \in Publication /\ published' = Append(published, [topic |-> t, payload |-> p])
    BY DEF Publish, Publication
  <2> QED
    BY <1>1, <2>1, AppendProperties
<1>3. /\ got' = got /\ handler' = handler /\ called' = called /\ ignored' = ignored /\ worker' = worker
      /\ handlers' = handlers /\ registered' = registered
  BY DEF Publish, subVars, workVars
<1>4. \A k : Known(k, published, handlers) => Known(k, published', handlers)
  <2>1. Len(published) <= Len(published')
    BY <1>1, <1>2
  <2> QED
    BY <1>1, <1>2, <2>1, KnownStays
<1>5. Known(m, published', handlers)
  <2>1. n \in 1..MaxPubs /\ n \in 1..n
    BY <1>1 DEF Publish
  <2>2. m \in Messages
    BY <2>1, ReadWire DEF Messages
  <2>3. Read(m.frames) = published'[m.id] /\ m.id = n
    BY <1>2, ReadWire
  <2>4. m.due => handlers[t] # 0 \/ handlers[Empty] # 0
    OBVIOUS
  <2>5. published'[m.id].topic = t
    BY <1>2, <2>3
  <2> QED
    BY <1>2, <2>1, <2>2, <2>3, <2>4, <2>5 DEF Known
<1>6. \A k \in Int : k \in 1..Len(published) => k < n
  BY <1>1
<1>7. m.id = n
  OBVIOUS
<1> HIDE DEF m
<1>8. got # Nothing => got.id < n
  BY <1>6 DEF FlowInv, Taken, Known
<1>9. \A i \in 1..Len(called) : called[i].id < n
  BY <1>6 DEF FlowInv, Given, Right
<1>10. \A c : Right(c, published, registered) => Right(c, published', registered)
  BY <1>1, <1>2 DEF Right
<1>11. CASE wire' = wire
  <2>1. Coming'
    BY <1>3, <1>4, <1>11 DEF FlowInv, Coming
  <2>2. Taken'
    <3>1. got # Nothing => published'[got.id] = published[got.id]
      BY <1>2 DEF FlowInv, Taken, Known
    <3>2. worker = "call" => got # Nothing
      BY DEF FlowInv, Taken
    <3> QED
      BY <1>3, <1>4, <1>11, <3>1, <3>2 DEF FlowInv, Taken, NotIgnored
  <2>3. Given'
    BY <1>3, <1>10, <1>11 DEF FlowInv, Given
  <2> QED
    BY <1>2, <1>3, <2>1, <2>2, <2>3 DEF FlowInv, Own
<1>12. CASE wire' = Append(wire, m) /\ Len(wire) < Hwm
  <2>1. m \in Messages
    BY <1>5 DEF Known
  <2>2. /\ wire' \in Seq(Messages) /\ Len(wire') = Len(wire) + 1 /\ wire'[Len(wire) + 1] = m
        /\ \A i \in 1..Len(wire) : wire'[i] = wire[i]
    BY <1>1, <1>12, <2>1, AppendProperties
  <2>3. \A k : Above(k, wire) /\ k < n => Above(k, wire')
    BY <1>1, <1>7, <2>2, MoreAbove
  <2>4. Coming'
    <3>1. \A i \in 1..Len(wire) : wire[i].id < m.id
      BY <1>6, <1>7 DEF FlowInv, Coming, Known
    <3>2. Ascending(wire')
      BY <1>1, <1>12, <2>1, <3>1, AscendingAppend DEF FlowInv, Coming
    <3>3. ASSUME NEW i \in 1..Len(wire') PROVE Known(wire'[i], published', handlers)
      <4>1. CASE i = Len(wire) + 1
        BY <1>5, <2>2, <4>1
      <4>2. CASE i # Len(wire) + 1
        <5>1. i \in 1..Len(wire)
          BY <1>1, <2>2, <4>2
        <5> QED
          BY <1>4, <2>2, <5>1 DEF FlowInv, Coming
      <4> QED
        BY <4>1, <4>2
    <3>4. Len(wire') <= Hwm
      BY <1>1, <1>12, <2>2
    <3> QED
      BY <1>3, <2>2, <3>2, <3>3, <3>4 DEF Coming
  <2>5. Taken'
    <3>1. got # Nothing => published'[got.id] = published[got.id]
      BY <1>2 DEF FlowInv, Taken, Known
    <3>2. worker = "call" => got # Nothing
      BY DEF FlowInv, Taken
    <3>3. got # Nothing => Above(got.id, wire')
      BY <1>8, <2>3 DEF FlowInv, Taken
    <3> QED
      BY <1>3, <1>4, <3>1, <3>2, <3>3 DEF FlowInv, Taken, NotIgnored
  <2>6. Given'
    <3>1. \A i \in 1..Len(called) : Above(called[i].id, wire')
      BY <1>9, <2>3 DEF FlowInv, Given
    <3> QED
      BY <1>3, <1>10, <3>1 DEF FlowInv, Given
  <2> QED
    BY <1>2, <1>3, <2>4, <2>5, <2>6 DEF FlowInv, Own
<1> QED
  BY <1>11, <1>12 DEF Publish, m

LEMMA GetsFlow ==
  ASSUME FlowInv, WorkerGets
  PROVE  FlowInv'
<1>1. /\ published' = published /\ handler' = handler /\ called' = called /\ ignored' = ignored
      /\ handlers' = handlers /\ registered' = registered
      /\ wire # <<>> /\ wire' = Tail(wire) /\ got' = Head(wire)
      /\ worker = "recv" /\ worker' = "dispatch" /\ got = Nothing
  BY DEF WorkerGets, subVars, FlowInv, Taken
<1>2. /\ wire \in Seq(Messages) /\ Len(wire) \in Nat /\ Len(wire) >= 1 /\ Len(wire) <= Hwm
      /\ Head(wire) = wire[1] /\ 1 \in 1..Len(wire)
      /\ wire' \in Seq(Messages) /\ Len(wire') = Len(wire) - 1
      /\ \A i \in 1..(Len(wire) - 1) : wire'[i] = wire[i + 1]
  BY <1>1, Heading DEF FlowInv, Coming
<1>3. \A i \in 1..Len(wire') : i + 1 \in 1..Len(wire) /\ wire'[i] = wire[i + 1] /\ 1 < i + 1
  BY <1>2
<1>4. Coming'
  <2>1. Len(wire') <= Hwm
    BY <1>2
  <2>2. ASSUME NEW i \in 1..Len(wire'), NEW j \in 1..Len(wire'), i < j
        PROVE  wire'[i].id < wire'[j].id
    <3>1. i + 1 \in 1..Len(wire) /\ j + 1 \in 1..Len(wire) /\ i + 1 < j + 1
      BY <1>2, <2>2
    <3> QED
      BY <1>3, <3>1 DEF FlowInv, Coming, Ascending
  <2>3. \A i \in 1..Len(wire') : Known(wire'[i], published, handlers)
    BY <1>3 DEF FlowInv, Coming
  <2> QED
    BY <1>1, <1>2, <2>1, <2>2, <2>3 DEF Coming, Ascending
<1>5. Taken'
  <2>1. Known(got', published, handlers)
    BY <1>1, <1>2 DEF FlowInv, Coming
  <2>2. Above(got'.id, wire')
    BY <1>1, <1>2, <1>3 DEF FlowInv, Coming, Ascending, Above
  <2>3. got' # Nothing
    BY <2>1 DEF Known, Messages, Nothing
  <2> QED
    BY <1>1, <2>1, <2>2, <2>3 DEF FlowInv, Taken, NotIgnored
<1>6. Given'
  <2>1. \A k : Above(k, wire) => Above(k, wire') /\ k < got'.id
    BY <1>1, <1>2, <1>3 DEF Above
  <2> QED
    BY <1>1, <2>1 DEF FlowInv, Given
<1> QED
  BY <1>1, <1>4, <1>5, <1>6 DEF FlowInv, Own

LEMMA DispatchesFlow ==
  ASSUME FilterInv, FlowInv, WorkerDispatches
  PROVE  FlowInv'
<1> DEFINE t == published[got.id].topic
<1>1. /\ published' = published /\ called' = called /\ wire' = wire
      /\ handlers' = handlers /\ registered' = registered
  BY DEF WorkerDispatches, subVars, pubVars
<1>2. /\ worker = "dispatch" /\ got # Nothing /\ Known(got, published, handlers)
      /\ handler' = Find(t)
  BY DEF WorkerDispatches, FlowInv, Taken, Known
<1>3. t \in Topics
  <2>1. published \in Seq(Publication) /\ got.id \in 1..Len(published)
    BY <1>2 DEF FlowInv, Known
  <2>2. published[got.id] \in Publication
    BY <2>1, ElementOfSeq
  <2> QED
    BY <2>2 DEF Publication
<1> HIDE DEF t
<1>4. Find(t) \in 0..Len(registered) /\ Find(t) \in {handlers[t], handlers[Empty]}
  BY <1>3 DEF Find, FilterInv, TypeTopics
<1>5. Find(t) # 0 => registered[Find(t)] \in {t, Empty}
  BY <1>3, <1>4 DEF FlowInv, Own
<1>6. Coming'
  BY <1>1 DEF FlowInv, Coming
<1>7. CASE handler' # 0 /\ worker' = "call" /\ UNCHANGED <<got, ignored>>
  <2>1. Taken'
    BY <1>1, <1>2, <1>4, <1>5, <1>7 DEF FlowInv, Taken, NotIgnored, t
  <2>2. Given'
    BY <1>1, <1>7 DEF FlowInv, Given
  <2> QED
    BY <1>1, <1>6, <2>1, <2>2 DEF FlowInv, Own
<1>8. CASE handler' = 0 /\ worker' = "top" /\ ignored' = ignored \cup {got} /\ got' = Nothing
  <2>1. handlers[t] = 0 /\ handlers[Empty] = 0
    BY <1>2, <1>8 DEF Find
  <2>2. ~got.due /\ got \in Messages
    BY <1>2, <2>1 DEF Known, t
  <2>3. ignored' \subseteq Messages /\ \A m \in ignored' : ~m.due
    BY <1>8, <2>2 DEF FlowInv, Taken, NotIgnored
  <2>4. Taken'
    BY <1>2, <1>4, <1>1, <1>8, <2>3 DEF Taken, NotIgnored
  <2>5. Given'
    BY <1>1, <1>8 DEF FlowInv, Given
  <2> QED
    BY <1>1, <1>6, <2>4, <2>5 DEF FlowInv, Own
<1> QED
  BY <1>7, <1>8 DEF WorkerDispatches

LEMMA CallsFlow ==
  ASSUME FilterInv, FlowInv, WorkerCalls
  PROVE  FlowInv'
<1> DEFINE C == [id : 1..MaxPubs, by : 1..MaxSubs, msg : Publication]
           c == [id |-> got.id, msg |-> Read(got.frames), by |-> handler]
<1>1. /\ published' = published /\ wire' = wire /\ ignored' = ignored
      /\ handlers' = handlers /\ registered' = registered
      /\ called' = Append(called, c)
      /\ worker = "call" /\ worker' = "top" /\ got' = Nothing /\ handler' = 0
  BY DEF WorkerCalls, subVars, pubVars
<1>2. got # Nothing /\ Known(got, published, handlers) /\ Above(got.id, wire)
  BY <1>1 DEF FlowInv, Taken
<1>3. /\ handler \in 1..Len(registered) /\ registered[handler] \in {published[got.id].topic, Empty}
      /\ Len(registered) \in Nat /\ Len(registered) <= MaxSubs
  BY <1>1, LenProperties DEF FlowInv, Taken, FilterInv, TypeTopics
<1>4. /\ c.id = got.id /\ c.msg = published[got.id] /\ c.by = handler
  BY <1>2 DEF Known
<1>5. c \in C
  <2>1. got.id \in 1..MaxPubs
    BY <1>2 DEF Known, Messages
  <2>2. published[got.id] \in Publication
    BY <1>2, ElementOfSeq DEF FlowInv, Known
  <2>3. handler \in 1..MaxSubs
    BY <1>3
  <2>4. Read(got.frames) \in Publication
    BY <1>2, <2>2 DEF Known
  <2> QED
    BY <2>1, <2>3, <2>4
<1>6. Right(c, published, registered)
  BY <1>2, <1>3, <1>4 DEF Right, Known
<1>7. called \in Seq(C) /\ \A i \in 1..Len(called) : called[i].id < c.id
  BY <1>2, <1>4 DEF FlowInv, Given
<1> HIDE DEF c
<1>8. /\ called' \in Seq(C) /\ Len(called') = Len(called) + 1 /\ called'[Len(called) + 1] = c
      /\ \A i \in 1..Len(called) : called'[i] = called[i]
      /\ Len(called) \in Nat
  BY <1>1, <1>5, <1>7, AppendProperties, LenProperties
<1>9. Ascending(called')
  BY <1>1, <1>5, <1>7, AscendingAppend DEF FlowInv, Given
<1>10. ASSUME NEW i \in 1..Len(called')
       PROVE  Right(called'[i], published, registered) /\ Above(called'[i].id, wire)
  <2>1. CASE i = Len(called) + 1
    BY <1>2, <1>4, <1>6, <1>8, <2>1
  <2>2. CASE i # Len(called) + 1
    <3>1. i \in 1..Len(called)
      BY <1>8, <2>2
    <3> QED
      BY <1>8, <3>1 DEF FlowInv, Given
  <2> QED
    BY <2>1, <2>2
<1>11. Given'
  BY <1>1, <1>8, <1>9, <1>10 DEF Given
<1>12. Coming'
  BY <1>1 DEF FlowInv, Coming
<1>13. Taken'
  <2>1. handler' \in 0..Len(registered')
    BY <1>1, <1>3
  <2> QED
    BY <1>1, <2>1 DEF FlowInv, Taken, NotIgnored
<1> QED
  BY <1>1, <1>11, <1>12, <1>13 DEF FlowInv, Own

LEMMA FlowNext ==
  ASSUME ThreadInv, FilterInv, FlowInv, [Next]_vars
  PROVE  FlowInv'
<1> USE DEF msgVars, pubVars, subVars, ownVars, workVars
<1>1. CASE UNCHANGED vars \/ Bind \/ Propagate \/ Terminate
  BY <1>1, QuietFlow DEF vars, Bind, Propagate, Terminate
<1>2. CASE Connect \/ DisconnectBegin
  BY <1>2, QuietFlow DEF Connect, DisconnectBegin
<1>3. CASE Unbind
  BY <1>3, DropFlow DEF Unbind
<1>4. CASE StartBackground
  BY <1>4, QuietFlow DEF StartBackground, ThreadInv, WorkerOutlived
<1>5. CASE DisconnectJoin
  BY <1>5, QuietFlow DEF DisconnectJoin, ThreadInv, WorkerOutlived
<1>6. CASE DisconnectClose
  <2>1. 0 \in 0..Len(wire) /\ SubSeq(wire, 1, 0) = <<>>
    BY SubSeqEmpty, LenProperties DEF FlowInv, Coming
  <2> QED
    BY <1>6, <2>1, DropFlow DEF DisconnectClose
<1>7. CASE WorkerTop
  BY <1>7, QuietFlow DEF WorkerTop
<1>8. CASE WorkerTakesMutex
  BY <1>8, QuietFlow DEF WorkerTakesMutex
<1>9. CASE WorkerGetsNone
  BY <1>9, QuietFlow DEF WorkerGetsNone
<1> QED
  BY <1>1, <1>2, <1>3, <1>4, <1>5, <1>6, <1>7, <1>8, <1>9, SubscribeFlow, PublishFlow, GetsFlow,
     DispatchesFlow, CallsFlow DEF Next, WorkerStep

-----------------------------------------------------------------------------
LEMMA InvAlways == Spec => []Inv
<1>1. Init => Inv
  BY ThreadInit, FlowInit DEF Inv
<1>2. Inv /\ [Next]_vars => Inv'
  BY ThreadNext, FilterNext, FlowNext DEF Inv
<1> QED
  BY <1>1, <1>2, PTL DEF Spec

(* Every variable keeps its type (zmq_subscriber.h:47-55).                 *)
THEOREM Typing == Spec => []TypeOK
<1>1. Inv => TypeOK
  <2> SUFFICES ASSUME Inv PROVE TypeMessages
    BY DEF Inv, ThreadInv, FilterInv, TypeOK
  <2>1. got \in Messages \cup {Nothing}
    BY DEF Inv, FlowInv, Taken, Known
  <2> QED
    BY <2>1 DEF Inv, FlowInv, Coming, Taken, Given, TypeMessages, Publication
<1> QED
  BY <1>1, InvAlways, PTL

(* The background thread runs only while the socket is there, and          *)
(* Disconnect joins it before the reset (zmq_subscriber.cpp:52-62).        *)
(* Whatever the order of Subscribe, Connect and Disconnect, the filters of *)
(* the socket are topics that have a handler, and until the context ends   *)
(* and makes Subscribe throw they are all of them                          *)
(* (zmq_subscriber.cpp:23-74).                                             *)
THEOREM SocketSafe == Spec => []SocketKept
  BY InvAlways, PTL DEF Inv, ThreadInv, FilterInv, SocketKept

(* Messages are given to handlers in the order of publication, to none     *)
(* twice, as they were published, to handlers of their topic or of the     *)
(* empty one, and none that was due is passed over                         *)
(* (zmq_subscriber.cpp:108-136).                                           *)
THEOREM DispatchedRightly == Spec => []Dispatched
<1>1. FlowInv => Dispatched
  BY DEF FlowInv, Taken, Given, Ascending, Right, Dispatched, CalledInOrder, CallsMatch
<1>2. Inv => Dispatched
  BY <1>1 DEF Inv
<1> QED
  BY <1>2, InvAlways, PTL

-----------------------------------------------------------------------------
(* The service of module TopicFeed.                                        *)

LEMMA MessagesNumbered == Numbered(Messages)
  BY DEF Numbered, Messages

(* The publication in the hands of the thread that has no handler yet.     *)
Hand == IF worker = "dispatch" THEN <<got.id>> ELSE <<>>

LEMMA PendingIs == Pending = Joined(Hand, Ids(wire))
  BY DEF Pending, Joined, Hand, Ids

LEMMA PendingNext == Pending' = Joined(Hand', Ids(wire'))
  BY DEF Pending, Joined, Hand, Ids

LEMMA HandType ==
  ASSUME Taken
  PROVE  Hand \in Seq(Nat)
<1>1. CASE worker = "dispatch"
  <2>1. got.id \in Nat
    BY <1>1 DEF Taken, Known, Messages
  <2> QED
    BY <1>1, <2>1 DEF Hand
<1>2. CASE worker # "dispatch"
  BY <1>2 DEF Hand
<1> QED
  BY <1>1, <1>2

LEMMA ServiceInit == Init => Service!Init
<1> SUFFICES ASSUME Init PROVE Service!Init
  OBVIOUS
<1>1. Pending = <<>>
  <2>1. Hand = <<>> /\ wire = <<>>
    BY DEF Init, Hand
  <2>3. wire \in Seq(Messages) /\ Len(wire) = 0
    BY <2>1
  <2>4. Ids(wire) \in Seq(Nat) /\ Len(Ids(wire)) = 0
    BY <2>3, MessagesNumbered, IdsType
  <2>2. Ids(wire) = <<>>
    BY <2>4, EmptySeq
  <2>5. <<>> \in Seq(Nat)
    OBVIOUS
  <2> QED
    BY <2>1, <2>2, <2>5, PendingIs, JoinedNone
<1>2. Chosen = Service!Unchosen /\ Len(registered) = 0
  BY DEF Init, Chosen, Service!Unchosen
<1> QED
  BY <1>1, <1>2 DEF Init, Service!Init

(* A step that touches nothing of the service.                             *)
LEMMA StutterStep ==
  ASSUME UNCHANGED <<wire, published, got, handler, called, handlers, registered>>,
         worker' = worker \/ {worker, worker'} \cap {"dispatch", "call"} = {}
  PROVE  UNCHANGED Service!vars
<1>1. Pending' = Pending
  BY DEF Pending
<1>2. Chosen' = Chosen
  BY DEF Chosen
<1> QED
  BY <1>1, <1>2 DEF Service!vars

LEMMA LoseStep ==
  ASSUME FlowInv, NEW n \in 0..Len(wire), wire' = SubSeq(wire, 1, n),
         UNCHANGED <<published, got, handler, called, handlers, registered, worker>>
  PROVE  Service!Lose
<1>1. wire \in Seq(Messages) /\ Hand \in Seq(Nat)
  BY HandType DEF FlowInv, Coming
<1>2. /\ Len(Hand) + n \in 0..Len(Joined(Hand, Ids(wire)))
      /\ Joined(Hand, Ids(SubSeq(wire, 1, n))) = SubSeq(Joined(Hand, Ids(wire)), 1, Len(Hand) + n)
  BY <1>1, MessagesNumbered, IdsCut
<1>3. Hand' = Hand
  BY DEF Hand
<1>4. Pending' = Joined(Hand, Ids(SubSeq(wire, 1, n)))
  BY <1>3, PendingNext
<1>5. \E k \in 0..Len(Pending) : Pending' = SubSeq(Pending, 1, k)
  BY <1>2, <1>4, PendingIs
<1>6. Chosen' = Chosen
  BY DEF Chosen
<1> QED
  BY <1>5, <1>6 DEF Service!Lose

LEMMA SubscribeStep ==
  ASSUME FilterInv, NEW t \in Topics, Subscribe(t)
  PROVE  Service!Subscribe(t)
<1>1. Len(registered') = Len(registered) + 1
  BY Registering DEF FilterInv
<1>2. handlers' = [handlers EXCEPT ![t] = Len(registered) + 1]
  BY DEF Subscribe
<1>3. /\ wire' = wire /\ published' = published /\ got' = got /\ handler' = handler
      /\ called' = called /\ worker' = worker
  BY DEF Subscribe, pubVars, workVars
<1>4. Pending' = Pending /\ Chosen' = Chosen
  BY <1>3 DEF Pending, Chosen
<1> QED
  BY <1>1, <1>2, <1>3, <1>4 DEF Service!Subscribe

LEMMA PublishStep ==
  ASSUME FilterInv, FlowInv, NEW t \in Topics, NEW p \in Payloads, Publish(t, p)
  PROVE  Service!Publish(t, p)
<1> DEFINE first == IF t = <<>> THEN p ELSE t
           m == [id |-> Len(published) + 1, frames |-> Wire(t, p),
                 due |-> handlers[t] # 0 \/ handlers[Empty] # 0]
<1>1. Wire(t, p)[1] = first
  BY DEF Wire, Empty
<1>2. /\ published' = Append(published, [topic |-> t, payload |-> p])
      /\ got' = got /\ handler' = handler /\ called' = called /\ worker' = worker
      /\ handlers' = handlers /\ registered' = registered
  BY DEF Publish, subVars, workVars
<1>3. Chosen' = Chosen
  BY <1>2 DEF Chosen
<1>4. Pending' = Pending \/ (Service!Heard(t, p) /\ Pending' = Append(Pending, Len(published) + 1))
  <2>1. CASE wire' = wire
    BY <1>2, <2>1 DEF Pending
  <2>2. CASE wire' = Append(wire, m) /\ \E f \in known : IsPrefix(f, Wire(t, p)[1])
    <3>1. Service!Heard(t, p)
      <4>1. PICK f \in known : IsPrefix(f, first)
        BY <1>1, <2>2
      <4>2. f \in Topics /\ handlers[f] # 0
        BY DEF FilterInv, TypeTopics, FiltersFollow, Registered
      <4>3. Service!IsPrefix(f, first) <=> IsPrefix(f, first)
        BY DEF Service!IsPrefix, IsPrefix
      <4> QED
        BY <4>1, <4>2, <4>3 DEF Service!Heard
    <3>2. m \in Messages
      <4>1. Len(published) \in Nat /\ Len(published) < MaxPubs
        BY LenProperties DEF FlowInv, Publish
      <4>2. Len(published) + 1 \in 1..MaxPubs
        BY <4>1
      <4>3. Wire(t, p) \in Seq(Topics \cup Payloads)
        BY ReadWire
      <4> QED
        BY <4>2, <4>3 DEF Messages
    <3>3. m.id = Len(published) + 1
      OBVIOUS
    <3> HIDE DEF m
    <3>4. wire \in Seq(Messages) /\ Hand \in Seq(Nat)
      BY HandType DEF FlowInv, Coming
    <3>5. Joined(Hand, Ids(Append(wire, m))) = Append(Joined(Hand, Ids(wire)), m.id)
      BY <3>2, <3>4, MessagesNumbered, IdsAppend
    <3>6. Hand' = Hand
      BY <1>2 DEF Hand
    <3>7. Pending' = Joined(Hand, Ids(Append(wire, m)))
      BY <2>2, <3>6, PendingNext DEF m
    <3>8. Pending' = Append(Pending, Len(published) + 1)
      BY <3>3, <3>5, <3>7, PendingIs
    <3> QED
      BY <3>1, <3>8
  <2> QED
    BY <2>1, <2>2 DEF Publish
<1> QED
  BY <1>2, <1>3, <1>4 DEF Service!Publish

(* The message changes hands.                                              *)
LEMMA GetsStep ==
  ASSUME FlowInv, WorkerGets
  PROVE  UNCHANGED Service!vars
<1>1. /\ published' = published /\ handler' = handler /\ called' = called
      /\ handlers' = handlers /\ registered' = registered
      /\ wire # <<>> /\ wire' = Tail(wire) /\ got' = Head(wire)
      /\ worker = "recv" /\ worker' = "dispatch"
  BY DEF WorkerGets, subVars
<1>2. wire \in Seq(Messages)
  BY DEF FlowInv, Coming
<1>3. Ids(wire) \in Seq(Nat)
  BY <1>2, MessagesNumbered, IdsType
<1>4. Pending = Ids(wire)
  BY <1>1, <1>3, PendingIs, JoinedNone DEF Hand
<1>5. Pending' = Joined(<<Head(wire).id>>, Ids(Tail(wire)))
  BY <1>1 DEF Pending, Joined, Ids
<1>6. Pending' = Pending
  BY <1>1, <1>2, <1>4, <1>5, MessagesNumbered, IdsHead
<1>7. Chosen' = Chosen
  BY <1>1 DEF Chosen
<1> QED
  BY <1>1, <1>6, <1>7 DEF Service!vars

LEMMA DispatchesStep ==
  ASSUME FilterInv, FlowInv, WorkerDispatches
  PROVE  Service!Take
<1> DEFINE t == published[got.id].topic
<1>1. /\ published' = published /\ called' = called /\ wire' = wire
      /\ handlers' = handlers /\ registered' = registered
  BY DEF WorkerDispatches, subVars, pubVars
<1>2. /\ worker = "dispatch" /\ got # Nothing /\ Known(got, published, handlers)
      /\ handler' = Find(t)
  BY DEF WorkerDispatches, FlowInv, Taken, Known
<1>3. Ids(wire) \in Seq(Nat) /\ got.id \in Nat
  <2>1. got.id \in Nat
    BY <1>2 DEF Known, Messages
  <2>2. wire \in Seq(Messages)
    BY DEF FlowInv, Coming
  <2> QED
    BY <2>1, <2>2, MessagesNumbered, IdsType
<1>4. Pending = Joined(<<got.id>>, Ids(wire))
  BY <1>2, PendingIs DEF Hand
<1>5. Pending # <<>> /\ Head(Pending) = got.id /\ Tail(Pending) = Ids(wire)
  BY <1>3, <1>4, JoinedOne
<1>6. Chosen = Service!Unchosen
  BY <1>2 DEF Chosen, Service!Unchosen
<1>7. Service!Registration(t) = Find(t)
  BY DEF Service!Registration, Find, Empty
<1>8. worker' # "dispatch" /\ Pending' = Ids(wire)
  <2>1. worker' # "dispatch"
    BY DEF WorkerDispatches
  <2>2. Pending' = Joined(<<>>, Ids(wire))
    BY <1>1, <2>1 DEF Pending, Joined, Ids
  <2> QED
    BY <1>3, <2>1, <2>2, JoinedNone
<1>9. Chosen' = IF Find(t) = 0 THEN Service!Unchosen ELSE [id |-> got.id, by |-> Find(t)]
  BY <1>2 DEF WorkerDispatches, Chosen, Service!Unchosen
<1> HIDE DEF t
<1>10. Chosen' = LET id == Head(Pending)
                     by == Service!Registration(published[id].topic)
                 IN  IF by = 0 THEN Service!Unchosen ELSE [id |-> id, by |-> by]
  BY <1>5, <1>7, <1>9 DEF t
<1> QED
  BY <1>1, <1>5, <1>6, <1>8, <1>10 DEF Service!Take

LEMMA CallsStep ==
  ASSUME FilterInv, FlowInv, WorkerCalls
  PROVE  Service!Call
<1>1. /\ published' = published /\ wire' = wire
      /\ handlers' = handlers /\ registered' = registered
      /\ called' = Append(called, [id |-> got.id, msg |-> Read(got.frames), by |-> handler])
      /\ worker = "call" /\ worker' = "top"
  BY DEF WorkerCalls, subVars, pubVars
<1>2. got # Nothing /\ Known(got, published, handlers) /\ handler # 0
  BY <1>1 DEF FlowInv, Taken
<1>3. Read(got.frames) = published[got.id]
  BY <1>2 DEF Known
<1>4. Chosen = [id |-> got.id, by |-> handler] /\ Chosen' = Service!Unchosen
  BY <1>1 DEF Chosen, Service!Unchosen
<1>5. Chosen # Service!Unchosen
  BY <1>2, <1>4 DEF Service!Unchosen
<1>6. Pending' = Pending
  BY <1>1 DEF Pending
<1>7. called' = Append(called, [id |-> Chosen.id, msg |-> published[Chosen.id], by |-> Chosen.by])
  BY <1>1, <1>3, <1>4
<1> QED
  BY <1>1, <1>4, <1>5, <1>6, <1>7 DEF Service!Call

LEMMA ServiceNext ==
  ASSUME Inv, [Next]_vars
  PROVE  [Service!Next]_(Service!vars)
<1> USE DEF Inv, pubVars, subVars, ownVars, workVars
<1>1. CASE UNCHANGED vars \/ Bind \/ Propagate \/ Terminate
  BY <1>1, StutterStep DEF vars, Bind, Propagate, Terminate
<1>2. CASE Connect \/ DisconnectBegin
  BY <1>2, StutterStep DEF Connect, DisconnectBegin
<1>3. CASE Unbind
  BY <1>3, LoseStep DEF Unbind, Service!Next
<1>4. CASE StartBackground
  BY <1>4, StutterStep DEF StartBackground, ThreadInv, WorkerOutlived
<1>5. CASE DisconnectJoin
  BY <1>5, StutterStep DEF DisconnectJoin, ThreadInv, WorkerOutlived
<1>6. CASE DisconnectClose
  <2>1. 0 \in 0..Len(wire) /\ SubSeq(wire, 1, 0) = <<>>
    BY SubSeqEmpty, LenProperties DEF FlowInv, Coming
  <2> QED
    BY <1>6, <2>1, LoseStep DEF DisconnectClose, Service!Next
<1>7. CASE WorkerTop
  BY <1>7, StutterStep DEF WorkerTop
<1>8. CASE WorkerTakesMutex
  BY <1>8, StutterStep DEF WorkerTakesMutex
<1>9. CASE WorkerGetsNone
  BY <1>9, StutterStep DEF WorkerGetsNone
<1>10. ASSUME NEW t \in Topics, Subscribe(t) PROVE Service!Next
  BY <1>10, SubscribeStep DEF Service!Next
<1>11. ASSUME NEW t \in Topics, NEW p \in Payloads, Publish(t, p) PROVE Service!Next
  BY <1>11, PublishStep DEF Service!Next
<1>12. CASE WorkerGets
  BY <1>12, GetsStep
<1>13. CASE WorkerDispatches
  BY <1>13, DispatchesStep DEF Service!Next
<1>14. CASE WorkerCalls
  BY <1>14, CallsStep DEF Service!Next
<1> QED
  BY <1>1, <1>2, <1>3, <1>4, <1>5, <1>6, <1>7, <1>8, <1>9, <1>10, <1>11, <1>12, <1>13, <1>14
     DEF Next, WorkerStep

(* Publisher, filters, subscriber and their thread implement the service   *)
(* of module TopicFeed: a publication is given to the registration its     *)
(* topic has at one instant, in the order of publication, whatever         *)
(* Subscribe does in the meantime, and none is sent that nobody asked for  *)
(* (zmq_subscriber.cpp:23-136, zmq_publisher.cpp).                         *)
THEOREM Implementation == Spec => ImplementsTopicFeed
<1>1. Init => Service!Init
  BY ServiceInit
<1>2. Inv /\ [Next]_vars => [Service!Next]_(Service!vars)
  BY ServiceNext
<1> QED
  BY <1>1, <1>2, InvAlways, PTL DEF Spec, ImplementsTopicFeed, Service!Spec
=============================================================================
