# A verification project for eazy_zmq

TLA+ specifications of the ZeroMQ wrapper (`zmq_wrapper/`), of the gateway
built on it (`zmq_gateway/`), of the tester that talks to the gateway
(`zmq_ipc_tester/`) and of the older wrapper (`zmq/`), TLC runs that check them
on small instances, and theorems checked by TLAPS for all values of the
constants.

    tlc -config Gateway_names.cfg MCGateway     model-check one run
    tlapm GatewayProofs.tla                     check the proofs of one module

`PROJECT.json` lists the components, the runs, for every checked property a
mutant of the code that breaks it, the source lines every definition stands
for, the findings, the hazards and the theorems.

## 1. The system

### Inventory

| Component | State | Operations | Interacts with |
|---|---|---|---|
| `Gateway` (`zmq_gateway/gateway.*`) | `m_running`; `m_rep`, `m_router`, `m_pub`; `m_clients` (name → identity) under `m_clients_mutex`; `m_stats` under `m_stats_mutex` | `Start`, `Stop`, `GetClientCount`, `GetStats`; handlers `HandleRepRequest` (register, unregister, list, stats), `HandleRouterMessage`; `Broadcast` | owns one replier, one router, one publisher; its handlers run on their threads |
| `ReplierSocket` (`zmq_rep_server.*`) | `m_sock` (shared_ptr), `m_handler`, `m_running`, `m_thread`, `m_mutex`; the REP socket's own turn | `Bind`, `SetHandler`, `PollOnce`, `StartBackground`, `Stop` | calls its handler with no lock held |
| `RequesterSocket` (`zmq_req_client.*`) | `m_sock`, `m_mutex`; the REQ socket's own turn | `Connect`, `Request`, `Disconnect` | a replier, over ZeroMQ |
| `RouterSocket` (`zmq_router.*`) | `m_sock`, `m_running`, `m_thread`, `m_mutex` | `Bind`, `Unbind`, `Recv`, `RecvAll`, `SendTo`, `StartBackground`, `Stop` | DEALER peers; calls its handler with no lock held |
| `DealerSocket` (`zmq_dealer.*`) | `m_sock`, the socket's receive time-out, `m_running`, `m_thread`, `m_mutex` | `Connect`, `Send`, `Recv`, `StartBackground`, `Disconnect`/`Stop` | a router; its handler may call `Send` |
| `PublisherSocket`, `SubscriberSocket` | `m_sock`, `m_mutex`; the subscriber's `m_handlers`, `m_running`, `m_thread` | `Bind`, `Publish`; `Connect`, `Subscribe`, `StartBackground`, `Disconnect` | each other, over ZeroMQ |
| `ZmqGlobalCtx` | one context per process | `get` | its termination makes every socket call fail with ETERM |
| JSON extraction (`gateway.cpp:15-60`) | none | `ExtractJsonString`, `BuildJsonResponse` | the gateway's handlers |
| gateway process (`main.cpp`, `config.*`) | `g_running`, configuration | load, `Start`, wait for a signal, `Stop` | the gateway |
| legacy wrapper (`zmq/`) | as the new one without a router and a dealer; the `m_running` of the server is set by `Start` | `Start`, `SetHandler`, `PollOnce`, `StartBackground`, `Stop`; `Connect`, `Call`, `Disconnect`; `Publish`; `Subscribe`, `StartBackground` | codecs, which may refuse a message; each other, over ZeroMQ |
| tester (`zmq_ipc_tester/`) | one socket and one context per run; in stress mode `sent`, `recv_ok` and the message being received | `SendAndReceiveJson`, `RunSubscriber`, `RunGateway`, `RunStress` | libzmq directly; the gateway, or a server and a publisher of the older wrapper |

### What is hard about it

* **Threads.** A gateway has three: the one that calls `Start` and `Stop`, the
  replier's and the router's. They meet in the name table, in the statistics
  and in the three socket objects, which no lock protects: only the order of
  the steps of `Start` and `Stop` keeps the threads off destroyed objects.
* **Locks let go of too early.** `HandleRouterMessage` looks a target up under
  the table's lock and sends after releasing it; `RecvLoop` fetches a raw
  socket pointer under the mutex and receives without it; `PollOnce` does the
  same with a shared pointer.
* **ZeroMQ's own state.** A REQ socket whose request timed out may not send;
  a REP socket that received must reply; `ZMQ_RCVTIMEO` set for one call stays;
  a ROUTER drops what it cannot deliver; EAGAIN is a result, not an exception.
* **Texts.** The gateway reads JSON by looking for a quoted key, writes it
  without escapes, and takes one frame of a message for all of it; its tester
  uses a JSON library and messages of three frames.
* **The network.** Clients time out and ask again while their first request is
  still on its way; peers leave and reconnect under the same identity.

### What makes each component correct

* Gateway: the name table behaves as if every request were applied at one
  instant; announcements agree with the table; every message is counted once,
  delivered in order and at most once; every request is answered; `Stop`
  returns and no thread outlives what it uses.
* DealerSocket: no dangling pointer, no message lost or duplicated between
  socket and handler, none left waiting; `Disconnect` returns.
* Replier and requester: a socket lives exactly as long as somebody uses it;
  the replier can always receive the next request; `Request` returns the reply
  to its own request; `Stop` returns.
* Router: as the dealer; a message of several frames is handed over whole,
  in order and once, and an exception never leaves the thread.
* Publisher and subscriber: every subscription reaches the socket; a message
  goes to the handler the subscriptions promise, in order and once.
* Texts: replies, announcements and listings are what a JSON library would
  have written, and a client's message goes where a JSON library would have
  sent it.
* Tester: it counts what it received, and ends by its own count, unless it
  comes to wait for ever for the gateway.
* Older wrapper: as the new one, as long as no codec refuses a message.

## 2. The modules

| Module | What it is |
|---|---|
| `Switchboard` | abstract: an atomic name table and message switch |
| `TopicFeed` | abstract: publications given to registrations, one at a time; what a publisher and a subscriber of either wrapper promise |
| `Gateway` | `Gateway::Start`, `Stop`, both handlers, with the loops of the replier and the router that call them, and an environment of REQ clients and DEALER peers |
| `DealerSocket` | `zmq_wrap::DealerSocket`: callers, owner, background thread |
| `ReqRep` | `zmq_wrap::ReplierSocket` serving `zmq_wrap::RequesterSocket`s |
| `RouterSocket` | `zmq_wrap::RouterSocket` frame by frame: `Recv`, `RecvAll` and the background thread |
| `PubSub` | `zmq_wrap::PublisherSocket` and `zmq_wrap::SubscriberSocket` |
| `JsonText` | the texts: `ExtractJsonString`, `BuildJsonResponse`, and how a JSON library writes a request |
| `Tester` | composes the gateway's handlers on texts, a JSON client and `RunStress`; extends `JsonText` |
| `LegacyReqRep`, `LegacyPubSub` | the two pairs of `zmq/`, with `SendAndReceiveJson` and `RunSubscriber` |
| `Legacy` | composes the two |
| `MCGateway`, `MCDealerSocket`, `MCReqRep`, `MCRouterSocket`, `MCPubSub`, `MCTester`, `MCLegacy` | the constants of the TLC runs |
| `GatewayProofs`, `DealerProofs`, `ReqRepProofs`, `RouterProofs`, `PubSubProofs`, `TesterProofs`, `LegacyProofs` | the theorems |
| `MessageLemmas` | lemmas about queues of numbered messages, for the last and for `PubSubProofs` |

A definition whose name contains an underscore, as in
`StopJoinRouter_NoJoin`, is a mutant: the definition after it with a plausible
bug. No specification uses it; it shows that a property can be violated.

### Gateway and Switchboard

One variable group per thread. `ctl` is where the control thread is: between
calls (`idle`), after the binds, after each `StartBackground`, or waiting in
one of the two joins of `Stop`. `repPc` follows `BackgroundLoop`, `PollOnce`
and `HandleRepRequest`; `rtPc` follows `RecvLoop` and `HandleRouterMessage`.
An action ends where the code takes or releases a lock or touches a socket:
the table is changed in one step with the `registrations` counter, because
both locks are held (`gateway.cpp:307-320`); `Publish` and the `broadcasts`
counter are two more; looking a target up, sending and counting are three.

A request is a command with a name and an identity, each possibly `Empty`:
what `ExtractJsonString` returns for a field that is absent. A message is its
target together with who posted it, on which connection, and as which.
`StartBind` covers a `Start` all of whose binds succeed and, through
`BindFails`, the three that do not, each with the clean-up of its branch and
the requests and messages that are lost with a socket that was bound already.
The branches for a `StartBackground` that fails (`gateway.cpp:118-136`) are
left out: it fails only on an object without a socket or with a thread, and
`Start` has just made and bound these. `main` handles SIGINT and SIGTERM
(`main.cpp:58-59`) and then calls `Stop`, but a signal that `zmq::poll` of the
ROUTER thread meets makes it throw, and the process ends: `RouterInterrupted`,
after which `ctl` is `ended` and nothing of the gateway runs any more.
The environment is what the other ends do through `RequesterSocket::Request`
(`Ask`, `GiveUp`) and `DealerSocket` (`Join`, `Post`, `Leave`). A connection's
messages arrive in order; two connections of one peer are separate pipes.

`Switchboard` has no threads and no locks: `Apply` changes the table and fixes
the answer at once, `Resolve` binds a message to what its target means at that
instant, `Deliver` hands it over or drops it. The mapping in `Gateway` (`SB`)
reads the abstract queues off the program counters (`Waiting`, `Applied`,
`Posted`, `Routed`): a request is `waiting` until `RepHandle`, `applied` until
`RepReply`; a message is `posted` until `RouterResolve`, `routed` until
`RouterSend`. When the process ends, the switch drops what it had not finished
(`Halt`).

### DealerSocket

`pc` is where each thread is. `Send` and `Recv` take the mutex in one step
and leave it in another, since they block in ZeroMQ in between. The
background thread (`Worker`) goes through `top` (`m_running`), `grab` (the
pointer, under the mutex), `enter` and `polling` (`recv`, without it), `count`
or `missed` (the statistics, under it), `deliver` (the handler is called, the
mutex released), `handle`. A signal may interrupt a `Send` or a `Recv` that
waits (`CallInterrupted`), or the loop's `recv`. `rcvtimeo` is what the
socket remembers; `waits` is what the `recv` under way read on entry. The
handler may call `Send`; `Recv`, `Disconnect` and `Stop` from the handler,
which the header forbids or nobody does, are left out. `Connect`,
`StartBackground` and `Disconnect` belong to one owner (`DESIGN.md:84`).
A message received is not told from another: counts are enough for
conservation.

### ReqRep

`m_sock` is the generation of a socket, 0 for none; `pollSock[p]` is the copy
a `PollOnce` holds, and `open` the sockets not destroyed yet. `owes` is the
REP state machine, `sock` the REQ one (`ready` or `awaiting`). The payload of
a request is its ticket; a reply names the request it answers. The program is
taken to poll a replier from one thread at a time, the background thread or a
caller (`DESIGN.md:64`), and the handler to return. While a requester's
`Request` call is under way its mutex keeps its other calls out.

### RouterSocket

A frame is its message, its place in it (0 is the identity) and the `more`
flag; `stream` is everything that arrived on the present binding, `inbox` what
is left of it, `held[t]` what thread `t` has read of a message, `handed` what
a handler or a caller got. The messages of a binding are numbered as they
arrive, so that "the i-th message handed over is message i, whole"
(`MessagesWhole`) says that none is torn, repeated or reordered, and "the
frames that arrived are those handed over, held and waiting"
(`StreamConserved`) that none is lost. `Recv` and `RecvAll` hold the mutex from their
first action to their last. The background thread goes through `top`, `grab`
(the pointer, under the mutex), `poll`, `identity`, `frame` (both without it),
`count` (under it), `handle` and, when the handler calls `SendTo`, `reply`.
`zmq::poll` may throw, which nobody catches: `thrown` ends the process, and
`Next` allows no step after it. The recvs after the first ignore their result,
so that one that times out adds an empty frame (`Nothing`).

The program can make two calls the documentation warns about: receiving beside
the background thread (`DESIGN.md:84` asks for one thread at a time) and `Recv`
on a message of more than one payload frame (`zmq_router.h:28` names `RecvAll`
for those). The model makes both, and the variable `abused` remembers it:
types, pointer and thread properties hold regardless, the properties of
messages hold until then. `README.md:150` promises more than `DESIGN.md:84`;
that is finding 4. `SendTo`'s delivery is in `Gateway`.

### TopicFeed and PubSub

Topics and payloads are sequences of characters, because ZeroMQ filters by
prefix of the first frame, which is the payload of a message without topic,
while `RecvLoop` finds a handler by equality. A handler is the number of its
`Subscribe` call, so that a replaced handler can be told from the new one.
Filters reach the publisher some time later (`Propagate`). The mutex of the
subscriber is kept for more than an instant only in `RecvMultipart`, which is
`worker = "recv"`. Closing the publisher may lose what is under way. When the
context has ended, `Subscribe` stores the handler and may then throw, since the
socket refuses the filter (`zmq_subscriber.cpp:67-70`).

`TopicFeed` has no filters, frames, sockets, locks or threads. A publication
gets a number; it may never be sent, may be lost as long as it waits, the
latest first, and is else taken in the order of the numbers: at that instant
the registration of its topic, or else of the empty topic, is chosen, and it is
this one that is called with it. That rule is the code's
(`zmq_subscriber.cpp:119-125`), not the headers' (section 5). What nobody registered for, by prefix of the
first frame, is never sent. The mapping in `PubSub` (`Service`) reads this off
the thread: a message that `RecvMultipart` has returned still waits
(`Pending`), and is taken when the handler is copied under the mutex
(`WorkerDispatches`); from then until the call it is chosen (`Chosen`).
`Connect`, `Propagate`, `StartBackground` and the mutex are steps that change
nothing. So `Subscribe` may replace a handler between look-up and call, and
the old one is called: that is what the service says of the order of events,
not a fault of it.

### JsonText and Tester

A text is a sequence of characters in which a word without quotes, backslashes
or colons counts as one, so that the scan of `ExtractJsonString` is run as it
is written, on texts short enough for TLC: the first quoted key, wherever it
is; blanks; a colon; blanks; a quote; and the first quote after it that is
preceded by an even number of backslashes. `Written` is what
`HandleRepRequest` writes, `Proper` what a JSON library would.

In `Tester` each handler is a single step, since run `gateway_names` shows
that they amount to that, and the table is on texts. `clients` is `m_clients`;
`book` is the table of a gateway that has a JSON parser, and a history
variable, as are `reply` and `expected`, which the same two gateways answered
last. A JSON client registers, unregisters and lists names that are key words,
or hold quotes, colons or backslashes, and posts to them. A stress test goes
through `off` (registration), `send` (is a message due), `sending` (which waits
for room while `Hwm` of its messages are with the gateway), `poll`, `second`
and `third` (the two recvs without time-out after the first frame) and `check`;
`inbox` is the number of single-frame messages that wait in its DEALER socket.
`SendTo` may fail, which `failures` counts apart from the other errors. A
message knows the stress test it is `from`, if it is of one. `RunGateway`
uses one socket from two threads, which is undefined, and is left out, with
the reading of arguments.

### LegacyReqRep, LegacyPubSub and Legacy

As `ReqRep` and `PubSub`, with what the older code does differently:
`PollOnce` looks at `m_running` and returns without a reply when a codec
refuses a request or a reply, which `refused` remembers per socket; `outgoing`
holds requests that have not left the client's socket, which `linger` 0
discards there and the tester's sockets keep (`zmq_ctx_term` waits for them);
`Subscribe` sets an option of a socket that the loop, which holds no lock, may
be receiving from, which libzmq leaves undefined: the model calls `Subscribe`
at every other moment, the loop's look-up and its call of a handler included,
but not then. `StartBackground` on a joinable thread ends the process and is
left out.
The tester's `RunSubscriber` prints and counts frames. `LegacyPubSub` has the
mapping of `PubSub` to `TopicFeed`, with `Refusing`: a message that the codec
refuses is dropped when it is received.

The two pairs share only a context that is never terminated. `Legacy` puts
them into one specification in which a behaviour is one of either pair
(`half`), so that one run checks both.

## 3. The runs

Every run finishes in less than four minutes on two cores. Deadlock is not
checked: the program may stop, by itself or by an exception, and the bounds on
requests, messages and calls end every behaviour.

| Run | Question | Properties | Bounds |
|---|---|---|---|
| `gateway_names` | do threads outlive their sockets, do announcements and table agree, is the gateway a `Switchboard` | `TypeOK`, `LifetimesKept`, `AnnouncedAgrees`, `ImplementsSwitchboard` | 1 name, 2 identities, all 8 calls, 2 requests, 1 message |
| `gateway_routing` | is every message counted, delivered in order and once; are requests answered and messages handled; does `Stop` return | `RoutingAccounted`, `DeliveredInOrder`, `RequestsAnswered`, `MessagesHandled`, `StopReturns` | 1 peer that registers itself and writes to itself, 2 connections, 2 messages, 1 request, 2 starts |
| `dealer_calls` | pointer, mutex, conservation, messages handled, `Disconnect` | `TypeOK`, `LifetimesKept`, `MessagesConserved`, `MessagesHandled`, `DisconnectReturns` | 2 threads, 2 arriving messages, 4 calls, 2 connects, high-water mark 1 |
| `reqrep_served` | shared ownership, the REP socket's turn, fresh replies, `Stop` | `TypeOK`, `SocketsHeld`, `NeverWedged`, `NoStaleReply`, `StopReturns` | 2 pollers, 2 requesters of 2 connections, 2 sockets, 2 requests |
| `router_calls` | pointer and joins, messages whole and none lost, `Stop`, messages handled | `TypeOK`, `ThreadKept`, `HandedOver`, `StopReturns`, `MessagesHandled` | 2 threads, 2 messages of 1 or 2 payload frames, 2 receive calls, 2 bindings |
| `pubsub_topics` | thread and filters; order, truth and completeness of calls; is the pair a `TopicFeed`; `Disconnect`; subscriptions and messages get through | `TypeOK`, `SocketKept`, `Dispatched`, `ImplementsTopicFeed`, `DisconnectReturns`, `Delivery` | 3 topics (none, one, and one it is a prefix of), a payload like a topic, 2 `Subscribe`s, 2 `Publish`es, room for 1 message, 2 sockets on either side |
| `tester_texts` | are texts read and written as a JSON library would; where do messages go, what does a stress test count, does it end | `RepliesRight`, `RoutesByBook`, `ReceiptsConserved`, `StressEnds` | 5 names and identities, 2 orders of keys, with and without blanks, 1 request, 3 messages of the client; 1 stress test of 2 messages with room for 1 |
| `legacy_pairs` | live sockets and the REP turn, fresh replies, filters, is the pair a `TopicFeed`, prints, returns | `TypeOK`, `Unwedged`, `NoStaleReply`, `FiltersFollow`, `SubscribersServed`, `CallsReturn` | 2 pollers, 1 client, 1 tester, 2 sockets, 2 connections, 2 requests; 3 topics, 2 `Subscribe`s, 2 `Publish`es on one socket of the publisher, room for 1 message, 2 successive sockets of the subscriber, beside them a tester that stops after 3 frames |
| `dealer_recv_forever`, `dealer_eagain`, `router_term`, `router_beside` | the findings, section 5 | `RecvWakes`, `SendOkMeansQueued`, `QuietOnTerm`, `WholeBesideThread` | 1 or 2 of each |

Some properties have parts that are stated on their own in their module:
`LifetimesKept` (phases of `Start` and `Stop`, sockets and threads; pointer and
callers of the dealer), `SocketsHeld` (the loop, the copies, the sockets
destroyed), `ThreadKept` (`WorkerOutlived`, `StopLeavesNone`), `HandedOver`
(`MessagesWhole`, `StreamConserved`), `SocketKept` (`WorkerOutlived`,
`FiltersFollow`), `Dispatched` (`CalledInOrder`, `CallsMatch`, `NotIgnored`),
`Delivery` (`SubscriptionArrives`, `MessagesTaken`) and `SubscribersServed`
(`ImplementsTopicFeed`, `TesterPrintsAll`).

Why these are enough. One name with two identities lets it move between peers
while a message is between its look-up and its delivery; two names do not
interact, since no operation reads two but `list`. Two requests are a request
that timed out and its retry, or a registration overtaken by another. Two
messages are the fewest that can be reordered, and two connections of a peer
the fewest that can mix. Two starts show what a failed or ended one leaves
behind. For the dealer, a high-water mark of 1 puts the limit within reach of
two sends, and two connects give the background thread a second socket. For
the replier, two sockets let a copy of the first outlive it, and two requests
with two connections let a late reply meet a later call. For the router, two
messages of different lengths are what a reader that miscounts frames mixes
up. For publish and subscribe, two registrations are a handler and its
replacement, or two topics one of which is a prefix of the other. A request on
texts leaves nothing behind but the table, which a stress test and three
messages are enough to make use of; a third frame is what a stress test waits
for, and three messages are what it takes for one. In the older wrapper one
client suffices for a late reply, since sockets do not share connections, and
the tester is the second. Where a bound could hide something, the theorems of
section 4 have none.

`gateway_names` uses symmetry in the identities; it has no liveness property.

### Fairness

* Gateway: weak fairness of the two background threads, as the operating
  system schedules them, and of the joins of a `Stop` that was called. Strong
  fairness of receiving from each client and each peer: `poll` reports what
  has arrived and ZeroMQ takes from its peers in turn, so a time-out cannot be
  chosen over a waiting message for ever. Nothing makes anybody call `Start`,
  `Stop` or send.
* DealerSocket: weak fairness of the background thread and of a call under
  way, strong fairness of the thread's `recv` of a message: it looks for one
  before it waits, so that one that is there is not passed over for ever.
  Waiting with an infinite time-out has no fair way out but a message:
  an interruption by a signal or the end of the context is possible but never
  promised. The mutex needs no more than weak fairness here because calls are
  bounded; a starved waiter is not excluded by the code for unbounded ones.
* ReqRep: weak fairness of the background thread and of a `Stop` under way.
* RouterSocket: weak fairness of the background thread, of a receive under
  way and of the join. Errors are promised only once the context has ended,
  when every call on the socket fails.
* PubSub: weak fairness of the background thread and of a `Disconnect` under
  way; ZeroMQ passes subscriptions on. Whether `Subscribe` ever gets the mutex
  from a loop that takes it again at once is not claimed: `std::mutex` promises
  no turn.
* Tester: weak fairness of the stress loop; strong fairness of a message's
  becoming due (`StressDue`), which it does again and again while the loop
  polls. Nothing makes the gateway take or forward anything: `StressEnds` does
  not ask it to, and exempts a test that waits for it for ever (`Blocked`).
* Legacy: weak fairness of the background threads, of a `Stop` or `Disconnect`
  under way, of the tester once it runs, and of ZeroMQ carrying a request to a
  server that is bound.

## 4. What is proved

All for every value of the constants that meets the named assumptions of the
module: any finite or infinite sets of names, clients, peers, threads, and any
bounds. Each argument is an inductive invariant `Inv` with `Init => Inv` and
`Inv /\ [Next]_vars => Inv'`.

* **GatewayProofs.** `Typing` (`TypeOK`), `Phases` (`ThreadPhases`),
  `SocketSafety` (`SocketsOutliveThreads`), `Lifetimes` (`LifetimesKept`, the
  two together), `Announcements` (`AnnouncedAgrees`), `Accounting`
  (`RoutingAccounted`). The invariant is types and phases together, and
  accounting and announcements are proved on top of it: that a thread never
  outlives its socket is not inductive, for `Stop` destroys sockets without
  looking; it follows from which threads and sockets there are in every phase.
  That a message to be counted has not been counted needs the type invariant's
  account of the locals of the ROUTER thread.

  `InOrder` (`DeliveredInOrder`) and `Implementation`
  (`ImplementsSwitchboard`) are its last part: initial states map to initial
  states, and there is a lemma for each group of steps (`MapControl`,
  `MapRep`, `MapRouter`, `MapEnvironment`) that says which abstract step it
  is. Applying a request takes it out of the abstract queue, and so does
  resolving a message; for that the request must not wait in the socket as
  well (`HandledOnce`), nor the message in an outbox. The latter follows from
  where the messages of one connection are (`Ordered`): those delivered are
  older than the one being routed, and that one is older than those that wait.
  Taking the first message of its connection out of the middle of a queue
  keeps it so (`Takes`, `Thinned`).
* **DealerProofs.** `Typing`, `RawPointerSafe` (`WorkerOutlived`),
  `CallersSafe` (`CallersKeepSocket`), `Lifetimes` (`LifetimesKept`, both),
  `Conservation` (`MessagesConserved`). The invariant adds that between join
  and reset the background thread is gone.
* **ReqRepProofs.** `Typing`, `LoopSafe` (`LoopOutlived`), `Sockets`
  (`SocketsHeld`), `Unwedging` (`NeverWedged`), `FreshReplies`
  (`NoStaleReply`). That a socket is open exactly while `m_sock` or a copy
  refers to it needs that a poller has a copy just while it polls, and that
  generations are never reused; that a REP socket owes a reply only to the
  poller that is about to send it follows from there being one poller at a
  time. A requester matches no reply to its request: it returns
  whatever comes. It is right because a REQ socket that is ready has nothing
  in flight on its connection. The invariant says so (`OneAtATime`), and that
  a request is in one place only (`OnePlace`) and its ticket was used
  (`TicketsUsed`).
* **RouterProofs.** `Typing`, `ThreadSafe` (`ThreadKept`), `MessagesIntact`
  (`HandedOver`), for any number of threads and of frames. `Control` is types,
  mutex, flags and threads. What is handed over is whole because of what waits
  in the socket, and that is what the invariant `Ordered` is about: the
  waiting frames are messages one after the other, each from its identity to
  its last frame (`Chained`), of which the first goes on where the one reader
  has stopped or is the next message (`Continues`); there is one reader at
  most (`OneReader`: the mutex is free while there is a background thread,
  which is the documentation's rule); and where a reader is tells whether its
  last frame has a successor (`Reading`). Hence a reader that was begun always
  finds its next frame, the empty frames and the lost ones never come about,
  and every frame is handed over, held or waiting (`Kept`). Both are proved of
  steps that do not leave the documentation's rules or end the context, from
  which the theorem exempts the rest.
* **PubSubProofs.** `Typing`, `SocketSafe` (`SocketKept`),
  `DispatchedRightly` (`Dispatched`), `Implementation`
  (`ImplementsTopicFeed`). Every message under way is what `Publish` was given
  under its number (`Known`), those that were called, that the thread has and
  that wait have ascending numbers, and a topic with a handler keeps one, so
  that a message that was due when it was published still is. Of the filters,
  the invariant has that each has its handler at all times, and each handler
  its filter until the context ends.

  `Implementation` has a lemma for each kind of step (`StutterStep`,
  `LoseStep`, `SubscribeStep`, `PublishStep`, `GetsStep`, `DispatchesStep`,
  `CallsStep`) that says which abstract step it is, if any. Three of them need
  the invariant. Publishing is allowed to the service only when somebody
  registered for it, and the publisher knows filters, not registrations: what
  it knows are filters of the socket (`TypeTopics`), and those are topics with
  a handler (`FiltersFollow`). Taking a message looks its topic up in the log,
  where the thread reads it from the frames: `Known`. And the call hands over
  what is in the log under that number, for the same reason. The queue of the
  service is what the thread has in hand followed by what waits, so that
  receiving changes nothing (`Joined`, in `MessageLemmas`).
* **TesterProofs.** `Replying` (`RepliesRight`), `Routing` (`RoutesByBook`),
  `Receiving` (`ReceiptsConserved`), and two theorems about the scan by itself,
  `Scanning` and `AnyValueLegible`.

  `Scanning` is about the text of any object of strings: whatever the keys,
  their order, the spacing and the values, `ExtractJsonString` returns the
  value of the key with its escapes, or nothing if the object has no such
  member or the value is empty. The argument has three parts. A quote within
  an escaped value has an odd number of backslashes before it and the closing
  one an even number (`EscapeProtected`), so that the scan for the end stops
  where the value does (`StringEndIs`). The text is built member by member
  (`ObjectGrows`), and until the key's own member is written the quoted key
  occurs nowhere, or only at the end of the last value, after which there is
  no colon before the key's own (`BeforeMember`, `MemberStep`). And so the scan
  arrives at the member, or at none (`ReadsMember`, `ReadsAbsent`).

  The one hypothesis that matters is `Legible`: no value written before the
  member, except the last, may be the key's name or end in a quote and that
  name. `LegibleAssumption` asks it of the client's requests and messages, and
  the code does depend on it: of `{"name":"cmd","identity":"x","cmd":"list"}`
  the gateway reads the command `x`. `AnyValueLegible` says how little it asks:
  a request that begins with its command, as all in this repository do, is
  legible for every name and identity, unless the value of the command itself
  shows the key. The other assumptions on the constants
  are that keys are words other than punctuation, each once per order, that
  and that stress tests are named without quotes and backslashes (else the
  identity of another client could be equal to such a name once it is escaped).

  Given the scan, the invariant for `Replying` is that the gateway's table is
  the parser's with names and identities escaped (`Kept`). A look-up answers
  alike in both because no two texts are escaped alike (`EscapeInjective`), so
  that every branch of `Handled` is taken alike, and what the gateway writes
  without escapes is what the library writes with them. `Routing` uses the same
  invariant; it is about the client's messages only, and allows `SendTo` to
  fail. `Receiving` needs that a sum over the stress tests changes by what
  one term changes by (`SumsGrow`).
* **LegacyProofs.** `Typing`, `Unwedging` (`Unwedged`), `FreshReplies`
  (`NoStaleReply`), `FiltersFollowHandlers` (`FiltersFollow`), `Served`
  (`SubscribersServed`). There is an invariant for each pair
  (`PairInv`, `FeedInv`), which the steps of the other leave alone. They are
  those of `ReqRepProofs` and `PubSubProofs` with two differences. A request is
  another record at the server than on its way there, so that it is tickets
  that are in one place only; and a caller that sends on a connection must
  have nothing in flight on it, which for the tester follows from its having a
  new connection every time.

  `Served` has two halves. The refinement goes as in `PubSubProofs`; of the
  filters the service needs one direction only, that none is without a handler
  (`FiltersAsked`), and that with or without a socket. What the
  tester prints has an invariant of its
  own (`PrintInv`): every frame printed is the first or the second of its
  message, and the first only if the message before it is finished
  (`PrintedSoFar`); what waits is ascending and untouched, but for the second
  frame of a message that is begun (`Left`). It is not enough that pipes keep
  their order: when the publisher closes its socket, ZeroMQ drops messages
  that have not been read but never the rest of one that has, and without that
  `TesterPrintsAll` is false.

Three induction principles carry the results about sums, flattened sequences
and escapes, which are recursive functions: over the numbers (`NatSet`), the
subsets of a finite set (`SubsetsSet`) and the sequences over a set (`SeqSet`).
Each is stated for a set of those that have a property instead of for a
property, and so needs no operator as a parameter.

Model-checked only: the liveness properties (`RequestsAnswered`,
`MessagesHandled`, `StopReturns`, `DisconnectReturns`, `Delivery`,
`StressEnds`, `CallsReturn`), for which the prover has no rules of fairness,
and the four properties the findings refute.

## 5. Findings

1. `DealerSocket::Recv` leaves its time-out in the socket, and its default is
   -1. From then on the background thread's `recv`, which "blocks up to
   rcvtimeo=100ms" (`zmq_dealer.cpp:187`), blocks without limit, and
   `Disconnect` waits for it. Run `dealer_recv_forever`.
2. `DealerSocket::Send` returns true and counts `send_ok` when the send timed
   out at the high-water mark, against `DESIGN.md:114` and `zmq_options.h:24`:
   cppzmq reports EAGAIN in a result that is not looked at. Run
   `dealer_eagain`.
3. `DESIGN.md:117` says that on ETERM a loop is left quietly. `RouterSocket`'s
   loop calls `zmq::poll` outside of `try`; poll throws on ETERM, and on a
   signal, out of the `std::thread`: the process ends in `std::terminate`. Run
   `router_term`. The gateway's `main` handles SIGINT and SIGTERM so as to
   stop in order (`main.cpp:58-59`); one that this poll meets ends the process
   all the same (`RouterInterrupted` of `Gateway`).
4. "Thread-safe: every socket operation is protected by the mutex"
   (`README.md:150`): `RouterSocket`'s loop receives without it. A `Recv`
   beside it takes a frame from the middle of the message the loop is reading,
   and both hand over fragments. Run `router_beside`. `DealerSocket`'s loop
   shares its socket in the same way, against `zmq_dealer.h:43` and
   `DESIGN.md:83`.

Code and documents disagree in further places. No run refutes them, and no
property takes a side:

* "Register a handler for a specific topic (or `""` for all topics)", says
  `zmq_wrapper/zmq_subscriber.h:29`, and of the older wrapper
  `zmq/zmq_subscriber.h:45` and `zmq/README.md:192`, `:209-210` and `:255` say
  that the empty topic receives everything. In both the handler of the empty
  topic gets only what no other takes (`zmq_wrapper/zmq_subscriber.cpp:119-125`,
  `zmq/zmq_subscriber.cpp:136-150`). `Dispatched` leaves open how many handlers
  get a message; `TopicFeed` has the code's rule (`Registration`).
* `zmq_ipc_tester/test_gateway.cpp:100-107` sends `[target][empty][payload]` as
  a message to its target, and `RunGateway` (`main.cpp:323`) and `RunStress`
  (`main.cpp:430`) do likewise; the gateway looks for JSON in the first frame,
  finds no target and counts an error, so that no message of a stress test is
  routed. `RoutesByBook` says nothing of these messages.
* `zmq_ipc_tester/src/main.cpp:64` says "Exit after n messages"; `RunSubscriber`
  counts frames (`sub_client.cpp:59-81`), of which a message on a topic has two.
  `TesterPrintsAll` says nothing of where it stops.
* `zmq/zmq_subscriber.h:44` allows `Subscribe` after `StartBackground`; it then
  uses a ZeroMQ socket that the loop is receiving from in another thread, which
  libzmq leaves undefined. The model leaves that moment out.
* `zmq_subscriber.cpp:70` of the new wrapper lets ETERM out of `Subscribe` as an
  exception, which its header does not mention, with the handler stored and
  the filter not set. `FiltersFollow` and `SubscriptionArrives` admit it.

The models also show some behaviour of which the repository says nothing, or
nothing precise enough to be refuted by a run:

* After a `Request` that timed out, the socket refuses every further send
  until it is disconnected (`ReqRep`, `RequestSend`); `DESIGN.md:181` says that
  the order of sends and receives is guaranteed automatically.
* `RunStress` has two ways not to end (`StressEnds`). A single-frame message
  that a JSON client sends to the tester leaves it in its second recv, without
  a time-out, until two more arrive; and when the gateway takes nothing, its
  send waits at the high-water mark, without a time-out either. The loss it reports is the difference
  of two unsigned counts (`main.cpp:466`), one of them three frames to the
  message.
* A name or identity that needs escapes is stored with them: replies and
  announcements are right again, but an identity never equals the routing id,
  and messages to it are counted as routed and dropped.
* The scan takes the first place where the quoted key occurs, be it a value.
  A client that writes other members first can be misread (`Legible`); the
  clients in this repository cannot.
* A legacy server whose codec refuses a request answers nobody until it is
  stopped and started (`Unwedged`). The tester's `zmq_ctx_term` waits for a
  request that no server takes, after its time-out as well.

## 6. What is not modelled, and the plan

Not modelled for good: logging, the codecs' conversions, the reading of
arguments, the loading of settings and their layering (sequential I/O without
a later effect on the protocol), `RunGateway` (one ZeroMQ socket used from two
threads: undefined), the older `Subscribe` while its loop is receiving (the
same), `WithSocket` (the caller's code), libzmq itself beyond
what the wrapper relies on (pipes, turns, time-outs, drops). Of the
single-owner rule for `Connect`, `Start`, `Stop` and their like, two owners at
once are undefined behaviour and are excluded. The gateway runs inside one
process whose context lives as long as it does, so that `Gateway` has no
context termination, only the end of the process; the socket modules have it. Statistics are modelled where
a property is about them (`Gateway`, `DealerSocket`, `Tester`).

What the plan has left, the most important first:

1. An abstract request and reply service that `ReqRep`, and the older pair,
   implement, as they do the freshness of replies today.
2. That a background thread which is not waiting for the mutex or the network
   can always take a step, stated as a formula on states: the part of the
   liveness properties that is within the prover's reach.
