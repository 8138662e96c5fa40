------------------------------- MODULE Tester -------------------------------
(***************************************************************************)
(* The stress test of the IPC tester (RunStress) and a client that speaks  *)
(* the gateway's JSON, at one gateway.  Here the gateway's handlers work   *)
(* on texts, and each is a single step, which is what module Gateway shows *)
(* them to amount to (run gateway_names); the fields that Gateway takes a  *)
(* request to consist of are what the scan of JsonText finds in it.        *)
(*                                                                         *)
(* "book" is the name table of a gateway that reads its requests with a    *)
(* JSON parser.  Names and identities are texts.  A stress test names      *)
(* itself and its DEALER socket alike.  Time is left out: when a message   *)
(* is due, and whether a reply is in time, is a choice.                    *)
(***************************************************************************)
EXTENDS JsonText

CONSTANTS Chars,       \* the characters and words of the clients' keys and values
          Testers,     \* the client_name of every stress test
          Targets,     \* the target_name they may be given
          Calls,       \* requests of the JSON client, as records
          Posts,       \* messages of the JSON client, as records
          KeyOrders,   \* the orders in which clients write their keys
          StressCount, \* opts.stress_count, 0 for no end
          Hwm,         \* messages of a stress test that fit between its DEALER and the gateway
          MaxCalls, MaxPosts, \* bounds: requests and messages of the JSON client
          MaxWaiting,  \* bound: messages waiting when the JSON client sends one
          MaxSent      \* bound: messages of a stress test

ASSUME TestersAssumption ==
  IsFiniteSet(Testers) /\ Testers \subseteq Seq(Chars \ {Quote, Backslash}) /\ "register" \in Chars
ASSUME TextsAssumption ==
  \A c \in Calls \cup Posts : \A k \in DOMAIN c : c[k] \in Seq(Chars)
ASSUME KeysAssumption ==
  \A keys \in KeyOrders :
    /\ keys \in Seq(Chars \ Syntax) /\ IsInjective(keys)
    /\ \A c \in Calls \cup Posts : DOMAIN c \subseteq Range(keys)
(* What the scan relies on: see Legible.                                   *)
ASSUME LegibleAssumption ==
  \A keys \in KeyOrders :
    /\ \A c \in Calls, k \in {"cmd", "name", "identity"} : Legible(keys, c, k)
    /\ \A m \in Posts : Legible(keys, m, "target")
ASSUME BoundsAssumption ==
  StressCount \in Nat /\ MaxCalls \in Nat /\ MaxPosts \in Nat /\ MaxWaiting \in Nat
  /\ MaxSent \in Nat /\ Hwm \in Nat \ {0}

VARIABLES
  clients,  \* Gateway::m_clients, as texts
  book,     \* what a JSON parser would have put there
  reply,    \* the last reply and announcement, and the names listed in it
  expected, \* the same of a gateway with a JSON library
  stats,    \* m_stats, errors and messages_routed; history: failures of SendTo
  queue,    \* messages that wait at the ROUTER socket
  inbox,    \* per DEALER socket, messages of one frame that wait there
  pc, sent, recv_ok, \* per stress test
  calls, posts

gatewayVars == <<clients, book, reply, expected>>
stressVars  == <<pc, sent, recv_ok>>
vars == <<gatewayVars, stats, queue, inbox, stressVars, calls, posts>>

Empty == <<>>
Silence == [text |-> Empty, event |-> Empty, listed |-> {}]

Init ==
  /\ clients = Empty /\ book = Empty /\ reply = Silence /\ expected = Silence
  /\ stats = [errors |-> 0, messages_routed |-> 0, failures |-> 0]
  /\ queue = Empty /\ inbox = [t \in Testers |-> 0]
  /\ pc = [t \in Testers |-> "off"] /\ sent = [t \in Testers |-> 0]
  /\ recv_ok = [t \in Testers |-> 0]
  /\ calls = 0 /\ posts = 0

-----------------------------------------------------------------------------
(* HandleRepRequest, on the fields of a request: reply, announcement, the  *)
(* names listed and the table afterwards.  The numbers of "stats" are left *)
(* out.                                                                    *)

Answer(success, message, event, listed, table) ==
  [success |-> success, message |-> message, event |-> event, listed |-> listed, table |-> table]

Refused(message, table) == Answer("false", message, Empty, {}, table)

With(table, n, identity) ==
  [m \in DOMAIN table \cup {n} |-> IF m = n THEN identity ELSE table[m]]

Handled(f, table) ==
  CASE f.cmd = <<"register">> /\ f.name = Empty     -> Refused(<<"missing name">>, table)
    [] f.cmd = <<"register">> /\ f.name # Empty /\ f.identity = Empty
                                                    -> Refused(<<"missing identity">>, table)
    [] f.cmd = <<"register">> /\ f.name # Empty /\ f.identity # Empty ->
         LET isNew == f.name \notin DOMAIN table
         IN  Answer("true", IF isNew THEN <<"registered">> ELSE <<"updated">>,
                    IF isNew THEN <<"register">> ELSE Empty, {}, With(table, f.name, f.identity))
    [] f.cmd = <<"unregister">> /\ f.name = Empty   -> Refused(<<"missing name">>, table)
    [] f.cmd = <<"unregister">> /\ f.name # Empty   ->
         Answer("true", <<"unregistered">>, <<"unregister">>, {},
                Restrict(table, DOMAIN table \ {f.name}))
    [] f.cmd = <<"list">>  -> Answer("true", <<"ok">>, Empty, DOMAIN table, table)
    [] f.cmd = <<"stats">> -> Answer("true", <<"ok">>, Empty, {}, table)
    [] f.cmd = Empty       -> Refused(<<"missing cmd">>, table)
    [] OTHER               -> Refused(<<"unknown command: ">> \o f.cmd, table)

(* The fields of a request, as the gateway finds them.                     *)
Fields(text) == [k \in {"cmd", "name", "identity"} |-> ExtractJsonString(text, k)]

(* Reply, announcement and listed names as HandleRepRequest writes them,   *)
(* without escapes.                                                        *)
Written(a, name) ==
  [text   |-> BuildJsonResponse(a.success, a.message),
   event  |-> IF a.event = Empty THEN Empty
              ELSE <<Open, Quote, "event", Quote, ":", Quote>> \o a.event
                     \o <<Quote, Comma, Quote, "name", Quote, ":", Quote>> \o name \o <<Quote, Close>>,
   listed |-> {<<Quote>> \o n \o <<Quote>> : n \in a.listed}]

(* The same as a JSON library would write it.                              *)
Proper(a, name) ==
  [text   |-> BuildJsonResponse(a.success, Escape(a.message)),
   event  |-> IF a.event = Empty THEN Empty
              ELSE WriteObject(<<"event", "name">>, [event |-> a.event, name |-> name], Empty),
   listed |-> {WriteString(n) : n \in a.listed}]

Field(call, k) == IF k \in DOMAIN call THEN call[k] ELSE Empty

(* The clients write with a blank after colons and commas, or without.     *)
Gaps == {Empty, <<Blank>>}

(* What a request means, and what the gateway finds in its text.           *)
Request(call, keys, gap) ==
  [meant |-> [k \in {"cmd", "name", "identity"} |-> Field(call, k)],
   found |-> Fields(WriteObject(keys, call, gap))]

Requests == {Request(c, keys, gap) : c \in Calls, keys \in KeyOrders, gap \in Gaps}

(* A request is handled and answered.                                      *)
Served(r) ==
  LET a == Handled(r.found, clients)
      b == Handled(r.meant, book)
  IN  /\ clients' = a.table /\ reply' = Written(a, r.found.name)
      /\ book' = b.table /\ expected' = Proper(b, r.meant.name)

(* The registration of a stress test, as its JSON library writes it.       *)
Registration(t) ==
  Request([cmd |-> <<"register">>, name |-> t, identity |-> t],
          <<"cmd", "identity", "name">>, Empty)

-----------------------------------------------------------------------------
(* HandleRouterMessage and the JSON client.                                *)

(* The first frame after the identity is taken for the whole message.      *)
Target(frames) == ExtractJsonString(frames[1], "target")

(* A stress test whose DEALER socket is there.                             *)
Connected(t) == pc[t] \in {"send", "sending", "poll", "second", "third", "check"}

(* SendTo the identity: a ROUTER drops what it sends to one that is not    *)
(* connected, or not yet, or whose pipe is full; for the gateway it is     *)
(* routed.                                                                 *)
Forwards(identity) ==
  /\ stats' = [stats EXCEPT !.messages_routed = @ + 1]
  /\ \/ UNCHANGED inbox
     \/ \E t \in Testers : identity = t /\ Connected(t)
                          /\ inbox' = [inbox EXCEPT ![t] = @ + 1]

Errs == stats' = [stats EXCEPT !.errors = @ + 1] /\ UNCHANGED inbox

(* SendTo fails: the socket refuses the message.                           *)
Fails ==
  /\ stats' = [stats EXCEPT !.errors = @ + 1, !.failures = @ + 1]
  /\ UNCHANGED inbox

(* Mutant: a target that nobody registered is taken for an identity.       *)
HandleRouterMessage_OrIdentity ==
  /\ queue # Empty /\ queue' = Tail(queue)
  /\ LET target == Target(Head(queue).frames)
     IN  CASE target = Empty             -> Errs
           [] target \in DOMAIN clients -> Forwards(clients[target]) \/ Fails
           [] OTHER                      -> Forwards(target) \/ Fails
  /\ UNCHANGED <<gatewayVars, stressVars, calls, posts>>

HandleRouterMessage ==
  /\ queue # Empty /\ queue' = Tail(queue)
  /\ LET target == Target(Head(queue).frames)
     IN  IF target \in DOMAIN clients THEN Forwards(clients[target]) \/ Fails ELSE Errs
  /\ UNCHANGED <<gatewayVars, stressVars, calls, posts>>

ClientCalls ==
  /\ calls < MaxCalls /\ calls' = calls + 1
  /\ \E r \in Requests : Served(r)
  /\ UNCHANGED <<stats, queue, inbox, stressVars, posts>>

(* "from" is the stress test that sent the message, nobody for the client. *)
Letters == {[from |-> {}, to |-> Field(m, "target"), frames |-> <<WriteObject(keys, m, gap)>>] :
              m \in Posts, keys \in KeyOrders, gap \in Gaps}

ClientPosts ==
  /\ posts < MaxPosts /\ posts' = posts + 1 /\ Len(queue) < MaxWaiting
  /\ \E m \in Letters : queue' = Append(queue, m)
  /\ UNCHANGED <<gatewayVars, stats, inbox, stressVars, calls>>

-----------------------------------------------------------------------------
(* RunStress.                                                              *)

(* The registration, as the tester's JSON library writes it.               *)
StressRegisters(t) ==
  /\ pc[t] = "off" /\ pc' = [pc EXCEPT ![t] = "send"]
  /\ Served(Registration(t))
  /\ UNCHANGED <<stats, queue, inbox, sent, recv_ok, calls, posts>>

(* No reply in time: RunStress gives up.  The request may be served still. *)
StressUnanswered(t) ==
  /\ pc[t] = "off" /\ pc' = [pc EXCEPT ![t] = "failed"]
  /\ \/ Served(Registration(t))
     \/ UNCHANGED gatewayVars
  /\ UNCHANGED <<stats, queue, inbox, sent, recv_ok, calls, posts>>

MaySend(t) == StressCount = 0 \/ sent[t] < StressCount

(* The next message is due.                                                *)
StressDue(t) ==
  /\ pc[t] = "send" /\ MaySend(t) /\ sent[t] < MaxSent
  /\ pc' = [pc EXCEPT ![t] = "sending"]
  /\ UNCHANGED <<gatewayVars, stats, queue, inbox, sent, recv_ok, calls, posts>>

(* The messages of t that the gateway has not taken.                       *)
Underway(t) == Len(SelectSeq(queue, LAMBDA m : m.from = {t}))

(* At the high-water mark the send waits, without a time-out.              *)
StressSends(t) ==
  /\ pc[t] = "sending" /\ Underway(t) < Hwm
  /\ pc' = [pc EXCEPT ![t] = "poll"] /\ sent' = [sent EXCEPT ![t] = @ + 1]
  /\ \E name \in Targets :
       queue' = Append(queue, [from |-> {t}, to |-> name, frames |-> <<name, Empty, <<"stress">>>>])
  /\ UNCHANGED <<gatewayVars, stats, inbox, recv_ok, calls, posts>>

(* Nothing is left to send, or the next message is not due yet.            *)
StressWaits(t) ==
  /\ pc[t] = "send" /\ pc' = [pc EXCEPT ![t] = "poll"]
  /\ UNCHANGED <<gatewayVars, stats, queue, inbox, sent, recv_ok, calls, posts>>

StressPollsNothing(t) ==
  /\ pc[t] = "poll" /\ inbox[t] = 0 /\ pc' = [pc EXCEPT ![t] = "check"]
  /\ UNCHANGED <<gatewayVars, stats, queue, inbox, sent, recv_ok, calls, posts>>

(* Mutant: a message is received with one recv.                            *)
StressReceives_One(t) ==
  /\ pc[t] = "poll" /\ inbox[t] > 0
  /\ inbox' = [inbox EXCEPT ![t] = @ - 1]
  /\ pc' = [pc EXCEPT ![t] = "check"] /\ recv_ok' = [recv_ok EXCEPT ![t] = @ + 1]
  /\ UNCHANGED <<gatewayVars, stats, queue, sent, calls, posts>>

(* Three receives, for the frames of what is counted as one message; the   *)
(* second and the third wait without limit.                                *)
StressReceives(t) ==
  /\ pc[t] \in {"poll", "second", "third"} /\ inbox[t] > 0
  /\ inbox' = [inbox EXCEPT ![t] = @ - 1]
  /\ \/ pc[t] = "poll"   /\ pc' = [pc EXCEPT ![t] = "second"] /\ UNCHANGED recv_ok
     \/ pc[t] = "second" /\ pc' = [pc EXCEPT ![t] = "third"]  /\ UNCHANGED recv_ok
     \/ pc[t] = "third"  /\ pc' = [pc EXCEPT ![t] = "check"]
        /\ recv_ok' = [recv_ok EXCEPT ![t] = @ + 1]
  /\ UNCHANGED <<gatewayVars, stats, queue, sent, calls, posts>>

(* Mutant: the test for the end is off by one.                             *)
StressChecks_OffByOne(t) ==
  /\ pc[t] = "check"
  /\ pc' = [pc EXCEPT ![t] = IF StressCount > 0 /\ sent[t] > StressCount THEN "done" ELSE "send"]
  /\ UNCHANGED <<gatewayVars, stats, queue, inbox, sent, recv_ok, calls, posts>>

(* Done when everything is sent, whatever may still arrive.                *)
StressChecks(t) ==
  /\ pc[t] = "check"
  /\ pc' = [pc EXCEPT ![t] = IF StressCount > 0 /\ ~MaySend(t) THEN "done" ELSE "send"]
  /\ UNCHANGED <<gatewayVars, stats, queue, inbox, sent, recv_ok, calls, posts>>

StressLoop(t) ==
  \/ StressDue(t) \/ StressSends(t) \/ StressWaits(t) \/ StressPollsNothing(t)
  \/ StressReceives(t) \/ StressChecks(t)

-----------------------------------------------------------------------------
Next ==
  \/ HandleRouterMessage \/ ClientCalls \/ ClientPosts
  \/ \E t \in Testers : StressRegisters(t) \/ StressUnanswered(t) \/ StressLoop(t)

Spec == Init /\ [][Next]_vars

(* The test keeps running, and a message becomes due sooner or later.      *)
Fairness == \A t \in Testers : WF_vars(StressLoop(t)) /\ SF_vars(StressDue(t))

FairSpec == Spec /\ Fairness

-----------------------------------------------------------------------------
(* Properties.                                                             *)

(* The scan finds in every request that the clients of this repository     *)
(* write what a JSON parser would, be the values key words, quotes, colons *)
(* or backslashes, except that it leaves the escapes in.  As replies and   *)
(* announcements are not escaped either, they are right again.             *)
RepliesRight == reply = expected

(* Of the messages of the JSON client, those to a registered name are      *)
(* routed and reach no other identity than the one registered, and the     *)
(* rest are errors, except that SendTo may fail.  An identity that needs   *)
(* escapes is stored with them, so that its socket gets nothing though the *)
(* message counts as routed.  Nothing is said of the three frames of a     *)
(* stress test: test_gateway.cpp:100-107 takes them for a message to the   *)
(* target, the gateway for one without target.                             *)
RoutesByBook ==
  [][queue # Empty /\ Head(queue).from = {} /\ queue' = Tail(queue) =>
       LET to == Head(queue).to
           meant == to \in DOMAIN book
           failed == stats'.failures > stats.failures
       IN  /\ (stats'.messages_routed > stats.messages_routed) <=> (meant /\ ~failed)
           /\ (stats'.errors > stats.errors) <=> (~meant \/ failed)
           /\ \A t \in Testers : inbox'[t] > inbox[t] => meant /\ ~failed /\ book[to] = t]_vars

(* Frames that a stress test has received of what it takes for a message.  *)
Begun(t) == CASE pc[t] = "second" -> 1 [] pc[t] = "third" -> 2 [] OTHER -> 0

(* What the stress tests received and will receive was routed: they count  *)
(* one receipt for three routed messages, as each has a single frame, so   *)
(* that the loss they report exceeds the messages the gateway lost.        *)
ReceiptsConserved ==
  MapThenSumSet(LAMBDA t : inbox[t] + 3 * recv_ok[t] + Begun(t), Testers)
    <= stats.messages_routed

(* It waits for room while the gateway takes nothing, or for the rest of a *)
(* message that has no more frames.                                        *)
Blocked(t) ==
  \/ pc[t] = "sending" /\ Underway(t) >= Hwm
  \/ pc[t] \in {"second", "third"} /\ inbox[t] = 0

(* A stress test with a count ends, unless it comes to wait for ever for   *)
(* one of the two: main.cpp:430-432 and :443-444 have no time-out.         *)
StressEnds == \A t \in Testers : (pc[t] = "send") ~> (pc[t] = "done" \/ []Blocked(t))
=============================================================================
