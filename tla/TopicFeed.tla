------------------------------ MODULE TopicFeed ------------------------------
(***************************************************************************)
(* What a publisher and a subscriber promise together, without threads,    *)
(* locks, sockets, filters and frames.  A publication gets a number.  It   *)
(* may be lost, but those that are not are taken in the order of their     *)
(* numbers, each at one instant: the registration that its topic has then, *)
(* or failing that the empty topic, is the one that will be called, with   *)
(* what was published, whatever is registered in the meantime.  A          *)
(* publication that finds no registration is dropped, and one of whose     *)
(* first frame no topic with a registration is a prefix is never sent.     *)
(* Where a codec stands before the handlers, it may refuse what it is      *)
(* given.                                                                  *)
(*                                                                         *)
(* That the empty topic is a fallback, for what no other topic takes, is   *)
(* the rule of the code (zmq_subscriber.cpp:119-121).  The headers and the *)
(* documentation speak of "all topics" instead (zmq_wrapper/               *)
(* zmq_subscriber.h:29), which the service does not promise.               *)
(***************************************************************************)
EXTENDS Naturals, Sequences, SequencesExt

CONSTANTS Topics, Payloads,
          Refusing \* a codec may refuse messages

VARIABLES
  subscribed,    \* the number of every topic's last registration, 0 for none
  registrations, \* registrations so far
  log,           \* publications so far
  pending,       \* the numbers of those on their way
  chosen,        \* the publication taken last, and the registration to call
  calls          \* the calls made, in order

vars == <<subscribed, registrations, log, pending, chosen, calls>>

Unchosen == [id |-> 0, by |-> 0]

Init ==
  /\ subscribed = [t \in Topics |-> 0] /\ registrations = 0
  /\ log = <<>> /\ pending = <<>> /\ chosen = Unchosen /\ calls = <<>>

Subscribe(topic) ==
  /\ registrations' = registrations + 1
  /\ subscribed' = [subscribed EXCEPT ![topic] = registrations + 1]
  /\ UNCHANGED <<log, pending, chosen, calls>>

(* A publication of the empty topic is compared by its payload.            *)
Heard(topic, payload) ==
  \E t \in Topics : subscribed[t] # 0 /\ IsPrefix(t, IF topic = <<>> THEN payload ELSE topic)

Publish(topic, payload) ==
  /\ log' = Append(log, [topic |-> topic, payload |-> payload])
  /\ \/ pending' = pending
     \/ Heard(topic, payload) /\ pending' = Append(pending, Len(log) + 1)
  /\ UNCHANGED <<subscribed, registrations, chosen, calls>>

(* What was sent last is lost first.                                       *)
Lose ==
  /\ \E n \in 0..Len(pending) : pending' = SubSeq(pending, 1, n)
  /\ UNCHANGED <<subscribed, registrations, log, chosen, calls>>

Refuse ==
  /\ Refusing /\ pending # <<>> /\ pending' = Tail(pending)
  /\ UNCHANGED <<subscribed, registrations, log, chosen, calls>>

Registration(topic) ==
  IF subscribed[topic] # 0 THEN subscribed[topic] ELSE subscribed[<<>>]

Take ==
  /\ pending # <<>> /\ chosen = Unchosen
  /\ pending' = Tail(pending)
  /\ LET id == Head(pending)
         by == Registration(log[id].topic)
     IN  chosen' = IF by = 0 THEN Unchosen ELSE [id |-> id, by |-> by]
  /\ UNCHANGED <<subscribed, registrations, log, calls>>

Call ==
  /\ chosen # Unchosen
  /\ calls' = Append(calls, [id |-> chosen.id, msg |-> log[chosen.id], by |-> chosen.by])
  /\ chosen' = Unchosen
  /\ UNCHANGED <<subscribed, registrations, log, pending>>

Next ==
  \/ \E t \in Topics : Subscribe(t) \/ \E p \in Payloads : Publish(t, p)
  \/ Lose \/ Refuse \/ Take \/ Call

Spec == Init /\ [][Next]_vars
=============================================================================
