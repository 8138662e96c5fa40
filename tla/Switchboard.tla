---------------------------- MODULE Switchboard ----------------------------
(***************************************************************************)
(* What the gateway promises, without its threads, sockets and locks.  A   *)
(* request changes the name table once, at one instant between its being   *)
(* made and its being answered, and the answer tells what that instant     *)
(* found.  A message goes to an identity its target was bound to at one    *)
(* instant after it was posted, once, or nowhere.                          *)
(***************************************************************************)
EXTENDS Integers, Sequences

CONSTANTS Names, Ids, Empty, Calls, Requesters, Lives

VARIABLES
  binding,   \* the pairs <<name, identity>> of the name table
  made,      \* requests made so far
  waiting,   \* requests made, not yet applied
  applied,   \* [request, answer]: applied, not yet answered
  answers,   \* [request, answer]: answered
  posts,     \* messages posted so far
  posted,    \* messages on their way to the switch
  routed,    \* [message, to]: resolved, not yet delivered
  received   \* what every peer has received

vars == <<binding, made, waiting, applied, answers, posts, posted, routed, received>>

Init ==
  /\ binding = {} /\ made = 0 /\ waiting = {} /\ applied = {} /\ answers = {}
  /\ posts = 0 /\ posted = {} /\ routed = {} /\ received = [d \in Ids |-> <<>>]

Bound(name) == \E id \in Ids : <<name, id>> \in binding
Drop(name)  == {b \in binding : b[1] # name}

Make ==
  /\ made' = made + 1
  /\ \E c \in Requesters, call \in Calls :
       waiting' = waiting \cup {[ticket |-> made + 1, client |-> c, call |-> call]}
  /\ UNCHANGED <<binding, applied, answers, posts, posted, routed, received>>

(* What applying a call does to the table, and what its answer says.       *)
Effect(call, what, names) ==
  \/ /\ call.cmd = "register" /\ Empty \notin {call.name, call.identity}
     /\ binding' = Drop(call.name) \cup {<<call.name, call.identity>>}
     /\ what = IF Bound(call.name) THEN "updated" ELSE "registered"
     /\ names = {}
  \/ /\ call.cmd = "unregister" /\ call.name # Empty
     /\ binding' = Drop(call.name)
     /\ what = "unregistered" /\ names = {}
  \/ /\ call.cmd = "list"
     /\ binding' = binding
     /\ what = "names" /\ names = {n \in Names : Bound(n)}
  \/ /\ call.cmd = "stats"
     /\ binding' = binding
     /\ what = "stats" /\ names = {}
  \/ /\ \/ call.cmd = "other"
        \/ call.cmd = "unregister" /\ call.name = Empty
        \/ call.cmd = "register" /\ Empty \in {call.name, call.identity}
     /\ binding' = binding
     /\ what = "refused" /\ names = {}

Apply ==
  \E r \in waiting, names \in SUBSET Names :
    \E what \in {"registered", "updated", "unregistered", "names", "stats", "refused"} :
      /\ Effect(r.call, what, names)
      /\ waiting' = waiting \ {r}
      /\ applied' = applied \cup {[request |-> r, answer |-> [what |-> what, names |-> names]]}
      /\ UNCHANGED <<made, answers, posts, posted, routed, received>>

Answer ==
  \E a \in applied :
    /\ applied' = applied \ {a}
    /\ answers' \in {answers, answers \cup {a}}
    /\ UNCHANGED <<binding, made, waiting, posts, posted, routed, received>>

(* Requests may be lost before they are applied, messages before they are  *)
(* resolved; a peer that leaves forgets what it received.                  *)
Lose ==
  \/ /\ waiting' \in SUBSET waiting
     /\ UNCHANGED <<binding, made, applied, answers, posts, posted, routed, received>>
  \/ /\ posted' \in SUBSET posted
     /\ received' \in {received} \cup {[received EXCEPT ![d] = <<>>] : d \in Ids}
     /\ UNCHANGED <<binding, made, waiting, applied, answers, posts, routed>>

(* The switch may end, and with it all that it has not finished.           *)
Halt ==
  /\ waiting' \in SUBSET waiting /\ posted' \in SUBSET posted
  /\ applied' = {} /\ routed' = {}
  /\ UNCHANGED <<binding, made, answers, posts, received>>

Post ==
  /\ posts' = posts + 1
  /\ \E m \in [from : Ids, life : Lives, seq : {posts + 1}, target : Names \cup {Empty}] :
       posted' = posted \cup {m}
  /\ UNCHANGED <<binding, made, waiting, applied, answers, routed, received>>

Resolve ==
  \E m \in posted :
    /\ posted' = posted \ {m}
    /\ \/ ~Bound(m.target) /\ routed' = routed
       \/ \E id \in Ids : /\ <<m.target, id>> \in binding
                          /\ routed' = routed \cup {[message |-> m, to |-> id]}
    /\ UNCHANGED <<binding, made, waiting, applied, answers, posts, received>>

Deliver ==
  \E x \in routed :
    /\ routed' = routed \ {x}
    /\ received' \in {received, [received EXCEPT ![x.to] = Append(@, x.message)]}
    /\ UNCHANGED <<binding, made, waiting, applied, answers, posts, posted>>

Next == Make \/ Apply \/ Answer \/ Lose \/ Halt \/ Post \/ Resolve \/ Deliver

Spec == Init /\ [][Next]_vars
=============================================================================
