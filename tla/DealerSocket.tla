---------------------------- MODULE DealerSocket ----------------------------
(***************************************************************************)
(* zmq_wrap::DealerSocket: one ZeroMQ DEALER socket behind a mutex, used   *)
(* by the threads of the program and by a background thread that receives  *)
(* and calls a handler.  The background thread takes the mutex to fetch a  *)
(* raw pointer to the socket and lets go of it before it receives.         *)
(*                                                                         *)
(* Payloads are not told apart: messages are counted.  Of the time-outs    *)
(* only "finite" or "infinite" matters.  The eagain and recv_fail counters *)
(* are left out, the lock they are counted under is not.                   *)
(***************************************************************************)
EXTENDS Integers, FiniteSets

CONSTANTS Threads,       \* the program's threads that use the socket
          Owner,         \* the one that connects, starts and disconnects
          Worker,        \* the background thread
          None,          \* nobody
          RecvTimeouts,  \* time-outs given to Recv: a subset of {"finite", "infinite"}
          SendTimeout,   \* SocketConfig::send_timeout_ms: "finite" or "infinite"
          SndHwm,        \* SocketConfig::send_hwm
          MaxIn,         \* bound: messages the peer sends
          MaxCalls,      \* bound: calls of Send and Recv
          MaxConnects    \* bound: calls of Connect that open a socket

ASSUME ThreadsAssumption ==
  /\ Owner \in Threads
  /\ Worker \notin Threads
  /\ None \notin Threads \cup {Worker}
ASSUME TimeoutsAssumption ==
  /\ RecvTimeouts \subseteq {"finite", "infinite"}
  /\ SendTimeout \in {"finite", "infinite"}
ASSUME BoundsAssumption ==
  /\ SndHwm \in Nat \ {0}
  /\ MaxIn \in Nat /\ MaxCalls \in Nat /\ MaxConnects \in Nat

All == Threads \cup {Worker}

VARIABLES
  sock,      \* m_sock holds a socket
  mutex,     \* who holds m_mutex
  running,   \* m_running
  joinable,  \* m_thread.joinable()
  rcvtimeo,  \* the socket's ZMQ_RCVTIMEO
  waits,     \* the time-out of the background thread's recv, which zmq reads on entry
  pc,        \* where every thread is
  termed,    \* the ZeroMQ context has been terminated
  incoming,  \* messages that can be received
  outgoing,  \* messages sent that the peer has not taken
  send_ok, recv_ok,    \* counters of m_stats
  queued, handed,      \* messages the socket accepted, handed to a handler or a caller of Recv
  arrived, dropped,    \* messages that came in; that were discarded with the socket
  calls, connects      \* the bounded counters

ownVars   == <<sock, running, joinable, connects>>
countVars == <<send_ok, recv_ok, queued, handed, dropped>>
netVars   == <<incoming, outgoing, arrived>>
vars == <<ownVars, mutex, rcvtimeo, waits, pc, termed, netVars, countVars, calls>>

Init ==
  /\ sock = FALSE /\ mutex = None /\ running = FALSE /\ joinable = FALSE
  /\ rcvtimeo = "infinite" /\ waits = "finite"
  /\ pc = [t \in All |-> IF t = Worker THEN "off" ELSE "idle"]
  /\ termed = FALSE
  /\ incoming = 0 /\ outgoing = 0 /\ arrived = 0 /\ dropped = 0
  /\ send_ok = 0 /\ recv_ok = 0 /\ queued = 0 /\ handed = 0
  /\ calls = 0 /\ connects = 0

Goto(t, label) == pc' = [pc EXCEPT ![t] = label]

(* A call made from the handler comes back to the background loop.         *)
Return(t) == Goto(t, IF t = Worker THEN "top" ELSE "idle")

-----------------------------------------------------------------------------
(* Connect, StartBackground, Disconnect: the owner's calls.                *)

(* A Connect that fails, or finds the socket open, changes nothing.        *)
Connect ==
  /\ pc[Owner] = "idle" /\ mutex = None /\ ~sock /\ ~termed /\ connects < MaxConnects
  /\ sock' = TRUE /\ connects' = connects + 1
  /\ rcvtimeo' = "finite"
  /\ UNCHANGED <<running, joinable, mutex, waits, pc, termed, netVars, countVars, calls>>

StartBackground ==
  /\ pc[Owner] = "idle" /\ ~joinable
  /\ mutex = None /\ sock
  /\ running' = TRUE /\ joinable' = TRUE /\ Goto(Worker, "top")
  /\ UNCHANGED <<sock, connects, mutex, rcvtimeo, waits, termed, netVars, countVars, calls>>

DisconnectBegin ==
  /\ pc[Owner] = "idle"
  /\ running' = FALSE /\ Goto(Owner, "join")
  /\ UNCHANGED <<sock, joinable, connects, mutex, rcvtimeo, waits, termed, netVars, countVars, calls>>

DisconnectJoin ==
  /\ pc[Owner] = "join"
  /\ \/ ~joinable /\ Goto(Owner, "close")
     \/ joinable /\ pc[Worker] = "ended"
        /\ pc' = [pc EXCEPT ![Owner] = "close", ![Worker] = "off"]
  /\ joinable' = FALSE
  /\ UNCHANGED <<sock, running, connects, mutex, rcvtimeo, waits, termed, netVars, countVars, calls>>

(* Mutant: the socket is reset without the mutex.                          *)
DisconnectClose_NoMutex ==
  /\ pc[Owner] = "close"
  /\ sock' = FALSE /\ incoming' = 0 /\ outgoing' = 0 /\ dropped' = dropped + incoming
  /\ Goto(Owner, "idle")
  /\ UNCHANGED <<running, joinable, connects, mutex, rcvtimeo, waits, termed, arrived,
                 send_ok, recv_ok, queued, handed, calls>>

(* With linger 0 what is still in the socket, either way, is discarded.    *)
DisconnectClose ==
  /\ pc[Owner] = "close" /\ mutex = None
  /\ sock' = FALSE /\ incoming' = 0 /\ outgoing' = 0 /\ dropped' = dropped + incoming
  /\ Goto(Owner, "idle")
  /\ UNCHANGED <<running, joinable, connects, mutex, rcvtimeo, waits, termed, arrived,
                 send_ok, recv_ok, queued, handed, calls>>

-----------------------------------------------------------------------------
(* Send and Recv hold the mutex until they return.                         *)

MayCall(t) == pc[t] = (IF t = Worker THEN "handle" ELSE "idle") /\ calls < MaxCalls

Release(t) == mutex' = None /\ Return(t)

SendBegin(t) ==
  /\ MayCall(t) /\ mutex = None
  /\ calls' = calls + 1
  /\ IF sock THEN mutex' = t /\ Goto(t, "send") ELSE mutex' = None /\ Return(t)
  /\ UNCHANGED <<ownVars, rcvtimeo, waits, termed, netVars, countVars>>

(* Mutant: Send returns without releasing the mutex.                       *)
SendQueued_KeepsMutex(t) ==
  /\ pc[t] = "send" /\ ~termed /\ outgoing < SndHwm
  /\ outgoing' = outgoing + 1 /\ queued' = queued + 1 /\ send_ok' = send_ok + 1
  /\ Return(t)
  /\ UNCHANGED <<ownVars, mutex, rcvtimeo, waits, termed, incoming, arrived, recv_ok, handed, dropped, calls>>

SendQueued(t) ==
  /\ pc[t] = "send" /\ ~termed /\ outgoing < SndHwm
  /\ outgoing' = outgoing + 1 /\ queued' = queued + 1
  /\ send_ok' = send_ok + 1
  /\ Release(t)
  /\ UNCHANGED <<ownVars, rcvtimeo, waits, termed, incoming, arrived, recv_ok, handed, dropped, calls>>

(* At the high-water mark send waits; when SNDTIMEO expires zmq reports it *)
(* in a result that is not looked at, and Send goes on as if it had sent.  *)
SendTimesOut(t) ==
  /\ pc[t] = "send" /\ ~termed /\ outgoing = SndHwm /\ SendTimeout = "finite"
  /\ send_ok' = send_ok + 1
  /\ Release(t)
  /\ UNCHANGED <<ownVars, rcvtimeo, waits, termed, netVars, queued, recv_ok, handed, dropped, calls>>

RecvBegin(t) ==
  /\ MayCall(t) /\ mutex = None
  /\ calls' = calls + 1
  /\ \/ ~sock /\ mutex' = None /\ Return(t) /\ rcvtimeo' = rcvtimeo
     \/ sock /\ mutex' = t /\ Goto(t, "recv") /\ rcvtimeo' \in RecvTimeouts
  /\ UNCHANGED <<ownVars, waits, termed, netVars, countVars>>

RecvGets(t) ==
  /\ pc[t] = "recv" /\ mutex = t /\ incoming > 0
  /\ incoming' = incoming - 1 /\ recv_ok' = recv_ok + 1 /\ handed' = handed + 1
  /\ Release(t)
  /\ UNCHANGED <<ownVars, rcvtimeo, waits, termed, outgoing, arrived, send_ok, queued, dropped, calls>>

RecvTimesOut(t) ==
  /\ pc[t] = "recv" /\ mutex = t /\ rcvtimeo = "finite"
  /\ Release(t)
  /\ UNCHANGED <<ownVars, rcvtimeo, waits, termed, netVars, countVars, calls>>

(* ETERM: the context has ended.                                           *)
CallFails(t) ==
  /\ pc[t] \in {"send", "recv"} /\ mutex = t /\ termed
  /\ Release(t)
  /\ UNCHANGED <<ownVars, rcvtimeo, waits, termed, netVars, countVars, calls>>

(* A signal interrupts a call that waits for room or for a message.        *)
CallInterrupted(t) ==
  /\ \/ pc[t] = "send" /\ outgoing = SndHwm
     \/ pc[t] = "recv"
  /\ mutex = t
  /\ Release(t)
  /\ UNCHANGED <<ownVars, rcvtimeo, waits, termed, netVars, countVars, calls>>

CallStep(t) == SendQueued(t) \/ SendTimesOut(t) \/ RecvGets(t) \/ RecvTimesOut(t) \/ CallFails(t)

-----------------------------------------------------------------------------
(* The background thread, RecvLoop.                                        *)

WorkerTop ==
  /\ pc[Worker] = "top"
  /\ Goto(Worker, IF running THEN "grab" ELSE "ended")
  /\ UNCHANGED <<ownVars, mutex, rcvtimeo, waits, termed, netVars, countVars, calls>>

WorkerGrab ==
  /\ pc[Worker] = "grab" /\ mutex = None
  /\ Goto(Worker, IF sock THEN "enter" ELSE "ended")
  /\ UNCHANGED <<ownVars, mutex, rcvtimeo, waits, termed, netVars, countVars, calls>>

WorkerEnters ==
  /\ pc[Worker] = "enter"
  /\ waits' = rcvtimeo
  /\ Goto(Worker, "polling")
  /\ UNCHANGED <<ownVars, mutex, rcvtimeo, termed, netVars, countVars, calls>>

WorkerGets ==
  /\ pc[Worker] = "polling" /\ incoming > 0
  /\ incoming' = incoming - 1
  /\ Goto(Worker, "count")
  /\ UNCHANGED <<ownVars, mutex, rcvtimeo, waits, termed, outgoing, arrived, countVars, calls>>

WorkerTimesOut ==
  /\ pc[Worker] = "polling" /\ waits = "finite"
  /\ Goto(Worker, "missed")
  /\ UNCHANGED <<ownVars, mutex, rcvtimeo, waits, termed, netVars, countVars, calls>>

(* recv fails without the context being terminated: a signal arrived.      *)
WorkerInterrupted ==
  /\ pc[Worker] = "polling"
  /\ Goto(Worker, "missed")
  /\ UNCHANGED <<ownVars, mutex, rcvtimeo, waits, termed, netVars, countVars, calls>>

(* Mutant: the loop does not end when the context is terminated.           *)
WorkerTermed_Retries ==
  /\ pc[Worker] = "polling" /\ termed
  /\ Goto(Worker, "enter")
  /\ UNCHANGED <<ownVars, mutex, rcvtimeo, waits, termed, netVars, countVars, calls>>

WorkerTermed ==
  /\ pc[Worker] = "polling" /\ termed
  /\ running' = FALSE /\ Goto(Worker, "ended")
  /\ UNCHANGED <<sock, joinable, connects, mutex, rcvtimeo, waits, termed, netVars, countVars, calls>>

WorkerCount ==
  /\ pc[Worker] = "count" /\ mutex = None
  /\ recv_ok' = recv_ok + 1
  /\ Goto(Worker, "deliver")
  /\ UNCHANGED <<ownVars, mutex, rcvtimeo, waits, termed, netVars, send_ok, queued, handed, dropped, calls>>

(* Mutant: the message that was counted is dropped once Stop was asked for.*)
WorkerDelivers_NotOnceStopped ==
  /\ pc[Worker] = "deliver"
  /\ IF running THEN handed' = handed + 1 /\ Goto(Worker, "handle")
                ELSE handed' = handed /\ Goto(Worker, "ended")
  /\ UNCHANGED <<ownVars, mutex, rcvtimeo, waits, termed, netVars, send_ok, recv_ok, queued, dropped, calls>>

(* The handler is called without the mutex.                                *)
WorkerDelivers ==
  /\ pc[Worker] = "deliver"
  /\ handed' = handed + 1
  /\ Goto(Worker, "handle")
  /\ UNCHANGED <<ownVars, mutex, rcvtimeo, waits, termed, netVars, send_ok, recv_ok, queued, dropped, calls>>

(* Mutant: a recv without a message ends the loop.                         *)
WorkerMissed_Ends ==
  /\ pc[Worker] = "missed" /\ mutex = None
  /\ Goto(Worker, "ended")
  /\ UNCHANGED <<ownVars, mutex, rcvtimeo, waits, termed, netVars, countVars, calls>>

(* eagain or recv_fail is counted under the mutex.                         *)
WorkerMissed ==
  /\ pc[Worker] = "missed" /\ mutex = None
  /\ Goto(Worker, "top")
  /\ UNCHANGED <<ownVars, mutex, rcvtimeo, waits, termed, netVars, countVars, calls>>

WorkerHandled ==
  /\ pc[Worker] = "handle"
  /\ Goto(Worker, "top")
  /\ UNCHANGED <<ownVars, mutex, rcvtimeo, waits, termed, netVars, countVars, calls>>

WorkerStep ==
  \/ WorkerTop \/ WorkerGrab \/ WorkerEnters \/ WorkerGets \/ WorkerTimesOut \/ WorkerTermed
  \/ WorkerCount \/ WorkerDelivers \/ WorkerMissed \/ WorkerHandled

-----------------------------------------------------------------------------
(* The peer and the end of the process.                                    *)

Arrive ==
  /\ sock /\ ~termed /\ arrived < MaxIn
  /\ arrived' = arrived + 1 /\ incoming' = incoming + 1
  /\ UNCHANGED <<ownVars, mutex, rcvtimeo, waits, pc, termed, outgoing, countVars, calls>>

PeerTakes ==
  /\ outgoing > 0 /\ outgoing' = outgoing - 1
  /\ UNCHANGED <<ownVars, mutex, rcvtimeo, waits, pc, termed, incoming, arrived, countVars, calls>>

Terminate ==
  /\ ~termed /\ termed' = TRUE
  /\ UNCHANGED <<ownVars, mutex, rcvtimeo, waits, pc, netVars, countVars, calls>>

-----------------------------------------------------------------------------
Next ==
  \/ Connect \/ StartBackground \/ DisconnectBegin \/ DisconnectJoin \/ DisconnectClose
  \/ \E t \in Threads : RecvBegin(t)
  \/ \E t \in All : SendBegin(t) \/ CallStep(t) \/ CallInterrupted(t)
  \/ WorkerStep \/ WorkerInterrupted
  \/ Arrive \/ PeerTakes \/ Terminate

Spec == Init /\ [][Next]_vars

(* Threads are scheduled and a call that can return does; a Disconnect     *)
(* that was begun is carried through; a recv looks for a message before it *)
(* waits, so that one that is there is not passed over for ever.  Nothing  *)
(* makes the owner call, the peer send or take, a signal arrive or the     *)
(* context end.                                                            *)
Fairness ==
  /\ WF_vars(WorkerStep) /\ SF_vars(WorkerGets)
  /\ \A t \in All : WF_vars(CallStep(t))
  /\ WF_vars(DisconnectJoin \/ DisconnectClose)

FairSpec == Spec /\ Fairness

-----------------------------------------------------------------------------
(* Properties.                                                             *)

WorkerLabels ==
  {"off", "top", "grab", "enter", "polling", "count", "deliver", "missed", "handle",
   "send", "ended"}

TypePcs ==
  /\ pc \in [All -> WorkerLabels \cup {"idle", "recv", "join", "close"}]
  /\ pc[Worker] \in WorkerLabels
  /\ \A t \in Threads : pc[t] \in {"idle", "send", "recv"} \cup
                          (IF t = Owner THEN {"join", "close"} ELSE {})

MutexHeld ==
  /\ mutex \in All \cup {None}
  /\ \A t \in All : mutex = t <=> pc[t] \in {"send", "recv"}

TypeData ==
  /\ sock \in BOOLEAN /\ running \in BOOLEAN /\ joinable \in BOOLEAN /\ termed \in BOOLEAN
  /\ rcvtimeo \in {"finite", "infinite"} /\ waits \in {"finite", "infinite"}
  /\ incoming \in Nat /\ outgoing \in 0..SndHwm /\ arrived \in 0..MaxIn /\ dropped \in Nat
  /\ send_ok \in Nat /\ recv_ok \in Nat /\ queued \in Nat /\ handed \in Nat
  /\ calls \in 0..MaxCalls /\ connects \in 0..MaxConnects

(* Every variable keeps its type; the mutex is held by exactly the thread  *)
(* that is inside Send or Recv.                                            *)
TypeOK == TypePcs /\ MutexHeld /\ TypeData

(* "Safe because Disconnect() joins this thread before resetting m_sock"   *)
(* (zmq_dealer.cpp:176): while the background thread is anywhere in its    *)
(* loop the socket exists and its std::thread is still to be joined, so    *)
(* that its raw pointer never dangles, no handler runs after Disconnect    *)
(* has returned, and the destructor never meets a thread it did not join.  *)
WorkerOutlived ==
  /\ pc[Worker] # "off" => joinable
  /\ pc[Worker] \notin {"off", "ended"} => sock

(* A thread inside Send or Recv never loses the socket under its feet.     *)
CallersKeepSocket == \A t \in All : pc[t] \in {"send", "recv"} => sock

(* Nobody uses the socket after it is gone: neither the background thread, *)
(* without the mutex, nor a caller with it (zmq_dealer.cpp:49-61).         *)
LifetimesKept == WorkerOutlived /\ CallersKeepSocket

(* Every message that arrived is waiting, was handed over once, is on its  *)
(* way from recv to the handler (zmq_dealer.cpp:187-210), or was discarded *)
(* with the socket; what was counted and not yet handed over is that one   *)
(* message on its way, whatever Disconnect does meanwhile.                 *)
MessagesConserved ==
  /\ arrived = incoming + handed + dropped + (IF pc[Worker] \in {"count", "deliver"} THEN 1 ELSE 0)
  /\ recv_ok = handed + (IF pc[Worker] = "deliver" THEN 1 ELSE 0)

(* While the background loop is wanted and the context lives, every        *)
(* message is handed over: time-outs, signals, the handler's own Sends and *)
(* the Recvs of other threads do not keep it from being received.          *)
MessagesHandled ==
  \A n \in 1..MaxIn :
    (running /\ arrived >= n) ~> (handed + dropped >= n \/ ~running \/ termed)

(* Disconnect returns (kPollTimeoutMs "controls how quickly                *)
(* Stop()/Disconnect() returns", zmq_options.h:46).                        *)
DisconnectReturns == (pc[Owner] = "join") ~> (pc[Owner] = "idle")

(* The background recv "blocks up to rcvtimeo=100ms" (zmq_dealer.cpp:187)  *)
(* "so background thread can check m_running" (zmq_dealer.cpp:168).        *)
RecvWakes == (pc[Worker] = "polling") ~> (pc[Worker] # "polling")

(* A send that fails with EAGAIN returns false (DESIGN.md:114); send_ok    *)
(* counts the messages the socket accepted.                                *)
SendOkMeansQueued == send_ok = queued
=============================================================================
