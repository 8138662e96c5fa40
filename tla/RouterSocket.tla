---------------------------- MODULE RouterSocket ----------------------------
(***************************************************************************)
(* zmq_wrap::RouterSocket on the receiving side.  A message is an identity *)
(* frame and one or more payload frames; Recv takes two frames, RecvAll    *)
(* and the background thread take frames until one has no successor.  Recv *)
(* and RecvAll hold the mutex; the background thread polls and receives    *)
(* without it.                                                             *)
(*                                                                         *)
(* A frame is known by its message, its place and its "more" flag.  Of a   *)
(* time-out only "finite" or "infinite" matters.  Statistics are left out, *)
(* and SendTo (modelled in Gateway) is here only as a call that a handler  *)
(* may make and that needs the mutex.                                      *)
(***************************************************************************)
EXTENDS Naturals, Sequences, FiniteSets, SequencesExt

CONSTANTS Threads,       \* the program's threads that call Recv and RecvAll
          Owner,         \* the one that binds, starts, stops and unbinds
          Worker,        \* the background thread
          None,          \* nobody
          RecvTimeouts,  \* time-outs given to Recv and RecvAll
          MaxParts,      \* bound: payload frames of a message
          MaxIn,         \* bound: messages that arrive on one binding
          MaxCalls,      \* bound: calls of Recv and RecvAll
          MaxBinds       \* bound: calls of Bind that open a socket

ASSUME ThreadsAssumption ==
  /\ Owner \in Threads
  /\ Worker \notin Threads
  /\ None \notin Threads \cup {Worker}
ASSUME TimeoutsAssumption == RecvTimeouts \subseteq {"finite", "infinite"}
ASSUME BoundsAssumption ==
  MaxParts \in Nat \ {0} /\ MaxIn \in Nat /\ MaxCalls \in Nat /\ MaxBinds \in Nat

All == Threads \cup {Worker}

Frame == [msg : 1..MaxIn, part : 0..MaxParts, more : BOOLEAN]

(* What an unfilled zmq::message_t is read as: an empty, last frame.       *)
Nothing == [msg |-> 0, part |-> 0, more |-> FALSE]

(* What a thread may have read of a message.                               *)
Frames == Seq(Frame \cup {Nothing})
NoFrames == <<>>

(* Message n with k payload frames after its identity, frame 0.            *)
Message(n, k) == [i \in 1..(k + 1) |-> [msg |-> n, part |-> i - 1, more |-> i <= k]]

VARIABLES
  sock,      \* m_sock holds a socket
  mutex,     \* who holds m_mutex
  running,   \* m_running
  joinable,  \* m_thread.joinable()
  rcvtimeo,  \* the socket's ZMQ_RCVTIMEO
  waits,     \* the time-out of the background thread's recv, read on entry
  pc,        \* where every thread is
  termed,    \* the ZeroMQ context has been terminated
  stream,    \* the frames that arrived on this binding, in order
  inbox,     \* those that have not been read
  held,      \* the frames a thread has read of the message it is reading
  handed,    \* the messages given to the handler or to a caller of RecvAll or Recv
  abused,    \* history: a call was made that the documentation rules out
  calls, binds

ownVars == <<sock, running, joinable, binds>>
inVars  == <<stream, inbox, held, handed>>
vars    == <<ownVars, inVars, mutex, rcvtimeo, waits, pc, termed, abused, calls>>

Init ==
  /\ sock = FALSE /\ mutex = None /\ running = FALSE /\ joinable = FALSE
  /\ rcvtimeo = "infinite" /\ waits = "infinite" /\ termed = FALSE
  /\ pc = [t \in All |-> IF t = Worker THEN "off" ELSE "idle"]
  /\ stream = <<>> /\ inbox = <<>> /\ handed = <<>>
  /\ held = [t \in All |-> NoFrames]
  /\ abused = FALSE /\ calls = 0 /\ binds = 0

Goto(t, label) == pc' = [pc EXCEPT ![t] = label]

(* Thread t takes the next frame, f, into the message it is reading.       *)
Takes(t, f) ==
  /\ inbox # <<>> /\ f = Head(inbox)
  /\ inbox' = Tail(inbox)
  /\ held' = [held EXCEPT ![t] = Append(@, f)]
  /\ UNCHANGED <<stream, handed>>

Discards(t) == held' = [held EXCEPT ![t] = NoFrames] /\ UNCHANGED <<stream, inbox, handed>>

(* Reading a last frame ends a message.                                    *)
HandsOver(t) ==
  /\ handed' = Append(handed, held[t])
  /\ held' = [held EXCEPT ![t] = NoFrames]
  /\ UNCHANGED <<stream, inbox>>

-----------------------------------------------------------------------------
(* Bind, StartBackground, Stop, Unbind: the owner's calls.                 *)

(* The new socket has its own stream and its default time-out, infinite.   *)
Bind ==
  /\ pc[Owner] = "idle" /\ mutex = None /\ ~sock /\ ~termed /\ binds < MaxBinds
  /\ sock' = TRUE /\ binds' = binds + 1 /\ rcvtimeo' = "infinite"
  /\ stream' = <<>> /\ inbox' = <<>> /\ handed' = <<>>
  /\ UNCHANGED <<running, joinable, held, mutex, waits, pc, termed, abused, calls>>

StartBackground ==
  /\ pc[Owner] = "idle" /\ ~joinable /\ mutex = None /\ sock
  /\ running' = TRUE /\ joinable' = TRUE /\ Goto(Worker, "top")
  /\ UNCHANGED <<sock, binds, inVars, mutex, rcvtimeo, waits, termed, abused, calls>>

(* Stop looks at m_running only; Unbind is Stop and then the reset.        *)
StopBegin(label) ==
  /\ pc[Owner] = "idle"
  /\ running' = FALSE
  /\ Goto(Owner, CASE running -> label
                   [] ~running /\ label = "stopping" -> "idle"
                   [] ~running /\ label = "unbinding" -> "close")
  /\ UNCHANGED <<sock, joinable, binds, inVars, mutex, rcvtimeo, waits, termed, abused, calls>>

StopJoin ==
  /\ pc[Owner] \in {"stopping", "unbinding"}
  /\ joinable => pc[Worker] = "ended"
  /\ joinable' = FALSE
  /\ pc' = [pc EXCEPT ![Owner] = IF @ = "stopping" THEN "idle" ELSE "close",
                      ![Worker] = "off"]
  /\ UNCHANGED <<sock, running, binds, inVars, mutex, rcvtimeo, waits, termed, abused, calls>>

(* What is still in the socket goes with it.                               *)
UnbindClose ==
  /\ pc[Owner] = "close" /\ mutex = None
  /\ sock' = FALSE /\ stream' = <<>> /\ inbox' = <<>> /\ handed' = <<>>
  /\ Goto(Owner, "idle")
  /\ UNCHANGED <<running, joinable, binds, held, mutex, rcvtimeo, waits, termed, abused, calls>>

-----------------------------------------------------------------------------
(* Recv and RecvAll hold the mutex until they return.  Their phases are    *)
(* the recv of the identity and the recv of what follows.                  *)

Phase1 == {"Recv identity", "RecvAll identity"}
Phase2 == {"Recv payload", "RecvAll frames"}

Release(t) == mutex' = None /\ Goto(t, "idle")

(* The documentation rules out a call beside the background thread         *)
(* (DESIGN.md:84).                                                         *)
RecvBegin(t) ==
  /\ pc[t] = "idle" /\ mutex = None /\ calls < MaxCalls
  /\ calls' = calls + 1
  /\ \/ ~sock /\ UNCHANGED <<mutex, pc, rcvtimeo, abused>>
     \/ /\ sock /\ mutex' = t
        /\ \E label \in Phase1 : Goto(t, label)
        /\ rcvtimeo' \in RecvTimeouts
        /\ abused' = (abused \/ joinable)
  /\ UNCHANGED <<ownVars, inVars, waits, termed>>

RecvIdentity(t) ==
  /\ pc[t] \in Phase1
  /\ Takes(t, Head(inbox))
  /\ Goto(t, IF pc[t] = "Recv identity" THEN "Recv payload" ELSE "RecvAll frames")
  /\ UNCHANGED <<ownVars, mutex, rcvtimeo, waits, termed, abused, calls>>

(* Recv is for messages of one payload frame (zmq_router.h:28).            *)
RecvPayload(t) ==
  /\ pc[t] = "Recv payload" /\ inbox # <<>>
  /\ inbox' = Tail(inbox)
  /\ handed' = Append(handed, Append(held[t], Head(inbox)))
  /\ held' = [held EXCEPT ![t] = NoFrames]
  /\ abused' = (abused \/ Head(inbox).more)
  /\ Release(t)
  /\ UNCHANGED <<ownVars, stream, rcvtimeo, waits, termed, calls>>

RecvFrame(t) ==
  /\ pc[t] = "RecvAll frames"
  /\ Takes(t, Head(inbox))
  /\ Goto(t, IF Head(inbox).more THEN "RecvAll frames" ELSE "RecvAll return")
  /\ UNCHANGED <<ownVars, mutex, rcvtimeo, waits, termed, abused, calls>>

RecvAllReturns(t) ==
  /\ pc[t] = "RecvAll return"
  /\ HandsOver(t) /\ Release(t)
  /\ UNCHANGED <<ownVars, rcvtimeo, waits, termed, abused, calls>>

(* Mutant: a receive that times out returns with the mutex held.           *)
RecvTimesOut_KeepsMutex(t) ==
  /\ pc[t] \in Phase1 /\ inbox = <<>> /\ rcvtimeo = "finite"
  /\ Goto(t, "idle")
  /\ UNCHANGED <<ownVars, inVars, mutex, rcvtimeo, waits, termed, abused, calls>>

RecvTimesOut(t) ==
  /\ pc[t] \in Phase1 /\ inbox = <<>> /\ rcvtimeo = "finite"
  /\ Release(t)
  /\ UNCHANGED <<ownVars, inVars, rcvtimeo, waits, termed, abused, calls>>

(* The result of the later recvs is not looked at: when one times out, the *)
(* message ends in an empty frame.                                         *)
RecvEndsEmpty(t) ==
  /\ pc[t] \in Phase2 /\ inbox = <<>> /\ rcvtimeo = "finite"
  /\ handed' = Append(handed, Append(held[t], Nothing))
  /\ held' = [held EXCEPT ![t] = NoFrames]
  /\ Release(t)
  /\ UNCHANGED <<ownVars, stream, inbox, rcvtimeo, waits, termed, abused, calls>>

(* ETERM, or EINTR while waiting: what was read of the message is lost.    *)
RecvFails(t) ==
  /\ pc[t] \in Phase1 \cup Phase2 /\ (termed \/ inbox = <<>>)
  /\ Discards(t) /\ Release(t)
  /\ UNCHANGED <<ownVars, rcvtimeo, waits, termed, abused, calls>>

RecvStep(t) ==
  \/ RecvIdentity(t) \/ RecvPayload(t) \/ RecvFrame(t) \/ RecvAllReturns(t)
  \/ RecvTimesOut(t) \/ RecvEndsEmpty(t)

-----------------------------------------------------------------------------
(* The background thread, RecvLoop.                                        *)

WorkerTop ==
  /\ pc[Worker] = "top"
  /\ Goto(Worker, IF running THEN "grab" ELSE "ended")
  /\ UNCHANGED <<ownVars, inVars, mutex, rcvtimeo, waits, termed, abused, calls>>

WorkerGrab ==
  /\ pc[Worker] = "grab" /\ mutex = None
  /\ Goto(Worker, IF sock THEN "poll" ELSE "ended")
  /\ UNCHANGED <<ownVars, inVars, mutex, rcvtimeo, waits, termed, abused, calls>>

(* Mutant: poll is given no time-out.                                      *)
WorkerPolls_Forever ==
  /\ pc[Worker] = "poll" /\ ~termed /\ inbox # <<>>
  /\ Goto(Worker, "identity")
  /\ waits' = rcvtimeo
  /\ UNCHANGED <<ownVars, inVars, mutex, rcvtimeo, termed, abused, calls>>

(* Poll waits 100 ms; recv is entered at once when there is a frame.       *)
WorkerPolls ==
  /\ pc[Worker] = "poll" /\ ~termed
  /\ Goto(Worker, IF inbox = <<>> THEN "top" ELSE "identity")
  /\ waits' = rcvtimeo
  /\ UNCHANGED <<ownVars, inVars, mutex, rcvtimeo, termed, abused, calls>>

(* zmq::poll throws error_t on ETERM and EINTR, and the loop has no        *)
(* handler around it: the exception leaves the thread and ends the process.*)
WorkerPollThrows ==
  /\ pc[Worker] = "poll" /\ (termed \/ inbox = <<>>)
  /\ Goto(Worker, "thrown")
  /\ UNCHANGED <<ownVars, inVars, mutex, rcvtimeo, waits, termed, abused, calls>>

WorkerIdentity ==
  /\ pc[Worker] = "identity"
  /\ Takes(Worker, Head(inbox))
  /\ Goto(Worker, "frame") /\ waits' = rcvtimeo
  /\ UNCHANGED <<ownVars, mutex, rcvtimeo, termed, abused, calls>>

(* Somebody else took the frame that poll saw.                             *)
WorkerMisses ==
  /\ pc[Worker] = "identity" /\ inbox = <<>> /\ waits = "finite"
  /\ Goto(Worker, "top")
  /\ UNCHANGED <<ownVars, inVars, mutex, rcvtimeo, waits, termed, abused, calls>>

(* Mutant: m_running is cleared as well, as DealerSocket's loop does.      *)
WorkerTermed_ClearsRunning ==
  /\ pc[Worker] = "identity" /\ termed
  /\ Goto(Worker, "ended") /\ running' = FALSE
  /\ UNCHANGED <<sock, joinable, binds, inVars, mutex, rcvtimeo, waits, termed, abused, calls>>

WorkerTermed ==
  /\ pc[Worker] = "identity" /\ termed
  /\ Goto(Worker, "ended")
  /\ UNCHANGED <<ownVars, inVars, mutex, rcvtimeo, waits, termed, abused, calls>>

(* Mutant: the loop takes two frames, as Recv does.                        *)
WorkerFrame_OnlyOne ==
  /\ pc[Worker] = "frame"
  /\ Takes(Worker, Head(inbox))
  /\ Goto(Worker, "count") /\ waits' = rcvtimeo
  /\ UNCHANGED <<ownVars, mutex, rcvtimeo, termed, abused, calls>>

WorkerFrame ==
  /\ pc[Worker] = "frame"
  /\ Takes(Worker, Head(inbox))
  /\ Goto(Worker, IF Head(inbox).more THEN "frame" ELSE "count") /\ waits' = rcvtimeo
  /\ UNCHANGED <<ownVars, mutex, rcvtimeo, termed, abused, calls>>

WorkerEndsEmpty ==
  /\ pc[Worker] = "frame" /\ inbox = <<>> /\ waits = "finite"
  /\ held' = [held EXCEPT ![Worker] = Append(@, Nothing)]
  /\ Goto(Worker, "count")
  /\ UNCHANGED <<ownVars, stream, inbox, handed, mutex, rcvtimeo, waits, termed, abused, calls>>

(* recv fails: counted under the mutex.  The payload frames read so far    *)
(* are handed over; an identity alone is not.                              *)
WorkerFails ==
  /\ mutex = None
  /\ \/ /\ pc[Worker] = "identity" /\ inbox = <<>>
        /\ Goto(Worker, "top") /\ UNCHANGED inVars
     \/ /\ pc[Worker] = "frame" /\ (termed \/ inbox = <<>>)
        /\ IF Len(held[Worker]) > 1 THEN Goto(Worker, "count") /\ UNCHANGED inVars
                                    ELSE Goto(Worker, "top") /\ Discards(Worker)
  /\ UNCHANGED <<ownVars, mutex, rcvtimeo, waits, termed, abused, calls>>

WorkerCount ==
  /\ pc[Worker] = "count" /\ mutex = None
  /\ HandsOver(Worker) /\ Goto(Worker, "handle")
  /\ UNCHANGED <<ownVars, mutex, rcvtimeo, waits, termed, abused, calls>>

(* Mutant: the loop ends after a message.                                  *)
WorkerHandled_EndsLoop ==
  /\ pc[Worker] = "handle"
  /\ Goto(Worker, "ended")
  /\ UNCHANGED <<ownVars, inVars, mutex, rcvtimeo, waits, termed, abused, calls>>

(* The handler returns, or calls SendTo and returns.                       *)
WorkerHandled ==
  /\ pc[Worker] = "handle"
  /\ Goto(Worker, "top") \/ Goto(Worker, "reply")
  /\ UNCHANGED <<ownVars, inVars, mutex, rcvtimeo, waits, termed, abused, calls>>

WorkerReplies ==
  /\ pc[Worker] = "reply" /\ mutex = None
  /\ Goto(Worker, "top")
  /\ UNCHANGED <<ownVars, inVars, mutex, rcvtimeo, waits, termed, abused, calls>>

WorkerStep ==
  \/ WorkerTop \/ WorkerGrab \/ WorkerPolls \/ WorkerIdentity \/ WorkerMisses \/ WorkerTermed
  \/ WorkerFrame \/ WorkerEndsEmpty \/ WorkerCount \/ WorkerHandled \/ WorkerReplies

-----------------------------------------------------------------------------
(* The peers and the end of the process.                                   *)

Arrived == Cardinality({f.msg : f \in ToSet(stream)})

(* A message comes in whole.                                               *)
Arrive ==
  /\ sock /\ ~termed /\ Arrived < MaxIn
  /\ \E k \in 1..MaxParts :
       /\ stream' = stream \o Message(Arrived + 1, k)
       /\ inbox' = inbox \o Message(Arrived + 1, k)
  /\ UNCHANGED <<ownVars, held, handed, mutex, rcvtimeo, waits, pc, termed, abused, calls>>

Terminate ==
  /\ ~termed /\ termed' = TRUE
  /\ UNCHANGED <<ownVars, inVars, mutex, rcvtimeo, waits, pc, abused, calls>>

-----------------------------------------------------------------------------
(* An exception that leaves a thread calls std::terminate.                 *)
Crashed == pc[Worker] = "thrown"

Next ==
  /\ ~Crashed
  /\ \/ Bind \/ StartBackground \/ StopJoin \/ UnbindClose
     \/ StopBegin("stopping") \/ StopBegin("unbinding")
     \/ \E t \in Threads : RecvBegin(t) \/ RecvStep(t) \/ RecvFails(t)
     \/ WorkerStep \/ WorkerPollThrows \/ WorkerFails
     \/ Arrive \/ Terminate

Spec == Init /\ [][Next]_vars

(* Threads are scheduled and a call that can return does; a Stop or Unbind *)
(* that was begun is carried through.  Nothing makes a thread call, a      *)
(* message arrive, a signal or the end of the context come.                *)
Fairness ==
  /\ WF_vars(WorkerStep \/ (termed /\ (WorkerPollThrows \/ WorkerFails)))
  /\ \A t \in Threads : WF_vars(~Crashed /\ (RecvStep(t) \/ (termed /\ RecvFails(t))))
  /\ WF_vars(~Crashed /\ StopJoin)

FairSpec == Spec /\ Fairness

-----------------------------------------------------------------------------
(* Properties.                                                             *)

Receiving == Phase1 \cup Phase2 \cup {"RecvAll return"}

WorkerLabels == {"off", "top", "grab", "poll", "identity", "frame", "count", "handle",
                 "reply", "ended", "thrown"}

TypePcs ==
  /\ pc \in [All -> WorkerLabels \cup Receiving \cup {"idle", "stopping", "unbinding", "close"}]
  /\ pc[Worker] \in WorkerLabels
  /\ \A t \in Threads : pc[t] \in Receiving \cup {"idle"} \cup
                          (IF t = Owner THEN {"stopping", "unbinding", "close"} ELSE {})

(* The mutex is held by exactly the thread inside Recv or RecvAll, and a   *)
(* thread holds frames only while it reads a message.                      *)
MutexHeld ==
  /\ mutex \in Threads \cup {None}
  /\ \A t \in Threads : /\ mutex = t <=> pc[t] \in Receiving
                        /\ held[t] # NoFrames => pc[t] \in Phase2 \cup {"RecvAll return"}
  /\ held[Worker] # NoFrames => pc[Worker] \in {"frame", "count"}

TypeFlags ==
  /\ sock \in BOOLEAN /\ running \in BOOLEAN /\ joinable \in BOOLEAN
  /\ termed \in BOOLEAN /\ abused \in BOOLEAN
  /\ rcvtimeo \in {"finite", "infinite"} /\ waits \in {"finite", "infinite"}
  /\ calls \in 0..MaxCalls /\ binds \in 0..MaxBinds

TypeFrames ==
  /\ stream \in Seq(Frame) /\ inbox \in Seq(Frame)
  /\ held \in [All -> Frames] /\ handed \in Seq(Frames)

(* Every variable keeps its type, and threads, mutex and frames agree.     *)
TypeOK == TypePcs /\ MutexHeld /\ TypeFlags /\ TypeFrames

(* The background thread uses a raw pointer to the socket without the      *)
(* mutex: while it is in its loop the socket exists, and Stop is still to  *)
(* join it, so that no handler runs after Unbind has returned.             *)
WorkerOutlived ==
  /\ pc[Worker] # "off" => joinable
  /\ pc[Worker] \notin {"off", "ended", "thrown"} => sock

(* Stop returns at once when m_running is false (zmq_router.cpp:215): it   *)
(* never leaves behind a std::thread that nobody joins, not even when the  *)
(* loop ended by itself.                                                   *)
StopLeavesNone == joinable <=> running \/ pc[Owner] \in {"stopping", "unbinding"}

Whole(m) ==
  /\ m # <<>>
  /\ m = Message(m[1].msg, Len(m) - 1)

(* The background thread runs only with its socket, and is never left      *)
(* unjoined (zmq_router.cpp:56-64, 213-222).                               *)
ThreadKept == WorkerOutlived /\ StopLeavesNone

(* "frames holds all frames after the identity, in the order of the        *)
(* sender" (zmq_options.h:40): what a handler or a caller gets is one      *)
(* message, whole, from its identity to its last frame, and it is the next *)
(* one that arrived.  Not so when the context ends or a call was made that *)
(* the documentation rules out.                                            *)
MessagesWhole ==
  termed \/ abused \/
    \A i \in 1..Len(handed) : Whole(handed[i]) /\ handed[i][1].msg = i

(* In the same cases, no frame is lost: what arrived was handed over, or a *)
(* thread has it of the message it reads, or it waits in the socket; by    *)
(* Recv, RecvAll and the background thread in any succession, with Stop    *)
(* and restart in between.                                                 *)
StreamConserved ==
  termed \/ abused \/
    ToSet(stream) = (UNION {ToSet(handed[i]) : i \in 1..Len(handed)}) \cup
                    (UNION {ToSet(held[t]) : t \in All}) \cup ToSet(inbox)

(* What arrives is handed over whole, in order and once.                   *)
HandedOver == MessagesWhole /\ StreamConserved

(* The poll time-out is there "to respond to the stop signal"              *)
(* (zmq_router.cpp:234): Stop and Unbind finish their join.                *)
StopReturns ==
  pc[Owner] \in {"stopping", "unbinding"} ~>
    (pc[Owner] \in {"idle", "close"} \/ Crashed \/ abused)

(* While the background thread is meant to run, the socket does not keep   *)
(* messages waiting, whatever the handlers send.                           *)
MessagesHandled ==
  (inbox # <<>> /\ running) ~> (inbox = <<>> \/ ~running \/ termed \/ Crashed \/ abused)

(* "ETERM: log_info and leave the loop quietly" (DESIGN.md:117): the end   *)
(* of the context never ends the process through the background thread.    *)
QuietOnTerm == Crashed => ~termed

(* "Thread-safe: every socket operation is protected by the mutex"         *)
(* (README.md:150): messages are whole also when threads call Recv or      *)
(* RecvAll beside the background thread, every message being two frames.   *)
WholeBesideThread == termed \/ \A i \in 1..Len(handed) : Whole(handed[i])
=============================================================================
