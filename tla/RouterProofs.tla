---------------------------- MODULE RouterProofs ----------------------------
(***************************************************************************)
(* Theorems about module RouterSocket, for any number of threads, messages *)
(* and frames.                                                             *)
(***************************************************************************)
EXTENDS RouterSocket, FiniteSetTheorems, SequenceTheorems, TLAPS

USE ThreadsAssumption

(* Stop and Unbind have cleared m_running, Unbind closes after the join.   *)
Halted ==
  /\ pc[Owner] \in {"stopping", "unbinding", "close"} => ~running
  /\ pc[Owner] = "close" => ~joinable

(* Who is where, and who holds the mutex, the socket and frames.           *)
Control == TypePcs /\ MutexHeld /\ TypeFlags /\ ThreadKept /\ Halted

Inv == Control /\ TypeFrames

-----------------------------------------------------------------------------
(* What messages are made of.                                              *)

LEMMA MessageType ==
  ASSUME NEW n \in 1..MaxIn, NEW k \in 1..MaxParts
  PROVE  /\ Message(n, k) \in Seq(Frame)
         /\ Len(Message(n, k)) = k + 1
         /\ \A i \in 1..(k + 1) : Message(n, k)[i].msg = n /\ Message(n, k)[i].part = i - 1
         /\ \A i \in 1..k : Message(n, k)[i].more
         /\ ~Message(n, k)[k + 1].more
<1> DEFINE m == [i \in 1..(k + 1) |-> [msg |-> n, part |-> i - 1, more |-> i <= k]]
<1>1. k + 1 \in Nat
  OBVIOUS
<1>2. \A i \in 1..(k + 1) : [msg |-> n, part |-> i - 1, more |-> i <= k] \in Frame
  BY BoundsAssumption DEF Frame
<1>3. m \in Seq(Frame) /\ Len(m) = k + 1
  BY <1>1, <1>2, IsASeq
<1>4. \A i \in 1..(k + 1) : m[i].msg = n /\ m[i].part = i - 1
  OBVIOUS
<1>5. \A i \in 1..(k + 1) : m[i].more <=> i <= k
  OBVIOUS
<1>6. k \in Nat
  BY BoundsAssumption
<1>7. (\A i \in 1..k : i \in 1..(k + 1) /\ i <= k) /\ k + 1 \in 1..(k + 1) /\ ~(k + 1 <= k)
  BY <1>6
<1>8. (\A i \in 1..k : m[i].more) /\ ~m[k + 1].more
  BY <1>5, <1>7
<1>9. m = Message(n, k)
  BY DEF Message
<1> HIDE DEF m
<1> QED
  BY <1>3, <1>4, <1>8, <1>9

LEMMA ArrivedType ==
  ASSUME stream \in Seq(Frame)
  PROVE  Arrived \in Nat
<1>1. \A f \in ToSet(stream) : f \in Frame
  BY DEF ToSet
<1>2. \A f \in Frame : f.msg \in 1..MaxIn
  BY DEF Frame
<1>3. {f.msg : f \in ToSet(stream)} \in SUBSET (1..MaxIn)
  BY <1>1, <1>2
<1>4. IsFiniteSet(1..MaxIn)
  BY BoundsAssumption, FS_Interval
<1> QED
  BY <1>3, <1>4, FS_Subset, FS_CardinalityType DEF Arrived

LEMMA FramesType ==
  /\ NoFrames \in Frames
  /\ \A h \in Frames, f \in Frame \cup {Nothing} :
       /\ Append(h, f) \in Frames /\ Append(h, f) # NoFrames /\ Len(Append(h, f)) = Len(h) + 1
       /\ Append(h, f)[Len(h) + 1] = f
       /\ \A i \in 1..Len(h) : Append(h, f)[i] = h[i]
  BY AppendProperties DEF Frames, NoFrames

LEMMA InboxType ==
  ASSUME TypeFrames, inbox # <<>>
  PROVE  /\ Head(inbox) \in Frame /\ Head(inbox) = inbox[1]
         /\ Tail(inbox) \in Seq(Frame) /\ Len(Tail(inbox)) = Len(inbox) - 1
         /\ \A i \in 1..(Len(inbox) - 1) : Tail(inbox)[i] = inbox[i + 1]
  BY HeadTailProperties DEF TypeFrames

(* Taking a frame keeps the types of what is left and of what is held.     *)
LEMMA TakesType ==
  ASSUME TypeFrames, NEW t \in All, Takes(t, Head(inbox))
  PROVE  /\ TypeFrames'
         /\ held'[t] # NoFrames
         /\ \A u \in All \ {t} : held'[u] = held[u]
<1>1. inbox # <<>> /\ held[t] \in Frames
  BY DEF TypeFrames, Takes
<1> QED
  BY <1>1, InboxType, FramesType DEF Takes, TypeFrames

-----------------------------------------------------------------------------
LEMMA InvInit == Init => Inv
<1> SUFFICES ASSUME Init PROVE Inv
  OBVIOUS
<1> USE DEF Init, All
<1>1. TypePcs /\ MutexHeld
  <2>1. TypePcs
    BY DEF TypePcs, WorkerLabels
  <2>2. MutexHeld
    BY DEF MutexHeld, Receiving, Phase1, Phase2
  <2> QED
    BY <2>1, <2>2
<1>2. TypeFlags
  <2>1. 0 \in 0..MaxCalls /\ 0 \in 0..MaxBinds
    BY BoundsAssumption
  <2> QED
    BY <2>1 DEF TypeFlags
<1>3. TypeFrames
  BY FramesType DEF TypeFrames
<1>4. ThreadKept /\ Halted
  BY DEF ThreadKept, WorkerOutlived, StopLeavesNone, Halted
<1> QED
  BY <1>1, <1>2, <1>3, <1>4 DEF Inv, Control

LEMMA Counted ==
  ASSUME TypeFlags
  PROVE  /\ Bind => binds + 1 \in 0..MaxBinds
         /\ \A t : RecvBegin(t) => calls' \in 0..MaxCalls
  BY BoundsAssumption DEF TypeFlags, Bind, RecvBegin

LEMMA OwnerControl ==
  ASSUME Inv,
         Bind \/ StartBackground \/ StopBegin("stopping") \/ StopBegin("unbinding")
              \/ StopJoin \/ UnbindClose
  PROVE  Control'
<1> USE DEF Inv, Control, TypePcs, MutexHeld, TypeFlags, ThreadKept, WorkerOutlived, StopLeavesNone,
            Halted, All, WorkerLabels, Receiving, Phase1, Phase2, Goto, ownVars
<1>0. held \in [All -> Frames]
  BY DEF TypeFrames
<1>1. CASE Bind
  <2>1. binds + 1 \in 0..MaxBinds
    BY <1>1, Counted
  <2> QED
    BY <1>0, <1>1, <2>1 DEF Bind
<1>2. CASE StartBackground
  BY <1>0, <1>2 DEF StartBackground, inVars
<1>3. CASE StopBegin("stopping")
  BY <1>0, <1>3 DEF StopBegin, inVars
<1>4. CASE StopBegin("unbinding")
  BY <1>0, <1>4 DEF StopBegin, inVars
<1>5. CASE StopJoin
  <2>1. /\ pc'[Owner] \in {"idle", "close"} /\ pc'[Worker] = "off"
        /\ \A t \in Threads \ {Owner} : pc'[t] = pc[t]
        /\ pc' \in [All -> WorkerLabels \cup Receiving \cup {"idle", "stopping", "unbinding", "close"}]
    BY <1>5 DEF StopJoin
  <2>2. /\ joinable' = FALSE /\ ~running /\ ~running'
        /\ pc[Worker] \in {"off", "ended"} /\ held' = held /\ mutex' = mutex
    BY <1>5 DEF StopJoin, inVars
  <2>3. TypePcs'
    BY <2>1
  <2>4. MutexHeld'
    BY <1>0, <1>5, <2>1, <2>2 DEF StopJoin
  <2>5. (TypeFlags /\ ThreadKept /\ Halted)'
    BY <1>5, <2>1, <2>2 DEF StopJoin
  <2> QED
    BY <2>3, <2>4, <2>5
<1>6. CASE UnbindClose
  BY <1>0, <1>6 DEF UnbindClose
<1> QED
  BY <1>1, <1>2, <1>3, <1>4, <1>5, <1>6

LEMMA CallControl ==
  ASSUME Inv, NEW t \in Threads, RecvBegin(t) \/ RecvStep(t) \/ RecvFails(t)
  PROVE  Control'
<1> USE DEF Inv, Control, TypePcs, MutexHeld, TypeFlags, ThreadKept, WorkerOutlived, StopLeavesNone,
            Halted, All, WorkerLabels, Receiving, Phase1, Phase2, Goto, ownVars, Release
<1>0. held \in [All -> Frames]
  BY DEF TypeFrames
<1>1. CASE RecvBegin(t)
  <2>1. calls' \in 0..MaxCalls
    BY <1>1, Counted
  <2>2. CASE ~sock /\ UNCHANGED <<mutex, pc, rcvtimeo, abused>>
    BY <1>0, <1>1, <2>1, <2>2 DEF RecvBegin, inVars
  <2>3. CASE sock /\ mutex' = t /\ (\E label \in Phase1 : Goto(t, label))
    <3>1. rcvtimeo' \in {"finite", "infinite"} /\ abused' \in BOOLEAN
      BY <1>1, <2>3, TimeoutsAssumption DEF RecvBegin
    <3>2. PICK label \in Phase1 : Goto(t, label)
      BY <2>3
    <3> QED
      BY <1>0, <1>1, <2>1, <2>3, <3>1, <3>2 DEF RecvBegin, inVars
  <2> QED
    BY <1>1, <2>2, <2>3 DEF RecvBegin
<1>2. CASE RecvIdentity(t)
  <2>1. /\ held' \in [All -> Frames] /\ held'[t] # NoFrames
        /\ \A u \in All \ {t} : held'[u] = held[u]
    BY <1>2, TakesType DEF RecvIdentity, TypeFrames
  <2> QED
    BY <1>0, <1>2, <2>1 DEF RecvIdentity
<1>3. CASE RecvPayload(t)
  <2>1. Head(inbox).more \in BOOLEAN
    BY <1>3, InboxType DEF RecvPayload, Frame
  <2> QED
    BY <1>0, <1>3, <2>1 DEF RecvPayload
<1>4. CASE RecvFrame(t)
  <2>1. /\ held' \in [All -> Frames] /\ held'[t] # NoFrames
        /\ \A u \in All \ {t} : held'[u] = held[u]
    BY <1>4, TakesType DEF RecvFrame, TypeFrames
  <2> QED
    BY <1>0, <1>4, <2>1 DEF RecvFrame
<1>5. CASE RecvAllReturns(t)
  BY <1>0, <1>5 DEF RecvAllReturns, HandsOver
<1>6. CASE RecvTimesOut(t)
  BY <1>0, <1>6 DEF RecvTimesOut, inVars
<1>7. CASE RecvEndsEmpty(t)
  BY <1>0, <1>7 DEF RecvEndsEmpty
<1>8. CASE RecvFails(t)
  <2>1. /\ held' = [held EXCEPT ![t] = NoFrames] /\ mutex' = None /\ pc' = [pc EXCEPT ![t] = "idle"]
        /\ pc[t] \in Receiving
        /\ UNCHANGED <<sock, running, joinable, rcvtimeo, waits, termed, abused, calls, binds>>
    BY <1>8 DEF RecvFails, Discards
  <2>2. TypePcs'
    BY <1>0, <2>1
  <2>3. MutexHeld'
    BY <1>0, <2>1
  <2>4. TypeFlags'
    BY <2>1
  <2>5. ThreadKept'
    BY <1>0, <2>1
  <2>6. Halted'
    BY <1>0, <2>1
  <2> QED
    BY <2>2, <2>3, <2>4, <2>5, <2>6
<1> QED
  BY <1>1, <1>2, <1>3, <1>4, <1>5, <1>6, <1>7, <1>8 DEF RecvStep

LEMMA WorkerControl ==
  ASSUME Inv, WorkerStep \/ WorkerPollThrows \/ WorkerFails
  PROVE  Control'
<1> USE DEF Inv, Control, TypePcs, MutexHeld, TypeFlags, ThreadKept, WorkerOutlived, StopLeavesNone,
            Halted, All, WorkerLabels, Receiving, Phase1, Phase2, Goto, ownVars
<1>0. held \in [All -> Frames]
  BY DEF TypeFrames
<1>1. CASE WorkerTop
  BY <1>0, <1>1 DEF WorkerTop, inVars
<1>2. CASE WorkerGrab
  BY <1>0, <1>2 DEF WorkerGrab, inVars
<1>3. CASE WorkerPolls
  BY <1>0, <1>3 DEF WorkerPolls, inVars
<1>4. CASE WorkerPollThrows
  BY <1>0, <1>4 DEF WorkerPollThrows, inVars
<1>5. CASE WorkerIdentity
  <2>1. /\ held' \in [All -> Frames] /\ held'[Worker] # NoFrames
        /\ \A u \in All \ {Worker} : held'[u] = held[u]
    BY <1>5, TakesType DEF WorkerIdentity, TypeFrames
  <2> QED
    BY <1>0, <1>5, <2>1 DEF WorkerIdentity
<1>6. CASE WorkerMisses
  BY <1>0, <1>6 DEF WorkerMisses, inVars
<1>7. CASE WorkerTermed
  BY <1>0, <1>7 DEF WorkerTermed, inVars
<1>8. CASE WorkerFrame
  <2>1. /\ held' \in [All -> Frames] /\ held'[Worker] # NoFrames
        /\ \A u \in All \ {Worker} : held'[u] = held[u]
    BY <1>8, TakesType DEF WorkerFrame, TypeFrames
  <2> QED
    BY <1>0, <1>8, <2>1 DEF WorkerFrame
<1>9. CASE WorkerEndsEmpty
  BY <1>0, <1>9 DEF WorkerEndsEmpty
<1>10. CASE WorkerFails
  <2>1. CASE pc[Worker] = "identity" /\ Goto(Worker, "top") /\ UNCHANGED inVars
    BY <1>0, <1>10, <2>1 DEF WorkerFails, inVars
  <2>2. CASE pc[Worker] = "frame" /\ Goto(Worker, "count") /\ UNCHANGED inVars
    BY <1>0, <1>10, <2>2 DEF WorkerFails, inVars
  <2>3. CASE Goto(Worker, "top") /\ Discards(Worker)
    BY <1>0, <1>10, <2>3 DEF WorkerFails, Discards
  <2> QED
    BY <1>10, <2>1, <2>2, <2>3 DEF WorkerFails
<1>11. CASE WorkerCount
  BY <1>0, <1>11 DEF WorkerCount, HandsOver
<1>12. CASE WorkerHandled
  BY <1>0, <1>12 DEF WorkerHandled, inVars
<1>13. CASE WorkerReplies
  BY <1>0, <1>13 DEF WorkerReplies, inVars
<1> QED
  BY <1>1, <1>2, <1>3, <1>4, <1>5, <1>6, <1>7, <1>8, <1>9, <1>10, <1>11, <1>12, <1>13
     DEF WorkerStep

LEMMA OtherControl ==
  ASSUME Inv, Arrive \/ Terminate \/ UNCHANGED vars
  PROVE  Control'
<1> USE DEF Inv, Control, TypePcs, MutexHeld, TypeFlags, ThreadKept, WorkerOutlived, StopLeavesNone,
            Halted, ownVars
<1>1. CASE Arrive
  BY <1>1 DEF Arrive
<1>2. CASE Terminate
  BY <1>2 DEF Terminate, inVars
<1>3. CASE UNCHANGED vars
  BY <1>3 DEF vars, inVars
<1> QED
  BY <1>1, <1>2, <1>3

-----------------------------------------------------------------------------
(* The frames keep their types.                                            *)
LEMMA FramesNext ==
  ASSUME Inv, [Next]_vars
  PROVE  TypeFrames'
<1> USE DEF Inv
<1>1. CASE \/ Bind \/ StartBackground \/ StopBegin("stopping") \/ StopBegin("unbinding")
           \/ StopJoin \/ UnbindClose \/ Terminate \/ UNCHANGED vars
  <2>0. <<>> \in Seq(Frame) /\ <<>> \in Seq(Frames)
    OBVIOUS
  <2>1. CASE Bind \/ UnbindClose
    <3>1. /\ stream' \in Seq(Frame) /\ handed' \in Seq(Frames)
          /\ inbox' = inbox \/ inbox' = <<>>
          /\ held' = held
      BY <2>0, <2>1 DEF Bind, UnbindClose
    <3> QED
      BY <2>0, <3>1 DEF TypeFrames
  <2>2. CASE StartBackground \/ StopJoin \/ Terminate \/ UNCHANGED vars
    BY <2>2 DEF StartBackground, StopJoin, Terminate, TypeFrames, inVars, vars
  <2>3. CASE StopBegin("stopping") \/ StopBegin("unbinding")
    BY <2>3 DEF StopBegin, TypeFrames, inVars
  <2> QED
    BY <1>1, <2>1, <2>2, <2>3
<1>2. ASSUME NEW t \in Threads, RecvBegin(t) \/ RecvStep(t) \/ RecvFails(t)
      PROVE  TypeFrames'
  <2>0. t \in All /\ held[t] \in Frames
    BY DEF All, TypeFrames
  <2>1. CASE RecvBegin(t) \/ RecvTimesOut(t)
    BY <2>1 DEF RecvBegin, RecvTimesOut, TypeFrames, inVars
  <2>2. CASE RecvIdentity(t) \/ RecvFrame(t)
    BY <2>0, <2>2, TakesType DEF RecvIdentity, RecvFrame
  <2>3. CASE RecvPayload(t)
    <3>1. Append(held[t], Head(inbox)) \in Frames /\ Tail(inbox) \in Seq(Frame)
      BY <2>0, <2>3, InboxType, FramesType DEF RecvPayload
    <3>2. Append(handed, Append(held[t], Head(inbox))) \in Seq(Frames)
      BY <3>1, AppendProperties DEF TypeFrames
    <3> QED
      BY <2>0, <2>3, <3>1, <3>2, FramesType DEF RecvPayload, TypeFrames
  <2>4. CASE RecvAllReturns(t)
    <3>1. Append(handed, held[t]) \in Seq(Frames)
      BY <2>0, AppendProperties DEF TypeFrames
    <3> QED
      BY <2>0, <2>4, <3>1, FramesType DEF RecvAllReturns, HandsOver, TypeFrames
  <2>5. CASE RecvEndsEmpty(t)
    <3>1. Append(held[t], Nothing) \in Frames
      BY <2>0, FramesType
    <3>2. Append(handed, Append(held[t], Nothing)) \in Seq(Frames)
      BY <3>1, AppendProperties DEF TypeFrames
    <3> QED
      BY <2>0, <2>5, <3>2, FramesType DEF RecvEndsEmpty, TypeFrames
  <2>6. CASE RecvFails(t)
    BY <2>0, <2>6, FramesType DEF RecvFails, Discards, TypeFrames
  <2> QED
    BY <1>2, <2>1, <2>2, <2>3, <2>4, <2>5, <2>6 DEF RecvStep
<1>3. CASE WorkerStep \/ WorkerPollThrows \/ WorkerFails
  <2>0. Worker \in All /\ held[Worker] \in Frames
    BY DEF All, TypeFrames
  <2>1. CASE WorkerTop \/ WorkerGrab \/ WorkerPolls \/ WorkerPollThrows \/ WorkerMisses
             \/ WorkerTermed \/ WorkerHandled \/ WorkerReplies
    BY <2>1 DEF WorkerTop, WorkerGrab, WorkerPolls, WorkerPollThrows, WorkerMisses,
                WorkerTermed, WorkerHandled, WorkerReplies, TypeFrames, inVars
  <2>2. CASE WorkerIdentity \/ WorkerFrame
    BY <2>0, <2>2, TakesType DEF WorkerIdentity, WorkerFrame
  <2>3. CASE WorkerEndsEmpty
    <3>1. Append(held[Worker], Nothing) \in Frames
      BY <2>0, FramesType
    <3> QED
      BY <2>0, <2>3, <3>1 DEF WorkerEndsEmpty, TypeFrames
  <2>4. CASE WorkerCount
    <3>1. Append(handed, held[Worker]) \in Seq(Frames)
      BY <2>0, AppendProperties DEF TypeFrames
    <3> QED
      BY <2>0, <2>4, <3>1, FramesType DEF WorkerCount, HandsOver, TypeFrames
  <2>5. CASE WorkerFails
    BY <2>0, <2>5, FramesType DEF WorkerFails, Discards, TypeFrames, inVars
  <2> QED
    BY <1>3, <2>1, <2>2, <2>3, <2>4, <2>5 DEF WorkerStep
<1>4. CASE Arrive
  <2>1. PICK k \in 1..MaxParts :
          /\ stream' = stream \o Message(Arrived + 1, k)
          /\ inbox' = inbox \o Message(Arrived + 1, k)
    BY <1>4 DEF Arrive
  <2>2. Arrived + 1 \in 1..MaxIn
    BY <1>4, ArrivedType, BoundsAssumption DEF Arrive, TypeFrames
  <2>3. Message(Arrived + 1, k) \in Seq(Frame)
    BY <2>2, MessageType
  <2>4. stream' \in Seq(Frame) /\ inbox' \in Seq(Frame)
    BY <2>1, <2>3, ConcatProperties DEF TypeFrames
  <2> QED
    BY <1>4, <2>4 DEF Arrive, TypeFrames
<1> QED
  BY <1>1, <1>2, <1>3, <1>4 DEF Next

LEMMA InvNext == Inv /\ [Next]_vars => Inv'
  BY OwnerControl, CallControl, WorkerControl, OtherControl, FramesNext DEF Next, Inv

LEMMA InvAlways == Spec => []Inv
  BY InvInit, InvNext, PTL DEF Spec

(* The mutex is held by exactly the thread inside Recv or RecvAll, frames  *)
(* only by a thread that reads a message, and every variable keeps its     *)
(* type.                                                                   *)
THEOREM Typing == Spec => []TypeOK
<1>1. Inv => TypeOK
  BY DEF Inv, Control, TypeOK
<1> QED
  BY <1>1, InvAlways, PTL

(* The background thread never uses a socket that Unbind has reset, and    *)
(* Stop leaves no std::thread unjoined (zmq_router.cpp:56-64, 213-222).    *)
THEOREM ThreadSafe == Spec => []ThreadKept
<1>1. Inv => ThreadKept
  BY DEF Inv, Control
<1> QED
  BY <1>1, InvAlways, PTL
-----------------------------------------------------------------------------
(* Messages are handed over whole and in order.  The frames a thread reads *)
(* belong together because of what waits in the socket: messages one after *)
(* the other, each with its identity first, of which the first goes on     *)
(* where the one reader has stopped, or is the next message.               *)

Final(h) == h[Len(h)]

(* Frame g may come after frame f.                                         *)
Follows(f, g) == IF f.more THEN g.msg = f.msg /\ g.part = f.part + 1
                           ELSE g.msg = f.msg + 1 /\ g.part = 0

Chained(s) ==
  /\ \A i \in 1..(Len(s) - 1) : Follows(s[i], s[i + 1])
  /\ \A i \in 1..Len(s) : s[i].part = 0 => s[i].more
  /\ s # <<>> => ~Final(s).more

(* h is message n up to some frame.                                        *)
Beginning(h, n) ==
  \A i \in 1..Len(h) : /\ h[i] \in Frame /\ h[i].msg = n /\ h[i].part = i - 1
                       /\ i < Len(h) => h[i].more

(* Of message n the frames h were read; s is left, to the end of message a.*)
Continues(h, n, s, a) ==
  /\ h = NoFrames => IF s = <<>> THEN a = n - 1 ELSE s[1].msg = n /\ s[1].part = 0
  /\ h # NoFrames => /\ Beginning(h, n)
                     /\ IF s = <<>> THEN ~Final(h).more /\ a = n ELSE Follows(Final(h), s[1])
  /\ s # <<>> => Final(s).msg = a

Reading(t) ==
  /\ pc[t] \in Phase2 \cup {"RecvAll return", "frame", "count"} => held[t] # NoFrames
  /\ held[t] # NoFrames => (Final(held[t]).more <=> pc[t] \notin {"RecvAll return", "count"})

OneReader == joinable => mutex = None

Numbered == {f.msg : f \in ToSet(stream)} = 1..Arrived

Position == \E t \in All : /\ \A u \in All \ {t} : held[u] = NoFrames
                           /\ Continues(held[t], Len(handed) + 1, inbox, Arrived)

Ordered ==
  /\ OneReader /\ \A t \in All : Reading(t)
  /\ Chained(inbox) /\ Numbered /\ Position
  /\ \A i \in 1..Len(handed) : Whole(handed[i]) /\ handed[i][1].msg = i

-----------------------------------------------------------------------------
(* About frames in general.                                                *)

LEMMA WholeMessage ==
  ASSUME NEW h \in Frames, NEW n \in Nat, h # NoFrames, Beginning(h, n), ~Final(h).more
  PROVE  Whole(h) /\ h[1].msg = n
<1>1. h \in Seq(Frame \cup {Nothing}) /\ h # <<>>
  BY DEF Frames, NoFrames
<1>2. Len(h) \in Nat /\ Len(h) >= 1
  BY <1>1, EmptySeq, LenProperties
<1>3. h[1].msg = n
  BY <1>2 DEF Beginning
<1>4. ASSUME NEW i \in 1..Len(h)
      PROVE  h[i] = [msg |-> n, part |-> i - 1, more |-> i <= Len(h) - 1]
  <2>1. h[i] \in Frame /\ h[i].msg = n /\ h[i].part = i - 1 /\ (i < Len(h) => h[i].more)
    BY <1>2 DEF Beginning
  <2>2. h[i].more = (i <= Len(h) - 1)
    <3>1. CASE i = Len(h)
      BY <2>1, <3>1, <1>2 DEF Final, Frame
    <3>2. CASE i # Len(h)
      <4>1. i < Len(h) /\ i <= Len(h) - 1
        BY <1>2, <1>4, <3>2
      <4>2. h[i].more = TRUE
        BY <2>1, <4>1 DEF Frame
      <4> QED
        BY <4>1, <4>2
    <3> QED
      BY <3>1, <3>2
  <2> QED
    BY <2>1, <2>2 DEF Frame
<1>5. h = [i \in 1..Len(h) |-> h[i]]
  BY <1>1, <1>2
<1>6. h = [i \in 1..Len(h) |-> [msg |-> n, part |-> i - 1, more |-> i <= Len(h) - 1]]
  BY <1>4, <1>5
<1>7. Len(h) - 1 + 1 = Len(h)
  BY <1>2
<1> QED
  BY <1>1, <1>3, <1>6, <1>7 DEF Whole, Message

(* Taking the first frame of what is left.                                 *)
LEMMA TakeFirst ==
  ASSUME NEW s \in Seq(Frame), s # <<>>, Chained(s), NEW h \in Frames, NEW n \in Nat, NEW a \in Nat,
         Continues(h, n, s, a), h # NoFrames => Final(h).more
  PROVE  /\ Chained(Tail(s)) /\ Continues(Append(h, s[1]), n, Tail(s), a)
         /\ Append(h, s[1]) # NoFrames /\ Final(Append(h, s[1])) = s[1]
<1> DEFINE g == Append(h, s[1])
           r == Tail(s)
<1>1. /\ Len(s) \in Nat /\ Len(s) >= 1 /\ \A i \in 1..Len(s) : s[i] \in Frame
      /\ r \in Seq(Frame) /\ Len(r) = Len(s) - 1 /\ \A i \in 1..Len(r) : r[i] = s[i + 1]
  BY EmptySeq, LenProperties, ElementOfSeq, HeadTailProperties
<1>2. /\ Len(h) \in Nat /\ g \in Frames /\ g # NoFrames /\ Len(g) = Len(h) + 1 /\ g[Len(h) + 1] = s[1]
      /\ \A i \in 1..Len(h) : g[i] = h[i]
  <2>1. Len(h) \in Nat
    BY LenProperties DEF Frames
  <2>2. s[1] \in Frame \cup {Nothing}
    BY <1>1
  <2> QED
    BY <2>1, <2>2, FramesType
<1>3. r = <<>> <=> Len(s) = 1
  <2>1. r = <<>> <=> Len(r) = 0
    BY <1>1, EmptySeq
  <2> QED
    BY <1>1, <2>1
<1>4. Final(g) = s[1]
  BY <1>2 DEF Final
<1>5. r # <<>> => Final(r) = Final(s) /\ r[1] = s[2] /\ Len(r) >= 1
  BY <1>1, <1>3 DEF Final
<1>6. Chained(r)
  <2>1. ASSUME NEW i \in 1..(Len(r) - 1) PROVE Follows(r[i], r[i + 1])
    <3>1. i + 1 \in 1..(Len(s) - 1) /\ r[i] = s[i + 1] /\ r[i + 1] = s[i + 1 + 1]
      BY <1>1
    <3> QED
      BY <3>1 DEF Chained
  <2>2. ASSUME NEW i \in 1..Len(r), r[i].part = 0 PROVE r[i].more
    BY <1>1, <2>2 DEF Chained
  <2> QED
    BY <1>3, <1>5, <2>1, <2>2 DEF Chained
<1>7. s[1].msg = n /\ s[1].part = Len(h) /\ (h # NoFrames => Beginning(h, n) /\ Final(h).more)
  <2>1. CASE h = NoFrames
    BY <2>1 DEF Continues, NoFrames
  <2>2. CASE h # NoFrames
    <3>1. Len(h) >= 1
      BY <2>2, <1>2, EmptySeq DEF Frames, NoFrames
    <3>2. /\ Beginning(h, n) /\ Follows(Final(h), s[1])
          /\ Final(h).msg = n /\ Final(h).part = Len(h) - 1
      BY <2>2, <3>1, <1>2 DEF Continues, Beginning, Final
    <3> QED
      BY <1>2, <2>2, <3>1, <3>2 DEF Follows
  <2> QED
    BY <2>1, <2>2
<1>8. Beginning(g, n)
  BY <1>1, <1>2, <1>7 DEF Beginning, Final, NoFrames
<1>9. r # <<>> => Follows(Final(g), r[1])
  BY <1>1, <1>3, <1>4, <1>5 DEF Chained
<1>10. r = <<>> => ~Final(g).more /\ a = n
  BY <1>1, <1>3, <1>4, <1>7 DEF Chained, Continues, Final
<1>11. r # <<>> => Final(r).msg = a
  BY <1>5 DEF Continues
<1> QED
  BY <1>2, <1>4, <1>6, <1>8, <1>9, <1>10, <1>11 DEF Continues

(* A message that was read to its end is handed over.                      *)
LEMMA HandOff ==
  ASSUME NEW h \in Frames, h # NoFrames, NEW n \in Nat, NEW s \in Seq(Frame), NEW a \in Nat,
         Continues(h, n, s, a), ~Final(h).more
  PROVE  Whole(h) /\ h[1].msg = n /\ Continues(NoFrames, n + 1, s, a)
<1>1. Beginning(h, n)
  BY DEF Continues
<1>2. Len(h) \in Nat /\ Len(h) >= 1
  BY EmptySeq, LenProperties DEF Frames, NoFrames
<1>3. Final(h).msg = n
  BY <1>1, <1>2 DEF Beginning, Final
<1>4. s = <<>> => a = n + 1 - 1
  BY DEF Continues
<1>5. s # <<>> => s[1].msg = n + 1 /\ s[1].part = 0 /\ Final(s).msg = a
  BY <1>3 DEF Continues, Follows
<1> QED
  BY <1>1, <1>4, <1>5, WholeMessage DEF Continues

(* A message that arrives goes on where the last one ended.                *)
LEMMA Extended ==
  ASSUME NEW s \in Seq(Frame), Chained(s), NEW h \in Frames, NEW n \in Nat, NEW a \in Nat,
         Continues(h, n, s, a), a + 1 \in 1..MaxIn, NEW k \in 1..MaxParts
  PROVE  Chained(s \o Message(a + 1, k)) /\ Continues(h, n, s \o Message(a + 1, k), a + 1)
<1> DEFINE m == Message(a + 1, k)
           c == s \o m
<1>1. /\ m \in Seq(Frame) /\ Len(m) = k + 1 /\ k \in Nat /\ k >= 1
      /\ \A i \in 1..(k + 1) : m[i].msg = a + 1 /\ m[i].part = i - 1
      /\ \A i \in 1..k : m[i].more
      /\ ~m[k + 1].more
  <2>1. k \in Nat /\ k >= 1
    BY BoundsAssumption
  <2> QED
    BY <2>1, MessageType
<1>2. Len(s) \in Nat
  BY LenProperties
<1>3. /\ c \in Seq(Frame) /\ Len(c) = Len(s) + k + 1
      /\ \A i \in 1..Len(s) : c[i] = s[i]
      /\ \A i \in 1..(k + 1) : c[Len(s) + i] = m[i]
  <2>1. /\ c \in Seq(Frame) /\ Len(c) = Len(s) + Len(m)
        /\ \A i \in 1..Len(c) : c[i] = IF i <= Len(s) THEN s[i] ELSE m[i - Len(s)]
    BY <1>1, ConcatProperties
  <2>2. \A i \in 1..Len(s) : c[i] = s[i]
    BY <1>1, <1>2, <2>1
  <2>3. ASSUME NEW i \in 1..(k + 1) PROVE c[Len(s) + i] = m[i]
    <3>1. Len(s) + i \in 1..Len(c) /\ ~(Len(s) + i <= Len(s)) /\ Len(s) + i - Len(s) = i
      BY <1>1, <1>2, <2>1
    <3> QED
      BY <2>1, <3>1
  <2>4. Len(c) = Len(s) + k + 1
    <3>1. Len(c) = Len(s) + (k + 1)
      BY <1>1, <2>1
    <3> QED
      BY <1>1, <1>2, <3>1
  <2> QED
    BY <2>1, <2>2, <2>3, <2>4
<1>4. c # <<>>
  BY <1>1, <1>2, <1>3, EmptySeq
<1>5. Final(c) = m[k + 1] /\ ~Final(c).more /\ Final(c).msg = a + 1
  <2>1. k + 1 \in 1..(k + 1) /\ Len(c) = Len(s) + (k + 1)
    BY <1>1, <1>2, <1>3
  <2> QED
    BY <1>1, <1>3, <2>1 DEF Final
<1>6. s = <<>> <=> Len(s) = 0
  BY EmptySeq
<1>7. s # <<>> => ~s[Len(s)].more /\ s[Len(s)].msg = a /\ c[1] = s[1]
  BY <1>2, <1>3, <1>6 DEF Chained, Continues, Final
<1>8. ASSUME NEW i \in 1..(Len(c) - 1) PROVE Follows(c[i], c[i + 1])
  <2>1. CASE i < Len(s)
    <3>1. i \in 1..(Len(s) - 1) /\ c[i] = s[i] /\ c[i + 1] = s[i + 1]
      BY <1>2, <1>3, <2>1
    <3> QED
      BY <3>1 DEF Chained
  <2>2. CASE i = Len(s)
    <3>1. c[i] = s[Len(s)] /\ c[i + 1] = m[1] /\ s # <<>> /\ m[1].msg = a + 1 /\ m[1].part = 0
      BY <1>1, <1>2, <1>3, <1>6, <2>2
    <3> QED
      BY <1>7, <3>1 DEF Follows
  <2>3. CASE i > Len(s)
    <3>1. PICK j \in 1..k : i = Len(s) + j
      <4>1. i - Len(s) \in 1..k /\ i = Len(s) + (i - Len(s))
        BY <1>1, <1>2, <1>3, <2>3
      <4> QED
        BY <4>1
    <3>2. c[i] = m[j] /\ c[i + 1] = m[j + 1]
      <4>1. j \in 1..(k + 1) /\ j + 1 \in 1..(k + 1) /\ i + 1 = Len(s) + (j + 1)
        BY <1>1, <1>2, <3>1
      <4> QED
        BY <1>3, <3>1, <4>1
    <3>3. m[j].more /\ m[j + 1].msg = m[j].msg /\ m[j + 1].part = m[j].part + 1
      <4>1. j \in 1..(k + 1) /\ j + 1 \in 1..(k + 1) /\ (j + 1) - 1 = (j - 1) + 1
        BY <1>1
      <4> QED
        BY <1>1, <4>1
    <3> QED
      BY <3>2, <3>3 DEF Follows
  <2> QED
    BY <1>2, <2>1, <2>2, <2>3
<1>9. ASSUME NEW i \in 1..Len(c), c[i].part = 0 PROVE c[i].more
  <2>1. CASE i <= Len(s)
    BY <1>2, <1>3, <1>9, <2>1 DEF Chained
  <2>2. CASE i > Len(s)
    <3>1. i - Len(s) \in 1..(k + 1) /\ i = Len(s) + (i - Len(s))
      BY <1>1, <1>2, <1>3, <2>2
    <3>2. c[i] = m[i - Len(s)] /\ m[i - Len(s)].part = i - Len(s) - 1
      BY <1>1, <1>3, <3>1
    <3>3. i - Len(s) = 1
      BY <1>2, <1>9, <3>1, <3>2
    <3>4. 1 \in 1..k
      BY <1>1
    <3> QED
      BY <1>1, <3>2, <3>3, <3>4
  <2> QED
    BY <1>2, <2>1, <2>2
<1>10. Chained(c)
  BY <1>5, <1>8, <1>9 DEF Chained
<1>11. c[1] = IF s = <<>> THEN m[1] ELSE s[1]
  BY <1>1, <1>2, <1>3, <1>6, <1>7, SMTT(30)
<1>12. h = NoFrames => c[1].msg = n /\ c[1].part = 0
  BY <1>1, <1>11 DEF Continues
<1>13. h # NoFrames => Beginning(h, n) /\ Follows(Final(h), c[1])
  <2>1. CASE s # <<>>
    BY <1>11, <2>1 DEF Continues
  <2>2. ASSUME s = <<>>, h # NoFrames
        PROVE  Beginning(h, n) /\ Follows(Final(h), c[1])
    <3>1. Beginning(h, n) /\ ~Final(h).more /\ a = n
      BY <2>2 DEF Continues
    <3>2. Len(h) \in Nat /\ Len(h) >= 1
      BY <2>2, EmptySeq, LenProperties DEF Frames, NoFrames
    <3>3. Final(h).msg = n
      BY <3>1, <3>2 DEF Beginning, Final
    <3> QED
      BY <1>1, <1>11, <2>2, <3>1, <3>3 DEF Follows
  <2> QED
    BY <2>1, <2>2
<1> QED
  BY <1>4, <1>5, <1>10, <1>12, <1>13 DEF Continues

-----------------------------------------------------------------------------
(* About the one reader.                                                   *)

ReadLabels == Phase2 \cup {"RecvAll return", "frame", "count"}

Alone(t) == \A u \in All \ {t} : held[u] = NoFrames

LEMMA OneReads ==
  ASSUME Inv, OneReader
  PROVE  /\ \A t \in Threads : pc[t] \in Receiving => Alone(t)
         /\ pc[Worker] \notin {"off", "ended", "thrown"} => Alone(Worker)
         /\ \A t \in All : pc[t] \notin ReadLabels => held[t] = NoFrames
<1> USE DEF Inv, Control, MutexHeld, ThreadKept, WorkerOutlived, OneReader, All
<1>1. \A t \in All : pc[t] \notin ReadLabels => held[t] = NoFrames
  BY DEF ReadLabels
<1>2. ASSUME NEW t \in Threads, pc[t] \in Receiving
      PROVE  Alone(t)
  <2>1. mutex = t /\ mutex # None
    BY <1>2
  <2>2. \A u \in Threads \ {t} : pc[u] \notin Receiving
    BY <2>1
  <2>3. held[Worker] = NoFrames
    BY <2>1
  <2> QED
    BY <2>2, <2>3 DEF Alone, Receiving
<1>3. ASSUME pc[Worker] \notin {"off", "ended", "thrown"}
      PROVE  Alone(Worker)
  <2>1. mutex = None
    BY <1>3
  <2>2. \A u \in Threads : pc[u] \notin Receiving
    BY <2>1
  <2> QED
    BY <2>2 DEF Alone, Receiving
<1> QED
  BY <1>1, <1>2, <1>3

LEMMA PositionOf ==
  ASSUME Inv, Ordered, NEW t \in All, Alone(t)
  PROVE  Continues(held[t], Len(handed) + 1, inbox, Arrived)
<1>1. PICK w \in All : /\ \A u \in All \ {w} : held[u] = NoFrames
                       /\ Continues(held[w], Len(handed) + 1, inbox, Arrived)
  BY DEF Ordered, Position
<1>2. held[w] = held[t]
  BY <1>1 DEF Alone
<1> QED
  BY <1>1, <1>2

(* The types that the lemmas on frames ask for.                            *)
LEMMA DataTypes ==
  ASSUME Inv
  PROVE  /\ inbox \in Seq(Frame) /\ Arrived \in Nat /\ Len(handed) \in Nat /\ Len(handed) + 1 \in Nat
         /\ handed \in Seq(Frames) /\ \A t \in All : held[t] \in Frames
  BY ArrivedType, LenProperties DEF Inv, TypeFrames

(* Steps that move no frame, and nobody into or out of reading a message.  *)
LEMMA QuietStep ==
  ASSUME Inv, Ordered, UNCHANGED inVars, OneReader',
         \A t \in All : pc'[t] = pc[t] \/ {pc[t], pc'[t]} \cap ReadLabels = {}
  PROVE  Ordered'
<1>1. stream' = stream /\ inbox' = inbox /\ held' = held /\ handed' = handed
  BY DEF inVars
<1>2. Arrived' = Arrived
  BY <1>1 DEF Arrived
<1>3. ASSUME NEW t \in All PROVE Reading(t)'
  <2>1. pc[t] \notin ReadLabels => held[t] = NoFrames
    BY OneReads DEF Ordered
  <2> QED
    BY <1>1, <2>1 DEF Ordered, Reading, ReadLabels
<1>4. Chained(inbox)' /\ Numbered'
  BY <1>1, <1>2 DEF Ordered, Numbered
<1>5. Position'
  BY <1>1, <1>2 DEF Ordered, Position
<1> QED
  BY <1>1, <1>3, <1>4, <1>5 DEF Ordered

(* Thread t takes a frame of the message it reads.                         *)
LEMMA TakeStep ==
  ASSUME Inv, Ordered, NEW t \in All, Alone(t), Takes(t, Head(inbox)),
         held[t] # NoFrames => Final(held[t]).more,
         \A u \in All \ {t} : pc'[u] = pc[u],
         pc'[t] \in ReadLabels,
         Head(inbox).more <=> pc'[t] \notin {"RecvAll return", "count"},
         OneReader'
  PROVE  Ordered'
<1>1. /\ inbox # <<>> /\ inbox' = Tail(inbox) /\ stream' = stream /\ handed' = handed
      /\ held'[t] = Append(held[t], inbox[1]) /\ Head(inbox) = inbox[1]
      /\ \A u \in All \ {t} : held'[u] = held[u]
  BY InboxType DEF Takes, Inv, TypeFrames
<1>2. Arrived' = Arrived
  BY <1>1 DEF Arrived
<1>3. /\ Chained(inbox)' /\ Continues(held'[t], Len(handed) + 1, Tail(inbox), Arrived)
      /\ held'[t] # NoFrames /\ Final(held'[t]) = inbox[1]
  <2>1. /\ inbox \in Seq(Frame) /\ held[t] \in Frames /\ Arrived \in Nat
        /\ Len(handed) + 1 \in Nat
    BY DataTypes
  <2>2. Chained(inbox) /\ Continues(held[t], Len(handed) + 1, inbox, Arrived)
    BY PositionOf DEF Ordered
  <2>3. /\ Chained(Tail(inbox)) /\ Continues(Append(held[t], inbox[1]), Len(handed) + 1, Tail(inbox), Arrived)
        /\ Append(held[t], inbox[1]) # NoFrames /\ Final(Append(held[t], inbox[1])) = inbox[1]
    BY <1>1, <2>1, <2>2, TakeFirst
  <2> QED
    BY <1>1, <2>3
<1>4. Position'
  <2>1. \A u \in All \ {t} : held'[u] = NoFrames
    BY <1>1 DEF Alone
  <2>2. Continues(held'[t], Len(handed') + 1, inbox', Arrived')
    BY <1>1, <1>2, <1>3
  <2> QED
    BY <2>1, <2>2 DEF Position
<1>5. Numbered'
  BY <1>1, <1>2 DEF Ordered, Numbered
<1>6. ASSUME NEW u \in All PROVE Reading(u)'
  <2>1. CASE u = t
    <3>1. Final(held'[u]).more <=> pc'[u] \notin {"RecvAll return", "count"}
      BY <1>1, <1>3, <2>1
    <3> QED
      BY <1>3, <2>1, <3>1 DEF Reading
  <2>2. CASE u # t
    BY <1>1, <2>2 DEF Ordered, Reading, Alone
  <2> QED
    BY <2>1, <2>2
<1> QED
  BY <1>1, <1>3, <1>4, <1>5, <1>6 DEF Ordered

(* Thread t hands over message h, which it has or has just completed.      *)
LEMMA HandStep ==
  ASSUME Inv, Ordered, NEW t \in All, Alone(t), NEW h \in Frames, h # NoFrames, ~Final(h).more,
         Chained(inbox'), inbox' \in Seq(Frame),
         Continues(h, Len(handed) + 1, inbox', Arrived),
         stream' = stream, handed' = Append(handed, h),
         held' = [held EXCEPT ![t] = NoFrames],
         \A u \in All \ {t} : pc'[u] = pc[u],
         pc'[t] \notin ReadLabels,
         OneReader'
  PROVE  Ordered'
<1>1. /\ held'[t] = NoFrames /\ \A u \in All \ {t} : held'[u] = held[u]
  BY DEF Inv, TypeFrames
<1>2. Arrived' = Arrived
  BY DEF Arrived
<1>3. Whole(h) /\ h[1].msg = Len(handed) + 1 /\ Continues(NoFrames, Len(handed) + 1 + 1, inbox', Arrived)
  BY HandOff, DataTypes
<1>4. /\ Len(handed') = Len(handed) + 1 /\ handed'[Len(handed) + 1] = h
      /\ \A i \in 1..Len(handed) : handed'[i] = handed[i]
  BY DataTypes, AppendProperties
<1>5. ASSUME NEW i \in 1..Len(handed') PROVE Whole(handed'[i]) /\ handed'[i][1].msg = i
  <2>1. CASE i = Len(handed) + 1
    BY <1>3, <1>4, <2>1
  <2>2. CASE i # Len(handed) + 1
    <3>1. i \in 1..Len(handed)
      BY <1>4, <2>2, DataTypes
    <3> QED
      BY <1>4, <3>1 DEF Ordered
  <2> QED
    BY <2>1, <2>2
<1>6. Position'
  <2>1. \A u \in All \ {t} : held'[u] = NoFrames
    BY <1>1 DEF Alone
  <2>2. Continues(held'[t], Len(handed') + 1, inbox', Arrived')
    BY <1>1, <1>2, <1>3, <1>4
  <2> QED
    BY <2>1, <2>2 DEF Position
<1>7. Numbered'
  BY <1>2 DEF Ordered, Numbered
<1>8. \A u \in All : Reading(u)'
  BY <1>1 DEF Ordered, Reading, ReadLabels
<1> QED
  BY <1>5, <1>6, <1>7, <1>8 DEF Ordered

-----------------------------------------------------------------------------
(* The steps keep the order.                                               *)

LEMMA Moved ==
  ASSUME Inv, NEW t \in All, NEW label, Goto(t, label)
  PROVE  pc'[t] = label /\ \A u \in All \ {t} : pc'[u] = pc[u]
  BY DEF Inv, Control, TypePcs, Goto

(* A message that was begun can be read on: what follows is there.         *)
LEMMA MoreToCome ==
  ASSUME Inv, Ordered
  PROVE  /\ \A t \in Threads : pc[t] \in Phase2 => inbox # <<>>
         /\ pc[Worker] = "frame" => inbox # <<>>
<1>1. ASSUME NEW t \in All, Alone(t), pc[t] \in Phase2 \cup {"frame"}
      PROVE  inbox # <<>>
  <2>1. held[t] # NoFrames /\ Final(held[t]).more
    BY <1>1 DEF Ordered, Reading, Phase2
  <2> QED
    BY <1>1, <2>1, PositionOf DEF Continues
<1>2. OneReader
  BY DEF Ordered
<1>3. \A t \in Threads : pc[t] \in Phase2 => Alone(t)
  BY <1>2, OneReads DEF Receiving
<1>4. pc[Worker] = "frame" => Alone(Worker)
  BY <1>2, OneReads
<1> QED
  BY <1>1, <1>3, <1>4 DEF All

(* When the owner opens or closes the socket, nobody reads.                *)
LEMMA NoneRead ==
  ASSUME Inv, Bind \/ UnbindClose
  PROVE  \A t \in All : held[t] = NoFrames
<1>1. pc[Worker] \in {"off", "ended", "thrown"} /\ mutex = None
  BY DEF Bind, UnbindClose, Inv, Control, ThreadKept, WorkerOutlived, Halted
<1> QED
  BY <1>1 DEF Inv, Control, MutexHeld, All, Receiving

LEMMA StillChained == Ordered => Chained(inbox)
  BY DEF Ordered

(* A new socket, and the end of one: nothing is left.                      *)
LEMMA Emptied ==
  ASSUME Inv, Ordered, OneReader', stream' = <<>>, inbox' = <<>>, handed' = <<>>, held' = held,
         \A t \in All : held[t] = NoFrames,
         \A t \in All : pc'[t] = pc[t] \/ {pc[t], pc'[t]} \cap ReadLabels = {}
  PROVE  Ordered'
<1>1. {f.msg : f \in ToSet(<<>>)} = {}
  BY DEF ToSet
<1>2. Arrived' = 0
  BY <1>1, FS_EmptySet DEF Arrived
<1>3. Numbered'
  BY <1>1, <1>2 DEF Numbered
<1>4. ASSUME NEW t \in All PROVE Reading(t)'
  BY DEF Ordered, Reading, ReadLabels
<1>5. Continues(NoFrames, 1, <<>>, 0)
  BY DEF Continues
<1>6. Len(handed') + 1 = 1
  OBVIOUS
<1>7. Position'
  <2>1. Worker \in All /\ \A u \in All \ {Worker} : held'[u] = NoFrames
    BY DEF All
  <2>2. Continues(held'[Worker], Len(handed') + 1, inbox', Arrived')
    BY <1>2, <1>5, <1>6, <2>1
  <2> QED
    BY <2>1, <2>2 DEF Position
<1>8. Chained(<<>>)
  BY DEF Chained
<1> QED
  BY <1>3, <1>4, <1>7, <1>8 DEF Ordered

LEMMA OwnerOrdered ==
  ASSUME Inv, Ordered,
         Bind \/ StartBackground \/ StopBegin("stopping") \/ StopBegin("unbinding")
              \/ StopJoin \/ UnbindClose
  PROVE  Ordered'
<1>0. /\ Owner \in All /\ Worker \in All /\ Owner # Worker /\ OneReader
      /\ pc \in [All -> WorkerLabels \cup Receiving \cup {"idle", "stopping", "unbinding", "close"}]
  BY DEF All, Ordered, Inv, Control, TypePcs
<1>1. Bind \/ UnbindClose => \A t \in All : held[t] = NoFrames
  BY NoneRead
<1>2. CASE Bind
  <2>1. OneReader'
    BY <1>0, <1>2 DEF Bind, OneReader
  <2> QED
    BY <1>1, <1>2, <2>1, Emptied DEF Bind
<1>3. CASE StartBackground
  <2>1. OneReader'
    BY <1>3 DEF StartBackground, OneReader
  <2>2. pc[Worker] = "off"
    BY <1>3 DEF StartBackground, Inv, Control, ThreadKept, WorkerOutlived
  <2>3. pc'[Worker] = "top" /\ \A t \in All \ {Worker} : pc'[t] = pc[t]
    BY <1>0, <1>3, Moved DEF StartBackground
  <2>4. \A t \in All : pc'[t] = pc[t] \/ {pc[t], pc'[t]} \cap ReadLabels = {}
    BY <2>2, <2>3 DEF ReadLabels, Phase2
  <2> QED
    BY <1>3, <2>1, <2>4, QuietStep DEF StartBackground
<1>4. ASSUME NEW label \in {"stopping", "unbinding"}, StopBegin(label)
      PROVE  Ordered'
  <2>1. OneReader'
    BY <1>0, <1>4 DEF StopBegin, OneReader, ownVars
  <2>2. pc[Owner] = "idle" /\ pc'[Owner] \in {"stopping", "unbinding", "idle", "close"}
    BY <1>0, <1>4 DEF StopBegin, Goto
  <2>3. \A t \in All \ {Owner} : pc'[t] = pc[t]
    BY <1>0, <1>4 DEF StopBegin, Goto
  <2>4. \A t \in All : pc'[t] = pc[t] \/ {pc[t], pc'[t]} \cap ReadLabels = {}
    BY <2>2, <2>3 DEF ReadLabels, Phase2
  <2> QED
    BY <1>4, <2>1, <2>4, QuietStep DEF StopBegin
<1>5. CASE StopJoin
  <2>1. OneReader'
    BY <1>5 DEF StopJoin, OneReader
  <2>2. /\ pc[Owner] \in {"stopping", "unbinding"} /\ pc'[Owner] \in {"idle", "close"}
        /\ pc[Worker] \in {"off", "ended"} /\ pc'[Worker] = "off"
        /\ \A t \in All \ {Owner, Worker} : pc'[t] = pc[t]
    BY <1>0, <1>5 DEF StopJoin, Inv, Control, ThreadKept, WorkerOutlived
  <2>3. \A t \in All : pc'[t] = pc[t] \/ {pc[t], pc'[t]} \cap ReadLabels = {}
    BY <2>2 DEF ReadLabels, Phase2
  <2> QED
    BY <1>5, <2>1, <2>3, QuietStep DEF StopJoin
<1>6. CASE UnbindClose
  <2>2. OneReader'
    BY <1>0, <1>6 DEF UnbindClose, OneReader
  <2>3. pc[Owner] = "close" /\ pc'[Owner] = "idle" /\ \A t \in All \ {Owner} : pc'[t] = pc[t]
    BY <1>0, <1>6, Moved DEF UnbindClose
  <2>4. \A t \in All : pc'[t] = pc[t] \/ {pc[t], pc'[t]} \cap ReadLabels = {}
    BY <2>3 DEF ReadLabels, Phase2
  <2> QED
    BY <1>1, <1>6, <2>2, <2>4, Emptied DEF UnbindClose
<1> QED
  BY <1>2, <1>3, <1>4, <1>5, <1>6

LEMMA CallOrdered ==
  ASSUME Inv, Ordered, ~termed, ~abused', NEW t \in Threads,
         RecvBegin(t) \/ RecvStep(t) \/ RecvFails(t)
  PROVE  Ordered'
<1>0. t \in All /\ OneReader /\ inbox \in Seq(Frame) /\ held[t] \in Frames /\ held \in [All -> Frames]
  BY DataTypes DEF All, Ordered, Inv, TypeFrames
<1>1. CASE RecvBegin(t)
  <2>1. CASE ~sock /\ UNCHANGED <<mutex, pc, rcvtimeo, abused>>
    <3>1. OneReader'
      BY <1>0, <1>1, <2>1 DEF RecvBegin, OneReader, ownVars
    <3> QED
      BY <1>1, <2>1, <3>1, QuietStep DEF RecvBegin
  <2>2. CASE ~(~sock /\ UNCHANGED <<mutex, pc, rcvtimeo, abused>>)
    <3>1. (abused' = (abused \/ joinable)) /\ joinable' = joinable
      BY <1>1, <2>2 DEF RecvBegin, ownVars
    <3>2. OneReader'
      BY <3>1 DEF OneReader
    <3>3. PICK label \in Phase1 : Goto(t, label)
      BY <1>1, <2>2 DEF RecvBegin
    <3>4. pc[t] = "idle" /\ pc'[t] \in Phase1 /\ \A u \in All \ {t} : pc'[u] = pc[u]
      BY <1>0, <1>1, <3>3, Moved DEF RecvBegin
    <3>5. \A u \in All : pc'[u] = pc[u] \/ {pc[u], pc'[u]} \cap ReadLabels = {}
      BY <3>4 DEF ReadLabels, Phase1, Phase2
    <3> QED
      BY <1>1, <3>2, <3>5, QuietStep DEF RecvBegin
  <2> QED
    BY <2>1, <2>2
<1>2. ASSUME pc[t] \in Receiving PROVE Alone(t) /\ (OneReader /\ joinable' = joinable => OneReader')
  <2>1. Alone(t)
    BY <1>0, <1>2, OneReads
  <2>2. mutex # None
    BY <1>2 DEF Inv, Control, MutexHeld
  <2> QED
    BY <2>1, <2>2 DEF OneReader
<1>3. CASE RecvIdentity(t)
  <2>1. pc[t] \in Phase1 /\ Takes(t, Head(inbox)) /\ joinable' = joinable /\ inbox # <<>>
    BY <1>3 DEF RecvIdentity, ownVars, Takes
  <2>2. pc[t] \in Receiving /\ pc[t] \notin ReadLabels
    BY <2>1 DEF Receiving, ReadLabels, Phase1, Phase2
  <2>3. Alone(t) /\ OneReader' /\ held[t] = NoFrames
    BY <1>0, <1>2, <2>1, <2>2, OneReads
  <2>4. inbox[1].part = 0
    BY <1>0, <2>1, <2>3, PositionOf DEF Continues
  <2>5. Len(inbox) >= 1 /\ Len(inbox) \in Nat /\ Head(inbox) = inbox[1]
    BY <1>0, <2>1, EmptySeq, LenProperties, HeadTailProperties
  <2>6. Head(inbox).more
    BY <2>4, <2>5 DEF Ordered, Chained
  <2>7. pc'[t] \in {"Recv payload", "RecvAll frames"} /\ \A u \in All \ {t} : pc'[u] = pc[u]
    BY <1>0, <1>3, Moved DEF RecvIdentity
  <2>8. pc'[t] \in ReadLabels /\ pc'[t] \notin {"RecvAll return", "count"}
    BY <2>7 DEF ReadLabels, Phase2
  <2> QED
    BY <1>0, <2>1, <2>3, <2>6, <2>7, <2>8, TakeStep
<1>4. CASE RecvFrame(t)
  <2>1. pc[t] = "RecvAll frames" /\ Takes(t, Head(inbox)) /\ joinable' = joinable
    BY <1>4 DEF RecvFrame, ownVars
  <2>2. Alone(t) /\ OneReader'
    BY <1>0, <1>2, <2>1 DEF Receiving, Phase2
  <2>3. held[t] # NoFrames => Final(held[t]).more
    BY <1>0, <2>1 DEF Ordered, Reading
  <2>4. /\ pc'[t] = IF Head(inbox).more THEN "RecvAll frames" ELSE "RecvAll return"
        /\ \A u \in All \ {t} : pc'[u] = pc[u]
    BY <1>0, <1>4, Moved DEF RecvFrame
  <2>5. pc'[t] \in ReadLabels /\ (Head(inbox).more <=> pc'[t] \notin {"RecvAll return", "count"})
    BY <2>4 DEF ReadLabels, Phase2
  <2> QED
    BY <1>0, <2>1, <2>2, <2>3, <2>4, <2>5, TakeStep
<1>5. CASE RecvPayload(t)
  <2>1. /\ pc[t] = "Recv payload" /\ inbox # <<>> /\ inbox' = Tail(inbox) /\ stream' = stream
        /\ handed' = Append(handed, Append(held[t], Head(inbox)))
        /\ held' = [held EXCEPT ![t] = NoFrames] /\ joinable' = joinable
        /\ Goto(t, "idle")
    BY <1>5 DEF RecvPayload, ownVars, Release
  <2>2. Alone(t) /\ OneReader'
    BY <1>0, <1>2, <2>1 DEF Receiving, Phase2
  <2>3. held[t] # NoFrames => Final(held[t]).more
    BY <1>0, <2>1 DEF Ordered, Reading
  <2>4. Continues(held[t], Len(handed) + 1, inbox, Arrived) /\ Chained(inbox)
    <3>1. Continues(held[t], Len(handed) + 1, inbox, Arrived)
      BY <1>0, <2>2, PositionOf
    <3> QED
      BY <3>1, StillChained
  <2>5. Head(inbox) = inbox[1] /\ Tail(inbox) \in Seq(Frame) /\ Head(inbox) \in Frame
    <3>1. inbox # <<>>
      BY <2>1
    <3> QED
      BY <1>0, <3>1, HeadTailProperties
  <2>6. /\ Chained(Tail(inbox))
        /\ Continues(Append(held[t], inbox[1]), Len(handed) + 1, Tail(inbox), Arrived)
        /\ Append(held[t], inbox[1]) # NoFrames /\ Final(Append(held[t], inbox[1])) = inbox[1]
    BY <1>0, <2>1, <2>3, <2>4, TakeFirst, DataTypes
  <2>7. ~inbox[1].more /\ Append(held[t], inbox[1]) \in Frames
    <3>1. ~Head(inbox).more
      BY <1>5 DEF RecvPayload
    <3>2. inbox[1] \in Frame \cup {Nothing}
      BY <2>5
    <3> QED
      BY <1>0, <2>5, <3>1, <3>2, FramesType
  <2>8. pc'[t] \notin ReadLabels /\ \A u \in All \ {t} : pc'[u] = pc[u]
    <3>1. pc'[t] = "idle" /\ \A u \in All \ {t} : pc'[u] = pc[u]
      BY <1>0, <1>5, Moved DEF RecvPayload, Release
    <3> QED
      BY <3>1 DEF ReadLabels, Phase2
  <2> QED
    BY <1>0, <2>1, <2>2, <2>5, <2>6, <2>7, <2>8, HandStep
<1>6. CASE RecvAllReturns(t)
  <2>1. /\ pc[t] = "RecvAll return" /\ inbox' = inbox /\ stream' = stream
        /\ handed' = Append(handed, held[t])
        /\ held' = [held EXCEPT ![t] = NoFrames] /\ joinable' = joinable /\ Goto(t, "idle")
    BY <1>6 DEF RecvAllReturns, HandsOver, ownVars, Release
  <2>2. Alone(t) /\ OneReader'
    BY <1>0, <1>2, <2>1 DEF Receiving
  <2>3. held[t] # NoFrames /\ ~Final(held[t]).more
    BY <1>0, <2>1 DEF Ordered, Reading
  <2>4. Continues(held[t], Len(handed) + 1, inbox, Arrived) /\ Chained(inbox)
    <3>1. Continues(held[t], Len(handed) + 1, inbox, Arrived)
      BY <1>0, <2>2, PositionOf
    <3> QED
      BY <3>1, StillChained
  <2>5. pc'[t] \notin ReadLabels /\ \A u \in All \ {t} : pc'[u] = pc[u]
    <3>1. pc'[t] = "idle" /\ \A u \in All \ {t} : pc'[u] = pc[u]
      BY <1>0, <1>6, Moved DEF RecvAllReturns, Release
    <3> QED
      BY <3>1 DEF ReadLabels, Phase2
  <2> QED
    BY <1>0, <2>1, <2>2, <2>3, <2>4, <2>5, HandStep
<1>7. ASSUME pc[t] \in Phase1, Goto(t, "idle"), UNCHANGED inVars, joinable' = joinable
      PROVE  Ordered'
  <2>1. OneReader'
    BY <1>0, <1>2, <1>7 DEF Receiving
  <2>2. pc'[t] = "idle" /\ \A u \in All \ {t} : pc'[u] = pc[u]
    BY <1>0, <1>7, Moved
  <2>3. \A u \in All : pc'[u] = pc[u] \/ {pc[u], pc'[u]} \cap ReadLabels = {}
    BY <1>7, <2>2 DEF ReadLabels, Phase1, Phase2
  <2> QED
    BY <1>7, <2>1, <2>3, QuietStep
<1>8. CASE RecvTimesOut(t)
  BY <1>7, <1>8 DEF RecvTimesOut, Release, ownVars
<1>9. pc[t] \in Phase2 => inbox # <<>>
  BY MoreToCome
<1>10. CASE RecvEndsEmpty(t)
  BY <1>9, <1>10 DEF RecvEndsEmpty
<1>11. CASE RecvFails(t)
  <2>1. pc[t] \in Phase1 /\ Goto(t, "idle") /\ Discards(t) /\ joinable' = joinable
    BY <1>9, <1>11 DEF RecvFails, Release, ownVars
  <2>2. held[t] = NoFrames
    BY <1>0, <2>1, OneReads DEF ReadLabels, Phase1, Phase2
  <2>3. UNCHANGED inVars
    BY <1>0, <2>1, <2>2 DEF Discards, inVars
  <2> QED
    BY <1>7, <2>1, <2>3
<1> QED
  BY <1>1, <1>3, <1>4, <1>5, <1>6, <1>8, <1>10, <1>11 DEF RecvStep

LEMMA WorkerOrdered ==
  ASSUME Inv, Ordered, ~termed, WorkerStep \/ WorkerPollThrows \/ WorkerFails
  PROVE  Ordered'
<1>0. /\ Worker \in All /\ OneReader /\ inbox \in Seq(Frame) /\ held[Worker] \in Frames
      /\ held \in [All -> Frames]
  BY DataTypes DEF All, Ordered, Inv, TypeFrames
<1>1. UNCHANGED ownVars /\ mutex' = mutex
  BY DEF WorkerStep, WorkerTop, WorkerGrab, WorkerPolls, WorkerPollThrows, WorkerIdentity,
         WorkerMisses, WorkerTermed, WorkerFrame, WorkerEndsEmpty, WorkerFails, WorkerCount,
         WorkerHandled, WorkerReplies
<1>2. OneReader'
  BY <1>0, <1>1 DEF OneReader, ownVars
<1>3. pc[Worker] \notin {"off", "ended", "thrown"} => Alone(Worker)
  BY <1>0, OneReads
<1>4. ASSUME NEW label, label \notin ReadLabels, pc[Worker] \notin ReadLabels,
             Goto(Worker, label), UNCHANGED inVars
      PROVE  Ordered'
  <2>1. \A u \in All : pc'[u] = pc[u] \/ {pc[u], pc'[u]} \cap ReadLabels = {}
    BY <1>0, <1>4, Moved
  <2> QED
    BY <1>2, <1>4, <2>1, QuietStep
<1>5. CASE WorkerTop \/ WorkerGrab \/ WorkerPolls \/ WorkerPollThrows
  <2>1. /\ UNCHANGED inVars /\ pc[Worker] \notin ReadLabels
        /\ \E label \in {"grab", "ended", "poll", "top", "identity", "thrown"} : Goto(Worker, label)
    <3>1. CASE WorkerTop
      BY <3>1 DEF WorkerTop, ReadLabels, Phase2
    <3>2. CASE WorkerGrab
      BY <3>2 DEF WorkerGrab, ReadLabels, Phase2
    <3>3. CASE WorkerPolls
      BY <3>3 DEF WorkerPolls, ReadLabels, Phase2
    <3>4. CASE WorkerPollThrows
      BY <3>4 DEF WorkerPollThrows, ReadLabels, Phase2
    <3> QED
      BY <1>5, <3>1, <3>2, <3>3, <3>4
  <2> QED
    BY <1>4, <2>1 DEF ReadLabels, Phase2
<1>6. CASE WorkerMisses \/ WorkerTermed \/ WorkerHandled \/ WorkerReplies
  <2>1. /\ UNCHANGED inVars /\ pc[Worker] \notin ReadLabels
        /\ \E label \in {"ended", "top", "reply"} : Goto(Worker, label)
    <3>1. CASE WorkerMisses
      BY <3>1 DEF WorkerMisses, ReadLabels, Phase2
    <3>2. CASE WorkerTermed
      BY <3>2 DEF WorkerTermed, ReadLabels, Phase2
    <3>3. CASE WorkerHandled
      BY <3>3 DEF WorkerHandled, ReadLabels, Phase2
    <3>4. CASE WorkerReplies
      BY <3>4 DEF WorkerReplies, ReadLabels, Phase2
    <3> QED
      BY <1>6, <3>1, <3>2, <3>3, <3>4
  <2> QED
    BY <1>4, <2>1 DEF ReadLabels, Phase2
<1>7. CASE WorkerIdentity
  <2>1. pc[Worker] = "identity" /\ Takes(Worker, Head(inbox)) /\ inbox # <<>>
    BY <1>7 DEF WorkerIdentity, Takes
  <2>2. Alone(Worker) /\ held[Worker] = NoFrames
    BY <1>0, <1>3, <2>1, OneReads DEF ReadLabels, Phase2
  <2>3. inbox[1].part = 0
    BY <1>0, <2>1, <2>2, PositionOf DEF Continues
  <2>4. Len(inbox) >= 1 /\ Len(inbox) \in Nat /\ Head(inbox) = inbox[1]
    BY <1>0, <2>1, EmptySeq, LenProperties, HeadTailProperties
  <2>5. Head(inbox).more
    BY <2>3, <2>4 DEF Ordered, Chained
  <2>6. pc'[Worker] = "frame" /\ \A u \in All \ {Worker} : pc'[u] = pc[u]
    BY <1>0, <1>7, Moved DEF WorkerIdentity
  <2>7. pc'[Worker] \in ReadLabels /\ pc'[Worker] \notin {"RecvAll return", "count"}
    BY <2>6 DEF ReadLabels
  <2> QED
    BY <1>0, <1>2, <2>1, <2>2, <2>5, <2>6, <2>7, TakeStep
<1>8. CASE WorkerFrame
  <2>1. pc[Worker] = "frame" /\ Takes(Worker, Head(inbox)) /\ Alone(Worker)
    BY <1>3, <1>8 DEF WorkerFrame
  <2>2. held[Worker] # NoFrames => Final(held[Worker]).more
    BY <1>0, <2>1 DEF Ordered, Reading
  <2>3. /\ pc'[Worker] = IF Head(inbox).more THEN "frame" ELSE "count"
        /\ \A u \in All \ {Worker} : pc'[u] = pc[u]
    BY <1>0, <1>8, Moved DEF WorkerFrame
  <2>4. pc'[Worker] \in ReadLabels /\ (Head(inbox).more <=> pc'[Worker] \notin {"RecvAll return", "count"})
    BY <2>3 DEF ReadLabels
  <2> QED
    BY <1>0, <1>2, <2>1, <2>2, <2>3, <2>4, TakeStep
<1>9. pc[Worker] = "frame" => inbox # <<>>
  BY MoreToCome
<1>10. CASE WorkerEndsEmpty
  BY <1>9, <1>10 DEF WorkerEndsEmpty
<1>11. CASE WorkerFails
  <2>1. pc[Worker] = "identity" /\ Goto(Worker, "top") /\ UNCHANGED inVars
    BY <1>9, <1>11 DEF WorkerFails
  <2> QED
    BY <1>4, <2>1 DEF ReadLabels, Phase2
<1>12. CASE WorkerCount
  <2>1. /\ pc[Worker] = "count" /\ inbox' = inbox /\ stream' = stream
        /\ handed' = Append(handed, held[Worker])
        /\ held' = [held EXCEPT ![Worker] = NoFrames] /\ Goto(Worker, "handle")
    BY <1>12 DEF WorkerCount, HandsOver
  <2>2. Alone(Worker) /\ held[Worker] # NoFrames /\ ~Final(held[Worker]).more
    BY <1>0, <1>3, <2>1 DEF Ordered, Reading
  <2>3. Continues(held[Worker], Len(handed) + 1, inbox, Arrived) /\ Chained(inbox)
    <3>1. Continues(held[Worker], Len(handed) + 1, inbox, Arrived)
      BY <1>0, <2>2, PositionOf
    <3> QED
      BY <3>1, StillChained
  <2>4. pc'[Worker] \notin ReadLabels /\ \A u \in All \ {Worker} : pc'[u] = pc[u]
    <3>1. pc'[Worker] = "handle" /\ \A u \in All \ {Worker} : pc'[u] = pc[u]
      BY <1>0, <1>12, Moved DEF WorkerCount
    <3> QED
      BY <3>1 DEF ReadLabels, Phase2
  <2> QED
    BY <1>0, <1>2, <2>1, <2>2, <2>3, <2>4, HandStep
<1> QED
  BY <1>5, <1>6, <1>7, <1>8, <1>10, <1>11, <1>12 DEF WorkerStep

(* The elements of a sequence, of one with a tail and of two together.     *)
LEMMA Elements ==
  ASSUME NEW S, NEW s \in Seq(S)
  PROVE  \A y : y \in ToSet(s) <=> \E i \in 1..Len(s) : y = s[i]
<1>1. DOMAIN s = 1..Len(s)
  BY LenProperties
<1>2. ToSet(s) = {s[i] : i \in 1..Len(s)}
  BY <1>1 DEF ToSet
<1> QED
  BY <1>2

LEMMA ToSetAppend ==
  ASSUME NEW S, NEW s \in Seq(S), NEW x \in S
  PROVE  ToSet(Append(s, x)) = ToSet(s) \cup {x}
<1> DEFINE a == Append(s, x)
<1>1. /\ a \in Seq(S) /\ Len(a) = Len(s) + 1 /\ Len(s) \in Nat /\ a[Len(s) + 1] = x
      /\ \A i \in 1..Len(s) : a[i] = s[i]
  BY AppendProperties, LenProperties
<1> HIDE DEF a
<1>2. \A i : i \in 1..Len(a) <=> i \in 1..Len(s) \/ i = Len(s) + 1
  BY <1>1
<1>3. \A y : y \in ToSet(a) <=> \E i \in 1..Len(a) : y = a[i]
  BY <1>1, Elements
<1>4. \A y : y \in ToSet(s) <=> \E i \in 1..Len(s) : y = s[i]
  BY Elements
<1>5. \A y : y \in ToSet(a) <=> y \in ToSet(s) \/ y = x
  BY <1>1, <1>2, <1>3, <1>4
<1> QED
  BY <1>5 DEF a

LEMMA ToSetTail ==
  ASSUME NEW S, NEW s \in Seq(S), s # <<>>
  PROVE  ToSet(s) = {Head(s)} \cup ToSet(Tail(s))
<1> DEFINE r == Tail(s)
<1>1. /\ Len(s) \in Nat /\ Len(s) >= 1 /\ Head(s) = s[1] /\ r \in Seq(S) /\ Len(r) = Len(s) - 1
      /\ \A i \in 1..(Len(s) - 1) : r[i] = s[i + 1]
  BY EmptySeq, LenProperties, HeadTailProperties
<1> HIDE DEF r
<1>2. ASSUME NEW i \in 1..Len(s), i # 1 PROVE i - 1 \in 1..Len(r) /\ s[i] = r[i - 1]
  <2>1. i - 1 \in 1..(Len(s) - 1) /\ (i - 1) + 1 = i
    BY <1>1, <1>2
  <2> QED
    BY <1>1, <2>1
<1>3. ASSUME NEW i \in 1..Len(r) PROVE i + 1 \in 1..Len(s) /\ r[i] = s[i + 1]
  <2>1. i + 1 \in 1..Len(s) /\ i \in 1..(Len(s) - 1)
    BY <1>1
  <2> QED
    BY <1>1, <2>1
<1>4. \A y : y \in ToSet(r) <=> \E i \in 1..Len(r) : y = r[i]
  BY <1>1, Elements
<1>5. \A y : y \in ToSet(s) <=> \E i \in 1..Len(s) : y = s[i]
  BY Elements
<1>6. 1 \in 1..Len(s)
  BY <1>1
<1>7. Head(s) \in ToSet(s)
  BY <1>1, <1>5, <1>6
<1>8. ToSet(r) \subseteq ToSet(s)
  BY <1>3, <1>4, <1>5
<1>9. ASSUME NEW y \in ToSet(s), y # Head(s) PROVE y \in ToSet(r)
  <2>1. PICK i \in 1..Len(s) : y = s[i]
    BY <1>5, <1>9
  <2>2. i # 1
    BY <1>1, <1>9, <2>1
  <2> QED
    BY <1>2, <1>4, <2>1, <2>2
<1> QED
  BY <1>7, <1>8, <1>9 DEF r

LEMMA ToSetConcat ==
  ASSUME NEW S, NEW s \in Seq(S), NEW r \in Seq(S)
  PROVE  ToSet(s \o r) = ToSet(s) \cup ToSet(r)
<1> DEFINE c == s \o r
<1>1. /\ Len(s) \in Nat /\ Len(r) \in Nat /\ c \in Seq(S) /\ Len(c) = Len(s) + Len(r)
      /\ \A i \in 1..Len(c) : c[i] = IF i <= Len(s) THEN s[i] ELSE r[i - Len(s)]
  BY LenProperties, ConcatProperties
<1> HIDE DEF c
<1>2. ASSUME NEW i \in 1..Len(c), ~(i \in 1..Len(s) /\ c[i] = s[i])
      PROVE  i - Len(s) \in 1..Len(r) /\ c[i] = r[i - Len(s)]
  <2>1. CASE i <= Len(s)
    BY <1>1, <1>2, <2>1
  <2>2. CASE ~(i <= Len(s))
    <3>1. i - Len(s) \in 1..Len(r)
      BY <1>1, <2>2
    <3> QED
      BY <1>1, <2>2, <3>1
  <2> QED
    BY <2>1, <2>2
<1>3. \A i \in 1..Len(s) : i \in 1..Len(c) /\ c[i] = s[i]
  BY <1>1
<1>4. ASSUME NEW i \in 1..Len(r) PROVE i + Len(s) \in 1..Len(c) /\ c[i + Len(s)] = r[i]
  <2>1. i + Len(s) \in 1..Len(c) /\ ~(i + Len(s) <= Len(s)) /\ i + Len(s) - Len(s) = i
    BY <1>1
  <2> QED
    BY <1>1, <2>1
<1>5. \A y : y \in ToSet(r) <=> \E i \in 1..Len(r) : y = r[i]
  BY Elements
<1>6. \A y : y \in ToSet(s) <=> \E i \in 1..Len(s) : y = s[i]
  BY Elements
<1>7. \A y : y \in ToSet(c) <=> \E i \in 1..Len(c) : y = c[i]
  BY <1>1, Elements
<1>8. ASSUME NEW y \in ToSet(c) PROVE y \in ToSet(s) \cup ToSet(r)
  <2>1. PICK i \in 1..Len(c) : y = c[i]
    BY <1>7
  <2> QED
    BY <1>2, <1>5, <1>6, <2>1
<1>9. ToSet(s) \subseteq ToSet(c)
  BY <1>3, <1>6, <1>7
<1>10. ToSet(r) \subseteq ToSet(c)
  BY <1>4, <1>5, <1>7
<1> QED
  BY <1>8, <1>9, <1>10 DEF c

LEMMA ArriveOrdered ==
  ASSUME Inv, Ordered, Arrive
  PROVE  Ordered'
<1>1. PICK k \in 1..MaxParts :
        /\ stream' = stream \o Message(Arrived + 1, k)
        /\ inbox' = inbox \o Message(Arrived + 1, k)
  BY DEF Arrive
<1> DEFINE m == Message(Arrived + 1, k)
<1>2. /\ Arrived \in Nat /\ Arrived + 1 \in 1..MaxIn /\ inbox \in Seq(Frame) /\ stream \in Seq(Frame)
      /\ k + 1 \in Nat /\ 1 \in 1..(k + 1)
  BY DataTypes, BoundsAssumption DEF Arrive, Inv, TypeFrames
<1>3. m \in Seq(Frame) /\ Len(m) = k + 1 /\ \A i \in 1..(k + 1) : m[i].msg = Arrived + 1
  BY <1>2, MessageType
<1>4. {f.msg : f \in ToSet(m)} = {Arrived + 1}
  <2>1. \A y : y \in ToSet(m) <=> \E i \in 1..Len(m) : y = m[i]
    BY <1>3, Elements
  <2>2. m[1] \in ToSet(m) /\ m[1].msg = Arrived + 1
    BY <1>2, <1>3, <2>1
  <2>3. \A f \in ToSet(m) : f.msg = Arrived + 1
    BY <1>3, <2>1
  <2> QED
    BY <2>2, <2>3
<1>5. ToSet(stream') = ToSet(stream) \cup ToSet(m)
  BY <1>1, <1>2, <1>3, ToSetConcat
<1>6. {f.msg : f \in ToSet(stream')} = {f.msg : f \in ToSet(stream)} \cup {Arrived + 1}
  BY <1>4, <1>5
<1>7. {f.msg : f \in ToSet(stream')} = 1..(Arrived + 1)
  <2>1. {f.msg : f \in ToSet(stream)} = 1..Arrived
    BY DEF Ordered, Numbered
  <2>2. (1..Arrived) \cup {Arrived + 1} = 1..(Arrived + 1)
    BY <1>2
  <2> QED
    BY <1>6, <2>1, <2>2
<1>8. Arrived' = Arrived + 1
  <2>1. Cardinality(1..(Arrived + 1)) = Arrived + 1
    BY <1>2, FS_Interval
  <2> QED
    BY <1>7, <2>1 DEF Arrived
<1>9. PICK t \in All : Alone(t) /\ Continues(held[t], Len(handed) + 1, inbox, Arrived)
  BY DEF Ordered, Position, Alone
<1>10. /\ Chained(inbox')
       /\ Continues(held[t], Len(handed) + 1, inbox', Arrived + 1)
  BY <1>1, <1>2, <1>9, Extended, DataTypes, StillChained
<1>11. held' = held /\ handed' = handed /\ pc' = pc /\ mutex' = mutex /\ joinable' = joinable
  BY DEF Arrive, ownVars
<1>12. Position'
  BY <1>8, <1>9, <1>10, <1>11 DEF Position, Alone
<1>13. Numbered'
  BY <1>7, <1>8 DEF Numbered
<1>14. OneReader' /\ \A u \in All : Reading(u)'
  BY <1>11 DEF Ordered, OneReader, Reading
<1>15. \A i \in 1..Len(handed') : Whole(handed'[i]) /\ handed'[i][1].msg = i
  BY <1>11 DEF Ordered
<1> QED
  BY <1>10, <1>12, <1>13, <1>14, <1>15 DEF Ordered

(* The exceptions stay.                                                    *)
LEMMA Sticky ==
  ASSUME [Next]_vars
  PROVE  (termed => termed') /\ (abused => abused')
<1>1. CASE UNCHANGED vars
  BY <1>1 DEF vars
<1>2. CASE Bind \/ StartBackground \/ StopJoin \/ UnbindClose \/ Arrive \/ Terminate
  BY <1>2 DEF Bind, StartBackground, StopJoin, UnbindClose, Arrive, Terminate
<1>3. CASE StopBegin("stopping") \/ StopBegin("unbinding")
  BY <1>3 DEF StopBegin
<1>4. CASE \E t \in Threads : RecvBegin(t) \/ RecvStep(t) \/ RecvFails(t)
  <2> SUFFICES ASSUME NEW t \in Threads, RecvBegin(t) \/ RecvStep(t) \/ RecvFails(t)
               PROVE  (termed => termed') /\ (abused => abused')
    BY <1>4
  <2>1. CASE RecvBegin(t)
    <3>1. termed' = termed
      BY <2>1 DEF RecvBegin
    <3>2. CASE UNCHANGED abused
      BY <3>1, <3>2
    <3>3. CASE abused' = (abused \/ joinable)
      BY <3>1, <3>3, Zenon
    <3> QED
      BY <2>1, <3>2, <3>3 DEF RecvBegin
  <2>2. CASE RecvPayload(t)
    <3>1. termed' = termed
      BY <2>2 DEF RecvPayload
    <3>2. abused' = (abused \/ Head(inbox).more)
      BY <2>2 DEF RecvPayload
    <3> QED
      BY <3>1, <3>2, Zenon
  <2>3. CASE RecvIdentity(t)
    BY <2>3 DEF RecvIdentity
  <2>4. CASE RecvFrame(t)
    BY <2>4 DEF RecvFrame
  <2>5. CASE RecvAllReturns(t)
    BY <2>5 DEF RecvAllReturns
  <2>6. CASE RecvTimesOut(t) \/ RecvEndsEmpty(t) \/ RecvFails(t)
    BY <2>6 DEF RecvTimesOut, RecvEndsEmpty, RecvFails
  <2> QED
    BY <2>1, <2>2, <2>3, <2>4, <2>5, <2>6 DEF RecvStep
<1>5. CASE WorkerStep \/ WorkerPollThrows \/ WorkerFails
  BY <1>5 DEF WorkerStep, WorkerTop, WorkerGrab, WorkerPolls, WorkerPollThrows, WorkerIdentity,
              WorkerMisses, WorkerTermed, WorkerFrame, WorkerEndsEmpty, WorkerFails, WorkerCount,
              WorkerHandled, WorkerReplies
<1> QED
  BY <1>1, <1>2, <1>3, <1>4, <1>5 DEF Next

LEMMA OrderedNext ==
  ASSUME Inv, Ordered, [Next]_vars, ~termed, ~abused'
  PROVE  Ordered'
<1>1. ASSUME UNCHANGED inVars, UNCHANGED <<pc, mutex, joinable>> PROVE Ordered'
  <2>1. OneReader'
    BY <1>1 DEF Ordered, OneReader
  <2> QED
    BY <1>1, <2>1, QuietStep
<1>2. CASE Terminate \/ UNCHANGED vars
  BY <1>1, <1>2 DEF Terminate, vars, ownVars
<1> QED
  BY <1>2, OwnerOrdered, CallOrdered, WorkerOrdered, ArriveOrdered DEF Next

-----------------------------------------------------------------------------
(* No frame is lost.                                                       *)

(* Where frame f is.                                                       *)
Somewhere(f) ==
  \/ \E i \in 1..Len(handed) : f \in ToSet(handed[i])
  \/ \E t \in All : f \in ToSet(held[t])
  \/ f \in ToSet(inbox)

Kept == \A f : f \in ToSet(stream) <=> Somewhere(f)

LEMMA KeptConserves ==
  ASSUME Kept
  PROVE  ToSet(stream) = (UNION {ToSet(handed[i]) : i \in 1..Len(handed)}) \cup
                         (UNION {ToSet(held[t]) : t \in All}) \cup ToSet(inbox)
<1>1. \A f : f \in UNION {ToSet(handed[i]) : i \in 1..Len(handed)}
             <=> \E i \in 1..Len(handed) : f \in ToSet(handed[i])
  OBVIOUS
<1>2. \A f : f \in UNION {ToSet(held[t]) : t \in All} <=> \E t \in All : f \in ToSet(held[t])
  OBVIOUS
<1> QED
  BY <1>1, <1>2 DEF Kept, Somewhere

(* A message, with frames from the socket or not, is handed over.          *)
Hands(t, h) ==
  /\ h \in Frames
  /\ stream' = stream /\ handed' = Append(handed, h)
  /\ held' = [held EXCEPT ![t] = NoFrames]
  /\ ToSet(inbox) \cup ToSet(held[t]) = ToSet(h) \cup ToSet(inbox')

LEMMA KeptHands ==
  ASSUME Inv, Kept, NEW t \in All, NEW h, Hands(t, h)
  PROVE  Kept'
<1>1. /\ Len(handed) \in Nat /\ Len(handed') = Len(handed) + 1 /\ handed'[Len(handed) + 1] = h
      /\ \A i \in 1..Len(handed) : handed'[i] = handed[i]
  BY DataTypes, AppendProperties DEF Hands
<1>2. \A i : i \in 1..Len(handed') <=> i \in 1..Len(handed) \/ i = Len(handed) + 1
  BY <1>1
<1>3. \A f : (\E i \in 1..Len(handed') : f \in ToSet(handed'[i]))
             <=> f \in ToSet(h) \/ \E i \in 1..Len(handed) : f \in ToSet(handed[i])
  BY <1>1, <1>2
<1>4. held'[t] = NoFrames /\ \A u \in All \ {t} : held'[u] = held[u]
  BY DEF Hands, Inv, TypeFrames
<1>5. ToSet(NoFrames) = {}
  BY DEF ToSet, NoFrames
<1>6. \A f : (\E u \in All : f \in ToSet(held[u]))
             <=> f \in ToSet(held[t]) \/ \E u \in All : f \in ToSet(held'[u])
  BY <1>4, <1>5
<1>7. \A f : f \in ToSet(inbox) \/ f \in ToSet(held[t]) <=> f \in ToSet(h) \/ f \in ToSet(inbox')
  BY DEF Hands
<1>8. stream' = stream
  BY DEF Hands
<1>9. \A f : Somewhere(f) <=> Somewhere(f)'
  BY <1>3, <1>6, <1>7 DEF Somewhere
<1> QED
  BY <1>8, <1>9 DEF Kept

LEMMA KeptTakes ==
  ASSUME Inv, Kept, NEW t \in All, Takes(t, Head(inbox))
  PROVE  Kept'
<1> DEFINE x == Head(inbox)
<1>1. inbox # <<>> /\ inbox' = Tail(inbox) /\ stream' = stream /\ handed' = handed
  BY DEF Takes
<1>2. held'[t] = Append(held[t], x) /\ \A u \in All \ {t} : held'[u] = held[u]
  BY DEF Takes, Inv, TypeFrames
<1>3. ToSet(inbox) = {x} \cup ToSet(inbox')
  BY <1>1, DataTypes, ToSetTail
<1>4. ToSet(held'[t]) = ToSet(held[t]) \cup {x}
  <2>1. x \in Frame \cup {Nothing}
    BY <1>1, DataTypes, InboxType
  <2>2. held[t] \in Seq(Frame \cup {Nothing})
    BY DataTypes DEF Frames
  <2> QED
    BY <1>2, <2>1, <2>2, ToSetAppend
<1>5. \A f : (\E u \in All : f \in ToSet(held'[u])) <=> f = x \/ \E u \in All : f \in ToSet(held[u])
  BY <1>2, <1>4
<1>6. \A f : Somewhere(f) <=> Somewhere(f)'
  BY <1>1, <1>3, <1>5 DEF Somewhere
<1> QED
  BY <1>1, <1>6 DEF Kept

LEMMA KeptArrive ==
  ASSUME Inv, Kept, Arrive
  PROVE  Kept'
<1>1. PICK k \in 1..MaxParts :
        /\ stream' = stream \o Message(Arrived + 1, k)
        /\ inbox' = inbox \o Message(Arrived + 1, k)
  BY DEF Arrive
<1> DEFINE m == Message(Arrived + 1, k)
<1>2. inbox \in Seq(Frame) /\ stream \in Seq(Frame) /\ m \in Seq(Frame)
  <2>1. Arrived \in Nat /\ Arrived + 1 \in 1..MaxIn
    BY DataTypes, BoundsAssumption DEF Arrive
  <2> QED
    BY <2>1, MessageType DEF Inv, TypeFrames
<1> HIDE DEF m
<1>3. ToSet(stream') = ToSet(stream) \cup ToSet(m) /\ ToSet(inbox') = ToSet(inbox) \cup ToSet(m)
  BY <1>1, <1>2, ToSetConcat DEF m
<1>4. held' = held /\ handed' = handed
  BY DEF Arrive
<1> QED
  BY <1>3, <1>4 DEF Kept, Somewhere

LEMMA KeptEmptied ==
  ASSUME stream' = <<>>, inbox' = <<>>, handed' = <<>>, \A t \in All : held'[t] = NoFrames
  PROVE  Kept'
<1>1. ToSet(<<>>) = {} /\ ToSet(NoFrames) = {} /\ Len(<<>>) = 0 /\ 1..0 = {}
  BY DEF ToSet, NoFrames
<1> QED
  BY <1>1 DEF Kept, Somewhere

(* What a step of a call, of the owner or of the thread may do with frames.*)
Flow ==
  \/ UNCHANGED inVars
  \/ \E t \in All : Takes(t, Head(inbox))
  \/ \E t \in All : \E h \in Frames : Hands(t, h)
  \/ Bind \/ UnbindClose \/ Arrive

LEMMA OtherFlow ==
  ASSUME [Next]_vars,
         ~ \E t \in Threads : RecvBegin(t) \/ RecvStep(t) \/ RecvFails(t),
         ~ (WorkerStep \/ WorkerPollThrows \/ WorkerFails)
  PROVE  Flow
<1>1. CASE UNCHANGED vars \/ Terminate
  BY <1>1 DEF vars, Terminate, Flow
<1>2. CASE StartBackground
  BY <1>2 DEF StartBackground, Flow
<1>3. ASSUME NEW label, StopBegin(label) PROVE Flow
  BY <1>3 DEF StopBegin, Flow
<1>4. CASE StopJoin
  BY <1>4 DEF StopJoin, Flow
<1>5. CASE Bind \/ UnbindClose \/ Arrive
  BY <1>5 DEF Flow
<1> QED
  BY <1>1, <1>2, <1>3, <1>4, <1>5 DEF Next

(* Frames that thread t has read are handed over as they are.              *)
LEMMA HandsHeld ==
  ASSUME Inv, NEW t \in All, HandsOver(t)
  PROVE  Flow
<1>1. held[t] \in Frames
  BY DataTypes
<1> QED
  BY <1>1 DEF HandsOver, Hands, Flow

LEMMA CallFlow ==
  ASSUME Inv, Ordered, ~termed, NEW t \in Threads,
         RecvBegin(t) \/ RecvStep(t) \/ RecvFails(t)
  PROVE  Flow
<1>0. t \in All
  BY DEF All
<1>1. CASE RecvBegin(t)
  BY <1>1 DEF RecvBegin, Flow
<1>2. CASE RecvIdentity(t)
  BY <1>0, <1>2 DEF RecvIdentity, Flow
<1>3. CASE RecvPayload(t)
  <2> DEFINE h == Append(held[t], Head(inbox))
  <2>1. inbox # <<>> /\ inbox \in Seq(Frame) /\ held[t] \in Frames /\ Head(inbox) \in Frame
    BY <1>0, <1>3, DataTypes, HeadTailProperties DEF RecvPayload
  <2>2. held[t] \in Seq(Frame \cup {Nothing}) /\ Head(inbox) \in Frame \cup {Nothing}
    BY <2>1 DEF Frames
  <2>3. ToSet(h) = ToSet(held[t]) \cup {Head(inbox)}
    BY <2>2, ToSetAppend
  <2>4. ToSet(inbox) = {Head(inbox)} \cup ToSet(Tail(inbox))
    BY <2>1, ToSetTail
  <2>5. h \in Frames
    BY <2>2, AppendProperties DEF Frames
  <2> HIDE DEF h
  <2>6. stream' = stream /\ inbox' = Tail(inbox) /\ held' = [held EXCEPT ![t] = NoFrames]
    BY <1>3 DEF RecvPayload
  <2>7. handed' = Append(handed, h)
    BY <1>3 DEF RecvPayload, h
  <2>8. ToSet(inbox) \cup ToSet(held[t]) = ToSet(h) \cup ToSet(inbox')
    BY <2>3, <2>4, <2>6
  <2>9. Hands(t, h)
    BY <2>5, <2>6, <2>7, <2>8 DEF Hands
  <2> QED
    BY <1>0, <2>5, <2>9 DEF Flow
<1>4. CASE RecvFrame(t)
  BY <1>0, <1>4 DEF RecvFrame, Flow
<1>5. CASE RecvAllReturns(t)
  BY <1>0, <1>5, HandsHeld DEF RecvAllReturns
<1>6. CASE RecvTimesOut(t)
  BY <1>6 DEF RecvTimesOut, Flow
<1>7. ~RecvEndsEmpty(t)
  BY MoreToCome DEF RecvEndsEmpty
<1>8. CASE RecvFails(t)
  <2>1. pc[t] \in Phase1
    BY <1>8, MoreToCome DEF RecvFails
  <2>2. held[t] = NoFrames
    BY <2>1 DEF Inv, Control, MutexHeld, Phase1, Phase2
  <2>3. held' = held
    BY <1>0, <1>8, <2>2 DEF RecvFails, Discards, Inv, TypeFrames
  <2> QED
    BY <1>8, <2>3 DEF RecvFails, Discards, inVars, Flow
<1> QED
  BY <1>1, <1>2, <1>3, <1>4, <1>5, <1>6, <1>7, <1>8 DEF RecvStep

LEMMA WorkerFlow ==
  ASSUME Inv, Ordered, ~termed, WorkerStep \/ WorkerPollThrows \/ WorkerFails
  PROVE  Flow
<1>0. Worker \in All
  BY DEF All
<1>1. CASE WorkerTop \/ WorkerGrab \/ WorkerPolls \/ WorkerPollThrows
  BY <1>1 DEF WorkerTop, WorkerGrab, WorkerPolls, WorkerPollThrows, Flow
<1>2. CASE WorkerMisses \/ WorkerTermed \/ WorkerHandled \/ WorkerReplies
  BY <1>2 DEF WorkerMisses, WorkerTermed, WorkerHandled, WorkerReplies, Flow
<1>3. CASE WorkerIdentity
  BY <1>0, <1>3 DEF WorkerIdentity, Flow
<1>4. CASE WorkerFrame
  BY <1>0, <1>4 DEF WorkerFrame, Flow
<1>5. ~WorkerEndsEmpty
  BY MoreToCome DEF WorkerEndsEmpty
<1>6. CASE WorkerFails
  BY <1>6, MoreToCome DEF WorkerFails, Flow
<1>7. CASE WorkerCount
  BY <1>0, <1>7, HandsHeld DEF WorkerCount
<1> QED
  BY <1>1, <1>2, <1>3, <1>4, <1>5, <1>6, <1>7 DEF WorkerStep

LEMMA KeptNext ==
  ASSUME Inv, Ordered, Kept, [Next]_vars, ~termed
  PROVE  Kept'
<1>1. CASE UNCHANGED inVars
  BY <1>1 DEF inVars, Kept, Somewhere
<1>2. CASE Bind \/ UnbindClose
  <2>1. \A t \in All : held[t] = NoFrames
    BY <1>2, NoneRead
  <2>2. stream' = <<>> /\ inbox' = <<>> /\ handed' = <<>> /\ held' = held
    BY <1>2 DEF Bind, UnbindClose
  <2> QED
    BY <2>1, <2>2, KeptEmptied
<1>3. Flow
  BY OtherFlow, CallFlow, WorkerFlow
<1> QED
  BY <1>1, <1>2, <1>3, KeptTakes, KeptHands, KeptArrive DEF Flow

(* What holds of the frames unless the context ends or a call was made     *)
(* that the documentation rules out.                                       *)
WholeInv == termed \/ abused \/ (Ordered /\ Kept)

LEMMA WholeInit == Init => WholeInv
<1> SUFFICES ASSUME Init PROVE Ordered /\ Kept
  BY DEF WholeInv
<1>1. /\ stream = <<>> /\ inbox = <<>> /\ handed = <<>> /\ mutex = None /\ Len(handed) = 0
      /\ 1..0 = {} /\ \A t \in All : held[t] = NoFrames /\ pc[t] \in {"idle", "off"}
  BY DEF Init
<1>2. ToSet(<<>>) = {} /\ ToSet(NoFrames) = {}
  BY DEF ToSet, NoFrames
<1>3. Kept
  BY <1>1, <1>2 DEF Kept, Somewhere
<1>4. Arrived = 0
  BY <1>1, <1>2, FS_EmptySet DEF Arrived
<1>5. Numbered
  BY <1>1, <1>2, <1>4 DEF Numbered
<1>6. Continues(NoFrames, Len(handed) + 1, inbox, Arrived)
  BY <1>1, <1>4 DEF Continues
<1>7. Position
  BY <1>1, <1>6 DEF Position, All
<1>8. OneReader
  BY <1>1 DEF OneReader
<1>9. Chained(inbox)
  BY <1>1 DEF Chained
<1>10. \A t \in All : Reading(t)
  BY <1>1 DEF Reading, Phase2
<1> QED
  BY <1>1, <1>3, <1>5, <1>7, <1>8, <1>9, <1>10 DEF Ordered

LEMMA WholeNext == Inv /\ WholeInv /\ [Next]_vars => WholeInv'
<1> SUFFICES ASSUME Inv, WholeInv, [Next]_vars, ~termed', ~abused' PROVE Ordered' /\ Kept'
  BY DEF WholeInv
<1>1. ~termed /\ ~abused
  BY Sticky
<1>2. Ordered /\ Kept
  BY <1>1 DEF WholeInv
<1> QED
  BY <1>1, <1>2, OrderedNext, KeptNext

(* What arrives is handed over whole, in the order it arrived in and once, *)
(* and no frame of it is lost (zmq_router.cpp:133-206, 225-297).           *)
THEOREM MessagesIntact == Spec => []HandedOver
<1>1. WholeInv => HandedOver
  <2>1. WholeInv => MessagesWhole
    BY DEF WholeInv, Ordered, MessagesWhole
  <2>2. WholeInv => StreamConserved
    BY KeptConserves DEF WholeInv, StreamConserved
  <2> QED
    BY <2>1, <2>2 DEF HandedOver
<1> QED
  BY <1>1, InvAlways, InvNext, WholeInit, WholeNext, PTL DEF Spec
=============================================================================
