---------------------------- MODULE DealerProofs ----------------------------
(***************************************************************************)
(* Theorems about module DealerSocket, for any number of threads.  The     *)
(* raw pointer of the background thread is safe because of three facts     *)
(* that hold together: a background thread that is not off is joinable,    *)
(* the owner closes the socket only when none is, and whoever holds the    *)
(* mutex for a call found the socket open.                                 *)
(***************************************************************************)
EXTENDS DealerSocket, TLAPS

USE ThreadsAssumption, TimeoutsAssumption, BoundsAssumption

ClosesAfterJoin == pc[Owner] = "close" => ~joinable

Inv == TypeOK /\ WorkerOutlived /\ CallersKeepSocket /\ ClosesAfterJoin

LEMMA InvInit == Init => Inv
<1> SUFFICES ASSUME Init PROVE Inv
  OBVIOUS
<1> USE DEF Init, All
<1>1. TypeOK
  <2>1. TypePcs
    BY DEF TypePcs, WorkerLabels
  <2>2. MutexHeld
    BY DEF MutexHeld
  <2>3. TypeData
    <3>1. 0 \in 0..SndHwm /\ 0 \in 0..MaxIn /\ 0 \in 0..MaxCalls /\ 0 \in 0..MaxConnects
      OBVIOUS
    <3> QED
      BY <3>1 DEF TypeData
  <2> QED
    BY <2>1, <2>2, <2>3 DEF TypeOK
<1>2. WorkerOutlived /\ CallersKeepSocket /\ ClosesAfterJoin
  BY DEF WorkerOutlived, CallersKeepSocket, ClosesAfterJoin
<1> QED
  BY <1>1, <1>2 DEF Inv

LEMMA OwnerSteps ==
  ASSUME Inv,
         Connect \/ StartBackground \/ DisconnectBegin \/ DisconnectJoin \/ DisconnectClose
  PROVE  Inv'
<1> USE DEF Inv, TypeOK, TypePcs, MutexHeld, TypeData, WorkerOutlived, CallersKeepSocket, ClosesAfterJoin, All,
            WorkerLabels, Goto, ownVars, netVars, countVars
<1>1. CASE Connect
  BY <1>1 DEF Connect
<1>2. CASE StartBackground
  BY <1>2 DEF StartBackground
<1>3. CASE DisconnectBegin
  BY <1>3 DEF DisconnectBegin
<1>4. CASE DisconnectJoin
  BY <1>4 DEF DisconnectJoin
<1>5. CASE DisconnectClose
  <2>1. pc[Worker] = "off" /\ \A t \in All : pc[t] \notin {"send", "recv"}
    BY <1>5 DEF DisconnectClose
  <2>2. /\ pc' = [pc EXCEPT ![Owner] = "idle"]
        /\ mutex' = mutex /\ joinable' = joinable /\ sock' = FALSE
    BY <1>5 DEF DisconnectClose
  <2>3. TypePcs' /\ MutexHeld'
    BY <2>1, <2>2
  <2>4. TypeData'
    <3>1. 0 \in 0..SndHwm /\ dropped + incoming \in Nat
      OBVIOUS
    <3> QED
      BY <1>5, <2>2, <3>1 DEF DisconnectClose
  <2>5. (WorkerOutlived /\ CallersKeepSocket /\ ClosesAfterJoin)'
    BY <2>1, <2>2
  <2> QED
    BY <2>3, <2>4, <2>5
<1> QED
  BY <1>1, <1>2, <1>3, <1>4, <1>5

LEMMA CallSteps ==
  ASSUME Inv, NEW t \in All,
         SendBegin(t) \/ CallStep(t) \/ CallInterrupted(t) \/ (t \in Threads /\ RecvBegin(t))
  PROVE  Inv'
<1> USE DEF Inv, TypeOK, TypePcs, MutexHeld, TypeData, WorkerOutlived, CallersKeepSocket, ClosesAfterJoin, All,
            WorkerLabels, Goto, Return, Release, MayCall, ownVars, netVars, countVars
<1>1. CASE SendBegin(t)
  BY <1>1 DEF SendBegin
<1>2. CASE SendQueued(t)
  BY <1>2 DEF SendQueued
<1>3. CASE SendTimesOut(t)
  BY <1>3 DEF SendTimesOut
<1>4. CASE t \in Threads /\ RecvBegin(t)
  <2>1. /\ pc[t] = "idle" /\ mutex = None /\ t # Worker
        /\ \A u \in All : pc[u] \notin {"send", "recv"}
    BY <1>4 DEF RecvBegin
  <2>2. CASE sock
    <3>1. mutex' = t /\ pc' = [pc EXCEPT ![t] = "recv"] /\ rcvtimeo' \in {"finite", "infinite"}
      BY <1>4, <2>2 DEF RecvBegin
    <3> QED
      BY <1>4, <2>1, <2>2, <3>1 DEF RecvBegin
  <2>3. CASE ~sock
    <3>1. mutex' = None /\ pc' = [pc EXCEPT ![t] = "idle"] /\ rcvtimeo' = rcvtimeo
      BY <1>4, <2>1, <2>3 DEF RecvBegin
    <3> QED
      BY <1>4, <2>1, <2>3, <3>1 DEF RecvBegin
  <2> QED
    BY <2>2, <2>3
<1>5. CASE RecvGets(t)
  BY <1>5 DEF RecvGets
<1>6. CASE RecvTimesOut(t)
  BY <1>6 DEF RecvTimesOut
<1>7. CASE CallFails(t) \/ CallInterrupted(t)
  BY <1>7 DEF CallFails, CallInterrupted
<1> QED
  BY <1>1, <1>2, <1>3, <1>4, <1>5, <1>6, <1>7 DEF CallStep

LEMMA WorkerSteps ==
  ASSUME Inv, WorkerStep \/ WorkerInterrupted
  PROVE  Inv'
<1> USE DEF Inv, TypeOK, TypePcs, MutexHeld, TypeData, WorkerOutlived, CallersKeepSocket, ClosesAfterJoin, All,
            WorkerLabels, Goto, ownVars, netVars, countVars
<1>1. CASE WorkerTop
  BY <1>1 DEF WorkerTop
<1>2. CASE WorkerGrab
  BY <1>2 DEF WorkerGrab
<1>3. CASE WorkerEnters
  BY <1>3 DEF WorkerEnters
<1>4. CASE WorkerGets
  BY <1>4 DEF WorkerGets
<1>5. CASE WorkerTimesOut \/ WorkerInterrupted
  BY <1>5 DEF WorkerTimesOut, WorkerInterrupted
<1>6. CASE WorkerTermed
  BY <1>6 DEF WorkerTermed
<1>7. CASE WorkerCount \/ WorkerDelivers
  BY <1>7 DEF WorkerCount, WorkerDelivers
<1>8. CASE WorkerMissed \/ WorkerHandled
  BY <1>8 DEF WorkerMissed, WorkerHandled
<1> QED
  BY <1>1, <1>2, <1>3, <1>4, <1>5, <1>6, <1>7, <1>8 DEF WorkerStep

LEMMA OtherSteps ==
  ASSUME Inv, Arrive \/ PeerTakes \/ Terminate \/ UNCHANGED vars
  PROVE  Inv'
<1>1. CASE Arrive
  BY <1>1 DEF Arrive, Inv, TypeOK, TypePcs, MutexHeld, TypeData, WorkerOutlived, CallersKeepSocket, ClosesAfterJoin,
              ownVars, countVars
<1>2. CASE PeerTakes
  BY <1>2 DEF PeerTakes, Inv, TypeOK, TypePcs, MutexHeld, TypeData, WorkerOutlived, CallersKeepSocket, ClosesAfterJoin,
              ownVars, countVars
<1>3. CASE Terminate
  BY <1>3 DEF Terminate, Inv, TypeOK, TypePcs, MutexHeld, TypeData, WorkerOutlived,
              CallersKeepSocket, ClosesAfterJoin, ownVars, netVars, countVars
<1>4. CASE UNCHANGED vars
  <2> USE <1>4 DEF vars, ownVars, netVars, countVars
  <2>1. TypePcs' /\ MutexHeld'
    BY DEF Inv, TypeOK, TypePcs, MutexHeld
  <2>2. TypeData'
    BY DEF Inv, TypeOK, TypeData
  <2>3. (WorkerOutlived /\ CallersKeepSocket /\ ClosesAfterJoin)'
    BY DEF Inv, WorkerOutlived, CallersKeepSocket, ClosesAfterJoin
  <2> QED
    BY <2>1, <2>2, <2>3 DEF Inv, TypeOK
<1> QED
  BY <1>1, <1>2, <1>3, <1>4

LEMMA InvNext == Inv /\ [Next]_vars => Inv'
  BY OwnerSteps, CallSteps, WorkerSteps, OtherSteps DEF Next, All

LEMMA InvAlways == Spec => []Inv
  BY InvInit, InvNext, PTL DEF Spec

(* The mutex is held by the thread that is inside Send or Recv, by nobody  *)
(* otherwise, and every variable keeps its type.                           *)
THEOREM Typing == Spec => []TypeOK
  BY InvAlways, PTL DEF Inv

(* The raw pointer that the background thread uses without the mutex never *)
(* dangles, and no handler runs once Disconnect has returned               *)
(* (zmq_dealer.cpp:49-61, 172-212).                                        *)
THEOREM RawPointerSafe == Spec => []WorkerOutlived
  BY InvAlways, PTL DEF Inv

(* Disconnect never resets the socket inside somebody's Send or Recv       *)
(* (zmq_dealer.cpp:56-60).                                                 *)
THEOREM CallersSafe == Spec => []CallersKeepSocket
  BY InvAlways, PTL DEF Inv

(* Nobody, with the mutex or without it, uses a socket that Disconnect has *)
(* reset (zmq_dealer.cpp:49-61).                                           *)
THEOREM Lifetimes == Spec => []LifetimesKept
  BY RawPointerSafe, CallersSafe, PTL DEF LifetimesKept

-----------------------------------------------------------------------------
(* Conservation of the messages received.                                  *)

LEMMA ConservedNext == Inv /\ MessagesConserved /\ [Next]_vars => MessagesConserved'
<1> SUFFICES ASSUME Inv, MessagesConserved, [Next]_vars PROVE MessagesConserved'
  OBVIOUS
<1> USE DEF MessagesConserved, Goto, Return, Release, ownVars, netVars, countVars
<1>0. /\ arrived \in Int /\ incoming \in Int /\ recv_ok \in Int /\ handed \in Int /\ dropped \in Int
      /\ pc \in [All -> WorkerLabels \cup {"idle", "recv", "join", "close"}]
      /\ pc[Worker] # "idle" /\ pc[Owner] \notin {"count", "deliver", "off"}
      /\ Worker \in All /\ Owner \in All /\ Worker # Owner
  BY DEF Inv, TypeOK, TypePcs, TypeData, All, WorkerLabels
<1>1. CASE Connect
  BY <1>0, <1>1 DEF Connect
<1>2. CASE StartBackground
  BY <1>0, <1>2 DEF StartBackground, Inv, WorkerOutlived
<1>3. CASE DisconnectBegin
  BY <1>0, <1>3 DEF DisconnectBegin
<1>4. CASE DisconnectJoin
  BY <1>0, <1>4 DEF DisconnectJoin
<1>5. CASE DisconnectClose
  BY <1>0, <1>5 DEF DisconnectClose
<1>6. ASSUME NEW t \in All, SendBegin(t) PROVE MessagesConserved'
  BY <1>0, <1>6 DEF SendBegin, MayCall
<1>7. ASSUME NEW t \in Threads, RecvBegin(t) PROVE MessagesConserved'
  BY <1>0, <1>7 DEF RecvBegin, MayCall, All
<1>8. ASSUME NEW t \in All, CallStep(t) \/ CallInterrupted(t) PROVE MessagesConserved'
  <2>1. CASE SendQueued(t) \/ SendTimesOut(t) \/ RecvTimesOut(t) \/ CallFails(t) \/ CallInterrupted(t)
    BY <1>0, <2>1 DEF SendQueued, SendTimesOut, RecvTimesOut, CallFails, CallInterrupted
  <2>2. CASE RecvGets(t)
    BY <1>0, <2>2 DEF RecvGets
  <2> QED
    BY <1>8, <2>1, <2>2 DEF CallStep
<1>9. CASE WorkerStep \/ WorkerInterrupted
  <2>1. CASE WorkerGets
    BY <1>0, <2>1 DEF WorkerGets
  <2>2. CASE WorkerCount
    BY <1>0, <2>2 DEF WorkerCount
  <2>3. CASE WorkerDelivers
    BY <1>0, <2>3 DEF WorkerDelivers
  <2>4. CASE ~WorkerGets /\ ~WorkerCount /\ ~WorkerDelivers
    BY <1>0, <1>9, <2>4 DEF WorkerStep, WorkerInterrupted, WorkerTop, WorkerGrab, WorkerEnters,
       WorkerTimesOut, WorkerTermed, WorkerMissed, WorkerHandled
  <2> QED
    BY <2>1, <2>2, <2>3, <2>4
<1>10. CASE Arrive
  BY <1>0, <1>10 DEF Arrive
<1>11. CASE PeerTakes \/ Terminate \/ UNCHANGED vars
  BY <1>11 DEF PeerTakes, Terminate, vars
<1> QED
  BY <1>1, <1>2, <1>3, <1>4, <1>5, <1>6, <1>7, <1>8, <1>9, <1>10, <1>11 DEF Next

(* No message is lost between the socket and the handler, nor handed over  *)
(* twice, whoever receives and whenever Disconnect is called               *)
(* (zmq_dealer.cpp:89-124, 172-212).                                       *)
THEOREM Conservation == Spec => []MessagesConserved
<1>1. Init => MessagesConserved
  BY DEF Init, MessagesConserved, All
<1> QED
  BY <1>1, ConservedNext, InvAlways, PTL DEF Spec
=============================================================================
