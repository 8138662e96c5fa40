---------------------------- MODULE LegacyProofs ----------------------------
(***************************************************************************)
(* Theorems about module Legacy.  Those about the request/reply pair go as *)
(* in ReqRepProofs, but a request changes on its way from the caller to    *)
(* the server, so that it is the ticket that is in one place only, and a   *)
(* codec may leave a REP socket owing a reply for good. Those about the    *)
(* publish/subscribe pair go as in PubSubProofs, but a codec may refuse a  *)
(* message, and the tester takes messages apart into frames.               *)
(***************************************************************************)
EXTENDS Legacy, TLAPS, SequenceTheorems, FiniteSetTheorems, MessageLemmas

USE PollersAssumption, NoneAssumption, BoundsAssumption, TopicsAssumption

-----------------------------------------------------------------------------
(* The request/reply pair.                                                 *)

Callers == Clients \cup Testers

Held == {pollReq[p] : p \in Pollers} \ {None}
InFlight == outgoing \cup requests \cup replies \cup Held

(* A ticket is in one place only.                                          *)
OnePlace ==
  /\ outgoing \cap requests = {} /\ outgoing \cap replies = {} /\ requests \cap replies = {}
  /\ \A p \in Pollers : pollReq[p] \notin outgoing \cup requests \cup replies
  /\ \A p, q \in Pollers : (pollReq[p] = pollReq[q] /\ pollReq[p] # None) => p = q
  /\ \A r, s \in InFlight : r.ticket = s.ticket => r = s

(* What is in flight on the connection a caller has now.                   *)
Current(c) == {r \in InFlight : r.client = c /\ r.conn = conn[c]}

TicketsUsed == \A r \in InFlight : r.ticket <= tickets /\ r.conn <= conn[r.client]

OneAtATime ==
  \A c \in Callers :
    /\ sock[c] = "ready" => Current(c) = {}
    /\ calling[c] # 0 => \A r \in Current(c) : r.ticket = calling[c]

Flight == TicketsUsed /\ OneAtATime /\ Pair!NoStaleReply

PollersHold == \A p \in Pollers : pollReq[p] # None <=> pollPc[p] = "handling"

Counters ==
  /\ tickets \in 0..MaxTickets
  /\ \A c \in Callers : sock[c] # "none" => conn[c] # 0

(* The thread runs only until it is joined, and m_socket keeps its socket  *)
(* alive.                                                                  *)
Threads ==
  /\ ~joinable => pollPc[Background] = "off"
  /\ m_socket \in open \cup {0}

PairInv ==
  Pair!TypeOK /\ Counters /\ Threads /\ PollersHold /\ OnePlace /\ Flight /\ Pair!Unwedged

LEMMA PairInit == Pair!Init => PairInv
<1> SUFFICES ASSUME Pair!Init PROVE PairInv
  OBVIOUS
<1> USE DEF Pair!Init
<1>1. Pair!TypeOK
  <2>1. gens \in 0..MaxGens /\ m_socket \in 0..gens /\ 0 \in 0..gens
    OBVIOUS
  <2>2. \A c \in Pair!Callers : conn[c] \in 0..MaxConns /\ calling[c] \in 0..tickets
    OBVIOUS
  <2>3. pollPc \in [Pollers -> {"off", "top", "idle", "polling", "handling", "ended"}]
    OBVIOUS
  <2> QED
    BY <2>1, <2>2, <2>3 DEF Pair!TypeOK
<1>2. InFlight = {}
  BY DEF InFlight, Held
<1>3. OnePlace /\ Flight
  BY <1>2 DEF OnePlace, Flight, TicketsUsed, OneAtATime, Current, Pair!NoStaleReply, Pair!Callers, Callers
<1>4. Counters /\ Threads /\ PollersHold /\ Pair!Unwedged
  BY DEF Counters, Threads, PollersHold, Pair!Unwedged, Callers, Pair!Callers
<1> QED
  BY <1>1, <1>3, <1>4 DEF PairInv

-----------------------------------------------------------------------------
(* Its control thread.                                                     *)

LEMMA ControlTypes ==
  ASSUME PairInv, Pair!Control
  PROVE  Pair!TypeOK' /\ Threads'
<1> USE DEF PairInv, Pair!TypeOK, Threads, Pair!ctlVars, Pair!serverVars, Pair!pollVars, Pair!callVars,
            Pair!netVars
<1>1. CASE Pair!Start
  <2>1. /\ gens \in Nat /\ gens' = gens + 1 /\ gens' \in 0..MaxGens
        /\ 0..gens \subseteq 0..gens' /\ 1..gens \subseteq 1..gens' /\ gens' \in 1..gens'
    BY <1>1 DEF Pair!Start
  <2>2. /\ m_socket' = gens' /\ open' = open \cup {gens'} /\ m_running' = TRUE
        /\ UNCHANGED <<ctl, m_handler, joinable, Pair!pollVars, Pair!callVars, Pair!netVars>>
    BY <1>1, <2>1 DEF Pair!Start
  <2>3. m_socket' \in 0..gens' /\ open' \subseteq 1..gens'
    BY <2>1, <2>2
  <2>4. pollSock' = pollSock /\ \A p \in Pollers : pollSock[p] \in 0..gens'
    BY <2>1, <2>2
  <2>5. pollSock' \in [Pollers -> 0..gens']
    BY <2>4
  <2>6. owes' \subseteq 1..gens' /\ refused' \subseteq 1..gens'
    BY <2>1, <2>2
  <2> QED
    BY <2>1, <2>2, <2>3, <2>5, <2>6
<1>2. CASE Pair!SetHandler \/ Pair!StopBegin
  BY <1>2 DEF Pair!SetHandler, Pair!StopBegin
<1>3. CASE Pair!StartBackground
  BY <1>3 DEF Pair!StartBackground
<1>4. CASE Pair!StopJoin
  BY <1>4 DEF Pair!StopJoin
<1>5. CASE Pair!StopClose
  <2>1. open' \subseteq open /\ requests' \subseteq requests /\ m_socket' = 0 /\ ctl' = "idle"
    BY <1>5 DEF Pair!StopClose, Pair!Close
  <2>2. UNCHANGED <<gens, m_handler, joinable, m_running, Pair!pollVars, Pair!callVars, outgoing, replies>>
    BY <1>5 DEF Pair!StopClose
  <2> QED
    BY <2>1, <2>2
<1> QED
  BY <1>1, <1>2, <1>3, <1>4, <1>5 DEF Pair!Control

LEMMA ControlUnwedged ==
  ASSUME PairInv, Pair!Control
  PROVE  PollersHold' /\ Pair!Unwedged'
<1> USE DEF PairInv, Pair!TypeOK, Threads, PollersHold, Pair!Unwedged, Pair!Holders,
            Pair!ctlVars, Pair!serverVars, Pair!pollVars, Pair!callVars, Pair!netVars
<1>1. CASE Pair!Start
  <2>1. gens \in Nat /\ gens + 1 \notin 1..gens
    OBVIOUS
  <2> QED
    BY <1>1, <2>1 DEF Pair!Start
<1>2. CASE Pair!SetHandler
  BY <1>2 DEF Pair!SetHandler
<1>3. CASE Pair!StopBegin
  BY <1>3 DEF Pair!StopBegin
<1>4. CASE Pair!StartBackground
  BY <1>4 DEF Pair!StartBackground
<1>5. CASE Pair!StopJoin
  BY <1>5 DEF Pair!StopJoin
<1>6. CASE Pair!StopClose
  <2>1. open' = open \/ (open' = open \ {m_socket} /\ \A p \in Pollers : pollSock[p] # m_socket)
    BY <1>6 DEF Pair!StopClose, Pair!Close
  <2>2. UNCHANGED <<owes, refused, pollPc, pollSock, pollReq>>
    BY <1>6 DEF Pair!StopClose
  <2> QED
    BY <2>1, <2>2
<1> QED
  BY <1>1, <1>2, <1>3, <1>4, <1>5, <1>6 DEF Pair!Control

-----------------------------------------------------------------------------
(* PollOnce.                                                               *)

Poll(p) == Pair!LoopTop \/ Pair!PollStep(p)

LEMMA LettingGo ==
  ASSUME PairInv, NEW p \in Pollers, Pair!LetGo(p), m_socket' = m_socket, joinable' = joinable,
         pollPc[p] \in {"polling", "handling"}
  PROVE  /\ Threads' /\ PollersHold'
         /\ open' \subseteq open /\ requests' \subseteq requests
         /\ pollPc' \in [Pollers -> {"off", "top", "idle", "polling", "handling", "ended"}]
         /\ pollSock' \in [Pollers -> 0..gens] /\ pollReq' \in [Pollers -> Pair!Requests \cup {None}]
         /\ pollReq' = [pollReq EXCEPT ![p] = None] /\ pollSock' = [pollSock EXCEPT ![p] = 0]
         /\ \A q \in Pollers : pollSock'[q] # 0 <=> pollPc'[q] \in {"polling", "handling"}
         /\ \A q \in Pollers : pollSock'[q] \in open' \cup {0}
         /\ pollPc'[p] # "handling" /\ \A q \in Pollers \ {p} : pollPc'[q] = pollPc[q]
<1> USE DEF PairInv, Pair!TypeOK, Pair!LetGo, Pair!Back
<1>1. open' \subseteq open /\ requests' \subseteq requests
  BY DEF Pair!Close
<1>2. PICK label \in {"top", "idle"} :
        /\ pollPc' = [pollPc EXCEPT ![p] = label]
        /\ label = "top" => p = Background
  OBVIOUS
<1>3. pollSock' = [pollSock EXCEPT ![p] = 0] /\ pollReq' = [pollReq EXCEPT ![p] = None]
  OBVIOUS
<1>4. open' = open \/ (/\ open' = open \ {pollSock[p]} /\ pollSock[p] # m_socket
                       /\ Pair!Holders(pollSock[p]) = {p})
  BY DEF Pair!Close
<1>5. \A q \in Pollers : pollSock'[q] \in open' \cup {0}
  BY <1>3, <1>4 DEF Pair!Holders, Pair!Unwedged
<1>6. Threads'
  BY <1>2, <1>4 DEF Threads
<1>7. PollersHold'
  BY <1>2, <1>3 DEF PollersHold
<1>8. 0 \in 0..gens
  OBVIOUS
<1> QED
  BY <1>1, <1>2, <1>3, <1>5, <1>6, <1>7, <1>8

LEMMA PollTypes ==
  ASSUME PairInv, NEW p \in Pollers, Poll(p)
  PROVE  Pair!TypeOK' /\ Threads' /\ PollersHold'
<1> USE DEF Poll, Pair!ctlVars, Pair!serverVars, Pair!pollVars, Pair!callVars, Pair!netVars
<1>1. CASE Pair!LoopTop
  BY <1>1 DEF Pair!LoopTop, PairInv, Pair!TypeOK, Threads, PollersHold
<1>2. CASE Pair!PollBegin(p)
  <2> DEFINE Pcs == {"off", "top", "idle", "polling", "handling", "ended"}
  <2>1. PICK label \in Pcs :
          /\ pollPc' = [pollPc EXCEPT ![p] = label] /\ label # "handling" /\ pollPc[p] = "idle"
          /\ p = Background \/ ~joinable
          /\ p # Background => label \in {"idle", "polling"}
    BY <1>2 DEF Pair!PollBegin, Pair!Back
  <2>2. /\ UNCHANGED <<Pair!ctlVars, Pair!serverVars, pollReq, owes, refused, Pair!callVars, Pair!netVars>>
        /\ pollSock' \in {pollSock, [pollSock EXCEPT ![p] = m_socket]}
    BY <1>2 DEF Pair!PollBegin
  <2>3. pollPc' \in [Pollers -> Pcs] /\ pollSock' \in [Pollers -> 0..gens]
    BY <2>1, <2>2 DEF PairInv, Pair!TypeOK
  <2>7. \A q \in Pollers : pollSock'[q] # 0 <=> pollPc'[q] \in {"polling", "handling"}
    <3>1. \A q \in Pollers : pollSock[q] # 0 <=> pollPc[q] \in {"polling", "handling"}
      BY DEF PairInv, Pair!TypeOK
    <3>2. pollPc \in [Pollers -> Pcs] /\ pollSock \in [Pollers -> 0..gens]
      BY DEF PairInv, Pair!TypeOK
    <3>3. CASE /\ m_socket # 0 /\ pollPc' = [pollPc EXCEPT ![p] = "polling"]
               /\ pollSock' = [pollSock EXCEPT ![p] = m_socket]
      BY <3>1, <3>2, <3>3
    <3>4. CASE pollPc' = [pollPc EXCEPT ![p] = Pair!Back(p)] /\ pollSock' = pollSock
      <4>1. Pair!Back(p) \notin {"polling", "handling"} /\ pollPc[p] \notin {"polling", "handling"}
        BY <2>1 DEF Pair!Back
      <4> QED
        BY <3>1, <3>2, <3>4, <4>1
    <3> QED
      BY <1>2, <3>3, <3>4 DEF Pair!PollBegin
  <2>4. Pair!TypeOK'
    BY <2>2, <2>3, <2>7 DEF PairInv, Pair!TypeOK
  <2>5. Threads'
    <3>1. joinable' = joinable /\ m_socket' = m_socket /\ open' = open
      BY <2>2
    <3>2. ~joinable => pollPc[Background] = "off" /\ p # Background
      BY <2>1 DEF PairInv, Threads
    <3>3. ~joinable => pollPc'[Background] = "off"
      BY <2>1, <3>2 DEF PairInv, Pair!TypeOK
    <3> QED
      BY <3>1, <3>3 DEF PairInv, Threads
  <2>6. PollersHold'
    BY <2>1, <2>2 DEF PairInv, Pair!TypeOK, PollersHold
  <2> QED
    BY <2>4, <2>5, <2>6
<1>3. CASE Pair!PollNothing(p) \/ Pair!PollRefused(p)
  <2>1. /\ Pair!LetGo(p) /\ pollPc[p] \in {"polling", "handling"}
        /\ UNCHANGED <<Pair!ctlVars, m_socket, m_running, owes, Pair!callVars, outgoing, replies>>
        /\ refused' \in {refused, refused \cup {pollSock[p]}}
    BY <1>3 DEF Pair!PollNothing, Pair!PollRefused
  <2>2. refused' \subseteq 1..gens
    BY <2>1 DEF PairInv, Pair!TypeOK
  <2> QED
    BY <2>1, <2>2, LettingGo DEF PairInv, Pair!TypeOK
<1>4. CASE Pair!PollRecv(p)
  <2>1. PICK r \in requests : requests' = requests \ {r} /\ pollReq' = [pollReq EXCEPT ![p] = r]
    BY <1>4 DEF Pair!PollRecv
  <2>2. r \in Pair!Requests /\ r # None
    BY DEF PairInv, Pair!TypeOK, Pair!Requests, Pair!Callers
  <2>3. pollSock[p] \in 1..gens
    BY <1>4 DEF Pair!PollRecv, PairInv, Pair!TypeOK
  <2> QED
    BY <1>4, <2>1, <2>2, <2>3 DEF Pair!PollRecv, PairInv, Pair!TypeOK, Threads, PollersHold
<1>5. CASE Pair!PollReply(p)
  <2>1. /\ Pair!LetGo(p) /\ pollPc[p] = "handling"
        /\ UNCHANGED <<Pair!ctlVars, m_socket, m_running, refused, Pair!callVars, outgoing>>
        /\ replies' \subseteq replies \cup {pollReq[p]} /\ owes' \subseteq owes
    BY <1>5 DEF Pair!PollReply
  <2>2. pollReq[p] \in Pair!Requests
    BY <2>1 DEF PairInv, Pair!TypeOK, PollersHold
  <2> QED
    BY <2>1, <2>2, LettingGo DEF PairInv, Pair!TypeOK
<1> QED
  BY <1>1, <1>2, <1>3, <1>4, <1>5 DEF Pair!PollStep

LEMMA PollUnwedged ==
  ASSUME PairInv, NEW p \in Pollers, Poll(p)
  PROVE  Pair!Unwedged'
<1> USE DEF Poll, PairInv, Pair!Unwedged, Pair!Holders,
            Pair!ctlVars, Pair!serverVars, Pair!pollVars, Pair!callVars, Pair!netVars
<1>0. /\ pollPc \in [Pollers -> {"off", "top", "idle", "polling", "handling", "ended"}]
      /\ pollSock \in [Pollers -> 0..gens]
  BY DEF Pair!TypeOK
<1>1. CASE Pair!LoopTop
  BY <1>0, <1>1 DEF Pair!LoopTop
<1>2. CASE Pair!PollBegin(p)
  <2>1. /\ pollSock[p] = 0 /\ m_socket \in open \cup {0} /\ UNCHANGED <<open, owes, refused>>
        /\ pollPc[p] = "idle"
        /\ pollSock' = pollSock \/ pollSock' = [pollSock EXCEPT ![p] = m_socket]
    BY <1>2 DEF Pair!PollBegin, Pair!TypeOK, Threads
  <2>2. \A q \in Pollers \ {p} : pollPc'[q] = pollPc[q] /\ pollSock'[q] = pollSock[q]
    BY <1>0, <1>2 DEF Pair!PollBegin
  <2>3. \A q \in Pollers : pollSock'[q] \in open' \cup {0}
    BY <1>0, <2>1
  <2> QED
    BY <2>1, <2>2, <2>3
<1>3. CASE Pair!PollNothing(p)
  BY <1>0, <1>3, LettingGo DEF Pair!PollNothing
<1>4. CASE Pair!PollRecv(p)
  BY <1>0, <1>4 DEF Pair!PollRecv
<1>5. CASE Pair!PollRefused(p)
  BY <1>0, <1>5, LettingGo DEF Pair!PollRefused
<1>6. CASE Pair!PollReply(p)
  BY <1>0, <1>6, LettingGo DEF Pair!PollReply
<1> QED
  BY <1>1, <1>2, <1>3, <1>4, <1>5, <1>6 DEF Pair!PollStep

-----------------------------------------------------------------------------
(* The callers and ZeroMQ: types.                                          *)

Call(c) == (c \in Clients /\ Pair!ClientStep(c))
           \/ (c \in Testers /\ (Pair!TesterSend(c) \/ Pair!TesterStep(c)))

LEMMA CallQuiet ==
  ASSUME PairInv, NEW c \in Callers, Call(c) \/ Pair!Transmit
  PROVE  /\ UNCHANGED <<Pair!ctlVars, Pair!serverVars, Pair!pollVars>>
         /\ Threads' /\ PollersHold' /\ Pair!Unwedged'
<1>1. UNCHANGED <<Pair!ctlVars, Pair!serverVars, Pair!pollVars>>
  BY DEF Call, Pair!Transmit, Pair!ClientStep, Pair!Connect, Pair!Disconnect, Pair!CallSend,
         Pair!CallReturns, Pair!CallGivesUp, Pair!TesterSend, Pair!TesterStep, Pair!TesterReturns,
         Pair!TesterGivesUp, Pair!TesterEnds
<1> QED
  BY <1>1 DEF PairInv, Threads, PollersHold, Pair!Unwedged, Pair!Holders,
              Pair!ctlVars, Pair!serverVars, Pair!pollVars

(* The variables of the callers and the messages keep their types.         *)
CallTypes ==
  /\ sock \in [Callers -> {"none", "ready", "awaiting", "closed"}]
  /\ conn \in [Callers -> 0..MaxConns] /\ calling \in [Callers -> 0..tickets]
  /\ \A c \in Callers : calling[c] # 0 => sock[c] = "awaiting"
  /\ outgoing \subseteq Pair!Requests /\ requests \subseteq Pair!Requests /\ replies \subseteq Pair!Requests

LEMMA Sending ==
  ASSUME CallTypes, Counters, NEW c \in Callers, NEW n \in 1..MaxConns, Pair!Sends(c, n),
         requests' = requests, replies' = replies,
         conn' \in [Callers -> 0..MaxConns], conn'[c] = n,
         \A d \in Callers \ {c} : conn'[d] = conn[d]
  PROVE  CallTypes' /\ Counters'
<1>9. tickets \in Nat /\ \A d \in Callers : calling[d] \in 0..tickets
  BY DEF CallTypes, Counters
<1>10. tickets' = tickets + 1
  BY DEF Pair!Sends
<1>3. \A d \in Callers : calling[d] \in 0..tickets'
  BY <1>9, <1>10
<1> USE DEF CallTypes, Counters, Pair!Sends
<1>1. tickets \in Nat /\ tickets' = tickets + 1 /\ tickets' \in 1..MaxTickets
  OBVIOUS
<1>2. [ticket |-> tickets + 1, client |-> c, conn |-> n, at |-> 0] \in Pair!Requests
  BY <1>1 DEF Pair!Requests, Pair!Callers, Callers
<1>4. calling' = [calling EXCEPT ![c] = tickets'] /\ calling' \in [Callers -> 0..tickets']
  BY <1>1, <1>3
<1>5. outgoing' \subseteq Pair!Requests
  BY <1>2
<1>6. sock' = [sock EXCEPT ![c] = "awaiting"]
  OBVIOUS
<1>7. CallTypes'
  <2>1. sock' \in [Callers -> {"none", "ready", "awaiting", "closed"}]
    BY <1>6
  <2>2. \A d \in Callers : calling'[d] # 0 => sock'[d] = "awaiting"
    BY <1>4, <1>6
  <2> QED
    BY <1>4, <1>5, <2>1, <2>2
<1>8. Counters'
  BY <1>1, <1>6
<1> QED
  BY <1>7, <1>8

LEMMA CallKeeps ==
  ASSUME PairInv, NEW c \in Callers, Call(c) \/ Pair!Transmit
  PROVE  CallTypes' /\ Counters'
<1>0. CallTypes /\ Counters /\ m_socket \in 0..MaxGens
  BY DEF PairInv, Pair!TypeOK, CallTypes, Callers, Pair!Callers
<1> USE DEF CallTypes, Counters, Pair!callVars, Pair!netVars
<1>1. CASE Pair!Transmit
  <2>1. PICK r \in outgoing : /\ outgoing' = outgoing \ {r}
                              /\ requests' = requests \cup {[r EXCEPT !.at = m_socket]}
                              /\ replies' = replies
    BY <1>1 DEF Pair!Transmit
  <2>2. [r EXCEPT !.at = m_socket] \in Pair!Requests
    BY <1>0 DEF Pair!Requests
  <2> QED
    BY <1>0, <1>1, <2>1, <2>2 DEF Pair!Transmit
<1>2. CASE Pair!Connect(c)
  <2>1. /\ sock[c] = "none" /\ sock' = [sock EXCEPT ![c] = "ready"]
        /\ conn' = [conn EXCEPT ![c] = conn[c] + 1] /\ conn[c] + 1 \in 1..MaxConns
        /\ UNCHANGED <<calling, tickets, outgoing, requests, replies>>
    BY <1>0, <1>2 DEF Pair!Connect
  <2>2. CallTypes'
    BY <1>0, <2>1
  <2>3. Counters'
    BY <1>0, <2>1
  <2> QED
    BY <2>2, <2>3
<1>3. CASE Pair!Disconnect(c)
  BY <1>0, <1>3 DEF Pair!Disconnect
<1>4. CASE Pair!CallSend(c)
  <2>1. conn[c] \in 1..MaxConns
    BY <1>0, <1>4 DEF Pair!CallSend
  <2> QED
    BY <1>0, <1>4, <2>1, Sending DEF Pair!CallSend
<1>5. CASE Pair!CallReturns(c)
  BY <1>0, <1>5 DEF Pair!CallReturns, Pair!Receives
<1>6. CASE Pair!CallGivesUp(c)
  BY <1>0, <1>6 DEF Pair!CallGivesUp
<1>7. CASE Pair!TesterSend(c)
  <2>1. conn[c] + 1 \in 1..MaxConns /\ conn' = [conn EXCEPT ![c] = conn[c] + 1]
    BY <1>0, <1>7 DEF Pair!TesterSend
  <2>2. conn' \in [Callers -> 0..MaxConns] /\ conn'[c] = conn[c] + 1
    BY <1>0, <2>1
  <2> QED
    BY <1>0, <1>7, <2>1, <2>2, Sending DEF Pair!TesterSend
<1>8. CASE Pair!TesterReturns(c)
  BY <1>0, <1>8 DEF Pair!TesterReturns, Pair!Receives
<1>9. CASE Pair!TesterGivesUp(c)
  BY <1>0, <1>9 DEF Pair!TesterGivesUp
<1>10. CASE Pair!TesterEnds(c)
  BY <1>0, <1>10 DEF Pair!TesterEnds
<1> QED
  BY <1>1, <1>2, <1>3, <1>4, <1>5, <1>6, <1>7, <1>8, <1>9, <1>10
  DEF Call, Pair!ClientStep, Pair!TesterStep

-----------------------------------------------------------------------------
(* Replies.                                                                *)

LEMMA InFlightTypes ==
  ASSUME PairInv
  PROVE  /\ InFlight \subseteq Pair!Requests /\ None \notin Pair!Requests
         /\ \A r \in InFlight : r.ticket \in Nat /\ r.client \in Callers /\ r.conn \in Nat
<1>1. InFlight \subseteq Pair!Requests
  BY DEF PairInv, Pair!TypeOK, InFlight, Held
<1>2. None \notin Pair!Requests
  BY DEF Pair!Requests, Pair!Callers
<1>3. \A r \in Pair!Requests : r.ticket \in Nat /\ r.client \in Callers /\ r.conn \in Nat
  BY DEF Pair!Requests, Pair!Callers, Callers
<1> QED
  BY <1>1, <1>2, <1>3

LEMMA CallerTypes ==
  ASSUME PairInv
  PROVE  /\ sock \in [Callers -> {"none", "ready", "awaiting", "closed"}]
         /\ conn \in [Callers -> Nat] /\ calling \in [Callers -> Nat] /\ tickets \in Nat
         /\ \A d \in Callers : calling[d] # 0 => sock[d] = "awaiting"
<1>1. tickets \in Nat /\ 0..tickets \subseteq Nat /\ 0..MaxConns \subseteq Nat
  BY DEF PairInv, Counters
<1>2. /\ sock \in [Callers -> {"none", "ready", "awaiting", "closed"}]
      /\ conn \in [Callers -> 0..MaxConns] /\ calling \in [Callers -> 0..tickets]
      /\ \A d \in Callers : calling[d] # 0 => sock[d] = "awaiting"
  BY DEF PairInv, Pair!TypeOK, Pair!Callers, Callers
<1>3. conn \in [Callers -> Nat]
  BY <1>1, <1>2
<1>4. calling \in [Callers -> Nat]
  BY <1>1, <1>2
<1> QED
  BY <1>1, <1>2, <1>3, <1>4

(* What is in flight may dwindle, change its place or be given up.         *)
LEMMA Dwindles ==
  ASSUME Flight, UNCHANGED <<conn, tickets, returned>>,
         \A r \in InFlight' : \E s \in InFlight :
            r.ticket = s.ticket /\ r.client = s.client /\ r.conn = s.conn,
         \A c \in Callers : /\ sock'[c] = "ready" => sock[c] = "ready"
                            /\ calling'[c] # 0 => calling'[c] = calling[c]
  PROVE  Flight'
<1>0. \A c \in Callers : /\ sock[c] = "ready" => Current(c) = {}
                         /\ calling[c] # 0 => \A r \in Current(c) : r.ticket = calling[c]
  BY DEF Flight, OneAtATime
<1>1. TicketsUsed'
  BY DEF Flight, TicketsUsed
<1>2. ASSUME NEW c \in Callers
      PROVE  /\ (sock'[c] = "ready" => Current(c)' = {})
             /\ (calling'[c] # 0 => \A r \in Current(c)' : r.ticket = calling'[c])
  <2>1. \A r \in Current(c)' : \E s \in Current(c) : r.ticket = s.ticket
    BY DEF Current
  <2>2. ASSUME sock'[c] = "ready" PROVE Current(c)' = {}
    <3>1. Current(c) = {}
      BY <1>0, <2>2
    <3> QED
      BY <2>1, <3>1
  <2>3. ASSUME calling'[c] # 0, NEW r \in Current(c)' PROVE r.ticket = calling'[c]
    <3>1. PICK s \in Current(c) : r.ticket = s.ticket
      BY <2>1
    <3>2. s.ticket = calling[c] /\ calling[c] = calling'[c]
      BY <1>0, <2>3
    <3> QED
      BY <3>1, <3>2
  <2> QED
    BY <2>2, <2>3
<1> QED
  BY <1>1, <1>2 DEF Flight, OneAtATime, Pair!NoStaleReply

LEMMA Fewer ==
  ASSUME OnePlace, outgoing' \subseteq outgoing, requests' \subseteq requests,
         replies' \subseteq replies, pollReq' = pollReq
  PROVE  OnePlace' /\ InFlight' \subseteq InFlight
<1>1. Held' = Held
  BY DEF Held
<1>2. InFlight' \subseteq InFlight
  BY <1>1 DEF InFlight
<1> QED
  BY <1>2 DEF OnePlace

LEMMA ControlFlight ==
  ASSUME PairInv, Pair!Control
  PROVE  OnePlace' /\ Flight' /\ Counters'
<1>1. /\ requests' \subseteq requests /\ UNCHANGED <<outgoing, replies, pollReq>>
      /\ UNCHANGED Pair!callVars
  BY DEF Pair!Control, Pair!Start, Pair!SetHandler, Pair!StartBackground, Pair!StopBegin,
         Pair!StopJoin, Pair!StopClose, Pair!Close, Pair!pollVars, Pair!netVars
<1>2. OnePlace' /\ InFlight' \subseteq InFlight
  BY <1>1, Fewer DEF PairInv
<1>3. Flight'
  BY <1>1, <1>2, Dwindles DEF PairInv, Pair!callVars
<1> QED
  BY <1>1, <1>2, <1>3 DEF PairInv, Counters, Pair!callVars

LEMMA PollFlight ==
  ASSUME PairInv, NEW p \in Pollers, Poll(p)
  PROVE  OnePlace' /\ Flight' /\ Counters'
<1>0. /\ pollReq \in [Pollers -> Pair!Requests \cup {None}]
      /\ InFlight \subseteq Pair!Requests /\ None \notin Pair!Requests /\ OnePlace
  BY InFlightTypes DEF PairInv, Pair!TypeOK
<1>1. UNCHANGED Pair!callVars
  BY DEF Poll, Pair!LoopTop, Pair!PollStep, Pair!PollBegin, Pair!PollNothing, Pair!PollRecv,
         Pair!PollRefused, Pair!PollReply
<1>2. OnePlace' /\ InFlight' \subseteq InFlight
  <2>1. CASE Pair!LoopTop \/ Pair!PollBegin(p)
    BY <1>0, <2>1, Fewer DEF Pair!LoopTop, Pair!PollBegin, Pair!netVars
  <2>2. CASE Pair!PollNothing(p) \/ Pair!PollRefused(p)
    <3>1. /\ requests' \subseteq requests /\ UNCHANGED <<outgoing, replies>>
          /\ pollReq' = [pollReq EXCEPT ![p] = None]
      BY <2>2 DEF Pair!PollNothing, Pair!PollRefused, Pair!LetGo, Pair!Close
    <3>2. InFlight' \subseteq InFlight
      BY <1>0, <3>1 DEF InFlight, Held
    <3> QED
      BY <1>0, <3>1, <3>2 DEF OnePlace, InFlight
  <2>3. CASE Pair!PollRecv(p)
    <3>1. PICK r \in requests : /\ requests' = requests \ {r}
                                /\ pollReq' = [pollReq EXCEPT ![p] = r]
                                /\ UNCHANGED <<outgoing, replies>>
      BY <2>3 DEF Pair!PollRecv
    <3>2. InFlight' \subseteq InFlight
      BY <1>0, <3>1 DEF InFlight, Held
    <3>3. \A q \in Pollers : pollReq[q] # r
      BY <1>0 DEF OnePlace
    <3>4. r \notin outgoing \cup replies
      BY <1>0 DEF OnePlace
    <3>5. \A q \in Pollers : pollReq'[q] \notin outgoing' \cup requests' \cup replies'
      BY <1>0, <3>1, <3>4 DEF OnePlace
    <3>6. \A q, o \in Pollers : (pollReq'[q] = pollReq'[o] /\ pollReq'[q] # None) => q = o
      BY <1>0, <3>1, <3>3 DEF OnePlace
    <3> QED
      BY <1>0, <3>1, <3>2, <3>5, <3>6 DEF OnePlace
  <2>4. CASE Pair!PollReply(p)
    <3>1. /\ requests' \subseteq requests /\ replies' \subseteq replies \cup {pollReq[p]}
          /\ outgoing' = outgoing /\ pollReq' = [pollReq EXCEPT ![p] = None] /\ pollReq[p] # None
      BY <2>4 DEF Pair!PollReply, Pair!LetGo, Pair!Close, PairInv, PollersHold
    <3>2. InFlight' \subseteq InFlight
      BY <1>0, <3>1 DEF InFlight, Held
    <3>3. /\ pollReq[p] \notin outgoing \cup requests
          /\ \A q \in Pollers \ {p} : pollReq[q] # pollReq[p]
      BY <1>0, <3>1 DEF OnePlace
    <3>4. \A q \in Pollers : pollReq'[q] \notin outgoing' \cup requests' \cup replies'
      <4>1. pollReq'[p] = None /\ None \notin outgoing' \cup requests' \cup replies'
        BY <1>0, <3>1 DEF PairInv, Pair!TypeOK
      <4>2. \A q \in Pollers \ {p} : pollReq'[q] = pollReq[q]
        BY <1>0, <3>1
      <4> QED
        BY <1>0, <3>1, <3>3, <4>1, <4>2 DEF OnePlace
    <3>5. \A q, o \in Pollers : (pollReq'[q] = pollReq'[o] /\ pollReq'[q] # None) => q = o
      BY <1>0, <3>1 DEF OnePlace
    <3> QED
      BY <1>0, <3>1, <3>2, <3>3, <3>4, <3>5 DEF OnePlace
  <2> QED
    BY <2>1, <2>2, <2>3, <2>4 DEF Poll, Pair!PollStep
<1>3. Flight'
  BY <1>1, <1>2, Dwindles DEF PairInv, Pair!callVars
<1> QED
  BY <1>1, <1>2, <1>3 DEF PairInv, Counters, Pair!callVars

LEMMA TransmitFlight ==
  ASSUME PairInv, Pair!Transmit
  PROVE  OnePlace' /\ Flight'
<1>1. PICK r \in outgoing : /\ outgoing' = outgoing \ {r}
                            /\ requests' = requests \cup {[r EXCEPT !.at = m_socket]}
                            /\ replies' = replies
  BY DEF Pair!Transmit
<1>2. pollReq' = pollReq /\ Held' = Held /\ UNCHANGED Pair!callVars
  BY DEF Pair!Transmit, Pair!pollVars, Held
<1> DEFINE new == [r EXCEPT !.at = m_socket]
<1>3. /\ new \in Pair!Requests /\ new.ticket = r.ticket /\ new.client = r.client /\ new.conn = r.conn
  <2>1. r \in Pair!Requests /\ m_socket \in 0..MaxGens
    BY DEF PairInv, Pair!TypeOK
  <2> QED
    BY <2>1 DEF Pair!Requests
<1> HIDE DEF new
<1>4. r \in InFlight /\ InFlight' \subseteq (InFlight \ {r}) \cup {new}
  BY <1>1, <1>2 DEF new, InFlight, PairInv, OnePlace, Held
<1>5. \A s \in InFlight \ {r} : s.ticket # new.ticket
  BY <1>3, <1>4 DEF PairInv, OnePlace
<1>6. new \notin InFlight \ {r}
  BY <1>5
<1>7. OnePlace'
  <2>1. \A s, t \in InFlight' : s.ticket = t.ticket => s = t
    BY <1>4, <1>5 DEF PairInv, OnePlace
  <2>2. r \notin requests \cup replies /\ \A p \in Pollers : pollReq[p] # r
    BY <1>1 DEF PairInv, OnePlace
  <2>3. new # None
    BY <1>3, InFlightTypes
  <2>4. new \notin outgoing \ {r} /\ new \notin requests \cup replies /\ \A p \in Pollers : pollReq[p] # new
    BY <1>6, <2>2, <2>3 DEF InFlight, Held
  <2> QED
    BY <1>1, <1>2, <2>1, <2>4 DEF PairInv, OnePlace, new
<1>8. Flight'
  BY <1>2, <1>3, <1>4, Dwindles DEF PairInv, Pair!callVars
<1> QED
  BY <1>7, <1>8

(* A request that leaves on a connection with nothing in flight.           *)
LEMMA SendingFlight ==
  ASSUME PairInv, NEW c \in Callers, NEW n \in Nat, Pair!Sends(c, n),
         UNCHANGED <<pollReq, requests, replies, returned>>,
         conn'[c] = n, \A d \in Callers \ {c} : conn'[d] = conn[d],
         conn[c] <= n, \A r \in Current(c) : n # conn[c]
  PROVE  OnePlace' /\ Flight'
<1> DEFINE new == [ticket |-> tickets + 1, client |-> c, conn |-> n, at |-> 0]
<1>0. /\ tickets \in Nat /\ OnePlace /\ Flight /\ None \notin Pair!Requests
      /\ sock \in [Callers -> {"none", "ready", "awaiting", "closed"}]
      /\ conn \in [Callers -> Nat] /\ calling \in [Callers -> Nat]
      /\ \A r \in InFlight : r.ticket \in Nat /\ r.client \in Callers /\ r.conn \in Nat
  BY InFlightTypes, CallerTypes DEF PairInv
<1>1. /\ outgoing' = outgoing \cup {new} /\ tickets' = tickets + 1
      /\ sock' = [sock EXCEPT ![c] = "awaiting"] /\ calling' = [calling EXCEPT ![c] = tickets + 1]
  BY DEF Pair!Sends
<1>2. new.ticket = tickets + 1 /\ new.client = c /\ new.conn = n
  OBVIOUS
<1>3. new # None
  BY <1>0, NoneAssumption DEF Callers
<1> HIDE DEF new
<1>4. Held' = Held /\ InFlight' = InFlight \cup {new}
  BY <1>1 DEF InFlight, Held
<1>5. \A r \in InFlight : r.ticket # new.ticket /\ r.ticket <= tickets
  BY <1>0, <1>2 DEF Flight, TicketsUsed
<1>6. OnePlace'
  <2>1. new \notin InFlight
    BY <1>5
  <2>2. new \notin outgoing \cup requests \cup replies /\ \A p \in Pollers : pollReq[p] # new
    BY <1>3, <2>1 DEF InFlight, Held
  <2>3. \A r, s \in InFlight' : r.ticket = s.ticket => r = s
    BY <1>0, <1>4, <1>5 DEF OnePlace
  <2> QED
    BY <1>0, <1>1, <2>2, <2>3 DEF OnePlace
<1>7. TicketsUsed'
  <2>1. ASSUME NEW r \in InFlight PROVE r.ticket <= tickets + 1 /\ r.conn <= conn'[r.client]
    <3>1. r.ticket <= tickets /\ r.conn <= conn[r.client] /\ r.client \in Callers /\ r.conn \in Nat
      BY <1>0 DEF Flight, TicketsUsed
    <3>2. r.ticket <= tickets + 1
      BY <1>0, <3>1
    <3>3. CASE r.client = c
      BY <1>0, <3>1, <3>2, <3>3
    <3>4. CASE r.client # c
      <4>1. conn'[r.client] = conn[r.client]
        BY <3>1, <3>4
      <4> QED
        BY <3>1, <3>2, <4>1
    <3> QED
      BY <3>2, <3>3, <3>4
  <2> QED
    BY <1>0, <1>1, <1>2, <1>4, <2>1 DEF TicketsUsed
<1>8. Current(c)' \subseteq {new}
  <2>1. ASSUME NEW r \in InFlight, r.client = c, r.conn = n PROVE FALSE
    <3>1. n <= conn[c]
      BY <2>1 DEF PairInv, Flight, TicketsUsed
    <3>2. r \in Current(c) /\ n = conn[c]
      BY <1>0, <2>1, <3>1 DEF Current
    <3> QED
      BY <3>2
  <2> QED
    BY <1>4, <2>1 DEF Current
<1>9. \A d \in Callers \ {c} : Current(d)' = Current(d)
  BY <1>2, <1>4 DEF Current
<1>10. OneAtATime'
  BY <1>0, <1>1, <1>2, <1>8, <1>9 DEF Flight, OneAtATime
<1> QED
  BY <1>0, <1>6, <1>7, <1>10 DEF Flight, Pair!NoStaleReply

(* The reply that makes a socket ready was the last on its connection.     *)
LEMMA ReceivingFlight ==
  ASSUME PairInv, NEW c \in Callers, NEW state, Pair!Receives(c, state),
         UNCHANGED <<pollReq, outgoing, requests, conn, tickets>>
  PROVE  OnePlace' /\ Flight'
<1>0. /\ OnePlace /\ Flight /\ InFlight \subseteq Pair!Requests
      /\ sock \in [Callers -> {"none", "ready", "awaiting", "closed"}]
      /\ calling \in [Callers -> Nat]
  BY InFlightTypes, CallerTypes DEF PairInv
<1>1. PICK r \in replies :
        /\ r.client = c /\ r.conn = conn[c] /\ replies' = replies \ {r}
        /\ returned' \in {returned, returned \cup {[call |-> calling[c], reply |-> r.ticket]}}
  BY DEF Pair!Receives
<1>2. /\ sock' = [sock EXCEPT ![c] = state] /\ calling' = [calling EXCEPT ![c] = 0] /\ calling[c] # 0
  BY DEF Pair!Receives
<1>3. r \in InFlight /\ InFlight' = InFlight \ {r}
  BY <1>0, <1>1 DEF InFlight, Held, OnePlace
<1>4. r \in Current(c) /\ \A s \in Current(c) : s.ticket = calling[c]
  BY <1>0, <1>1, <1>2, <1>3 DEF Flight, OneAtATime, Current
<1>5. Current(c) \subseteq {r}
  BY <1>0, <1>3, <1>4 DEF OnePlace, Current
<1>6. Current(c)' = {} /\ \A d \in Callers \ {c} : Current(d)' = Current(d)
  BY <1>1, <1>3, <1>5 DEF Current
<1>7. OneAtATime'
  BY <1>0, <1>2, <1>6 DEF Flight, OneAtATime
<1>8. TicketsUsed'
  BY <1>0, <1>3 DEF Flight, TicketsUsed
<1>9. Pair!NoStaleReply'
  BY <1>0, <1>1, <1>4 DEF Flight, Pair!NoStaleReply
<1>10. OnePlace'
  BY <1>0, <1>1, Fewer
<1> QED
  BY <1>7, <1>8, <1>9, <1>10 DEF Flight

LEMMA CallFlight ==
  ASSUME PairInv, NEW c \in Callers, Call(c)
  PROVE  OnePlace' /\ Flight'
<1>0. /\ OnePlace /\ Flight /\ pollReq' = pollReq
      /\ sock \in [Callers -> {"none", "ready", "awaiting", "closed"}]
      /\ conn \in [Callers -> Nat] /\ calling \in [Callers -> Nat]
      /\ \A d \in Callers : calling[d] # 0 => sock[d] = "awaiting"
  BY CallQuiet, CallerTypes DEF PairInv, Pair!pollVars
<1>1. CASE Pair!Connect(c)
  <2>1. /\ UNCHANGED <<outgoing, requests, replies, calling, tickets, returned>>
        /\ sock' = [sock EXCEPT ![c] = "ready"] /\ conn' = [conn EXCEPT ![c] = conn[c] + 1]
        /\ calling[c] = 0
    BY <1>0, <1>1 DEF Pair!Connect, Pair!netVars
  <2>2. InFlight' = InFlight /\ OnePlace'
    BY <1>0, <2>1, Fewer DEF InFlight, Held
  <2>3. ASSUME NEW r \in InFlight
        PROVE  r.conn <= conn'[r.client] /\ ~(r.client = c /\ r.conn = conn[c] + 1)
    <3>1. r.client \in Callers /\ r.conn \in Nat /\ r.conn <= conn[r.client]
      BY <1>0, InFlightTypes DEF Flight, TicketsUsed
    <3> QED
      BY <1>0, <2>1, <3>1
  <2>4. TicketsUsed'
    BY <1>0, <2>1, <2>2, <2>3 DEF Flight, TicketsUsed
  <2>5. Current(c)' = {} /\ \A d \in Callers \ {c} : Current(d)' = Current(d)
    BY <1>0, <2>1, <2>2, <2>3 DEF Current
  <2>6. OneAtATime'
    BY <1>0, <2>1, <2>5 DEF Flight, OneAtATime
  <2> QED
    BY <1>0, <2>1, <2>2, <2>4, <2>6 DEF Flight, Pair!NoStaleReply
<1>2. CASE Pair!Disconnect(c) \/ Pair!CallGivesUp(c) \/ Pair!TesterGivesUp(c) \/ Pair!TesterEnds(c)
  <2>1. /\ outgoing' \subseteq outgoing /\ replies' \subseteq replies /\ requests' = requests
        /\ UNCHANGED <<conn, tickets, returned>>
        /\ sock' = sock \/ \E state \in {"none", "closed"} : sock' = [sock EXCEPT ![c] = state]
        /\ calling' = calling \/ calling' = [calling EXCEPT ![c] = 0]
    BY <1>2 DEF Pair!Disconnect, Pair!CallGivesUp, Pair!TesterGivesUp, Pair!TesterEnds, Pair!netVars
  <2>2. OnePlace' /\ InFlight' \subseteq InFlight
    BY <1>0, <2>1, Fewer
  <2>3. \A d \in Callers : /\ sock'[d] = "ready" => sock[d] = "ready"
                           /\ calling'[d] # 0 => calling'[d] = calling[d]
    BY <1>0, <2>1
  <2> QED
    BY <1>0, <2>1, <2>2, <2>3, Dwindles
<1>3. CASE Pair!CallSend(c)
  <2>1. Current(c) = {}
    BY <1>0, <1>3 DEF Pair!CallSend, Flight, OneAtATime
  <2> QED
    BY <1>0, <1>3, <2>1, SendingFlight DEF Pair!CallSend
<1>4. CASE Pair!TesterSend(c)
  <2>1. /\ conn' = [conn EXCEPT ![c] = conn[c] + 1] /\ Pair!Sends(c, conn[c] + 1)
        /\ UNCHANGED <<requests, replies, returned>>
    BY <1>0, <1>4 DEF Pair!TesterSend
  <2>2. /\ conn[c] + 1 \in Nat /\ conn[c] <= conn[c] + 1 /\ conn[c] + 1 # conn[c]
        /\ conn'[c] = conn[c] + 1 /\ \A d \in Callers \ {c} : conn'[d] = conn[d]
    BY <1>0, <2>1
  <2> QED
    BY <1>0, <2>1, <2>2, SendingFlight
<1>5. CASE Pair!CallReturns(c)
  BY <1>0, <1>5, ReceivingFlight DEF Pair!CallReturns
<1>6. CASE Pair!TesterReturns(c)
  BY <1>0, <1>6, ReceivingFlight DEF Pair!TesterReturns
<1> QED
  BY <1>1, <1>2, <1>3, <1>4, <1>5, <1>6 DEF Call, Pair!ClientStep, Pair!TesterStep

LEMMA PairNext == PairInv /\ (ReqRepNext \/ UNCHANGED pairVars) => PairInv'
<1> SUFFICES ASSUME PairInv, ReqRepNext \/ UNCHANGED pairVars PROVE PairInv'
  OBVIOUS
<1>1. CASE UNCHANGED pairVars
  <2>1. InFlight' = InFlight /\ \A c \in Callers : Current(c)' = Current(c)
    BY <1>1 DEF pairVars, InFlight, Held, Current
  <2>2. Pair!TypeOK' /\ Counters' /\ Threads' /\ PollersHold' /\ Pair!Unwedged'
    BY <1>1 DEF pairVars, PairInv, Pair!TypeOK, Counters, Threads, PollersHold, Pair!Unwedged, Pair!Holders
  <2>3. OnePlace' /\ Flight'
    BY <1>1, <2>1 DEF pairVars, PairInv, OnePlace, Flight, TicketsUsed, OneAtATime, Pair!NoStaleReply
  <2> QED
    BY <2>2, <2>3 DEF PairInv
<1>2. CASE Pair!Control
  BY <1>2, ControlTypes, ControlUnwedged, ControlFlight DEF PairInv
<1>3. ASSUME NEW p \in Pollers, Poll(p) PROVE PairInv'
  BY <1>3, PollTypes, PollUnwedged, PollFlight DEF PairInv
<1>4. ASSUME NEW c \in Callers, Call(c) \/ Pair!Transmit PROVE Pair!TypeOK' /\ Counters'
  <2>1. /\ UNCHANGED <<Pair!ctlVars, Pair!serverVars, Pair!pollVars>> /\ CallTypes' /\ Counters'
    BY <1>4, CallQuiet, CallKeeps
  <2> QED
    BY <2>1 DEF PairInv, Pair!TypeOK, CallTypes, Callers, Pair!Callers,
                Pair!ctlVars, Pair!serverVars, Pair!pollVars
<1>5. ASSUME NEW c \in Callers, Call(c) PROVE PairInv'
  BY <1>4, <1>5, CallQuiet, CallFlight DEF PairInv
<1>6. CASE Pair!Transmit
  <2>1. PICK r \in outgoing : r.client \in Callers
    BY <1>6, InFlightTypes DEF Pair!Transmit, InFlight
  <2> QED
    BY <1>4, <1>6, <2>1, CallQuiet, TransmitFlight DEF PairInv
<1> QED
  BY <1>1, <1>2, <1>3, <1>5, <1>6 DEF ReqRepNext, Pair!Next, Poll, Call, Callers

LEMMA PairAlways == Spec => []PairInv
<1>1. Init => PairInv
  BY PairInit DEF Init
<1>2. PairInv /\ [Next]_vars => PairInv'
  BY PairNext DEF Next, PubSubNext, vars
<1> QED
  BY <1>1, <1>2, PTL DEF Spec

(* For every number of pollers, clients and testers: PollOnce works on     *)
(* live sockets and owes no reply, unless a codec refused                  *)
(* (zmq_rep_server.cpp:68-132).                                            *)
THEOREM Unwedging == Spec => []Unwedged
<1>1. PairInv => Unwedged
  BY DEF PairInv, Unwedged
<1> QED
  BY <1>1, PairAlways, PTL

(* ZmqReqClient::Call and the tester's SendAndReceiveJson return the reply *)
(* to their own request, after calls that timed out and across servers     *)
(* started anew (zmq_req_client.cpp:55-112, reqrep_client.cpp:36-85).      *)
THEOREM FreshReplies == Spec => []NoStaleReply
<1>1. PairInv => NoStaleReply
  BY DEF PairInv, Flight, NoStaleReply
<1> QED
  BY <1>1, PairAlways, PTL
-----------------------------------------------------------------------------
(* The publish/subscribe pair: types and filters.                          *)

Publication == [topic : Topics, payload : Payloads]

(* What waits at the tester's socket has a frame left.                     *)
Whole == \A i \in 1..Len(frames) : frames[i].parts # <<>>

FeedTypes == Feed!TypeOK /\ published \in Seq(Publication) /\ Whole

LEMMA FeedTypesInit == Feed!Init => FeedTypes /\ Feed!FiltersFollow
<1> SUFFICES ASSUME Feed!Init PROVE FeedTypes /\ Feed!FiltersFollow
  OBVIOUS
<1>1. Len(<<>>) = 0 /\ \A S : <<>> \in Seq(S)
  OBVIOUS
<1>2. Feed!FiltersFollow
  BY DEF Feed!Init, Feed!FiltersFollow
<1>3. 0 \in 0..Len(registered) /\ Len(frames) = 0
  BY <1>1 DEF Feed!Init
<1>4. Feed!TypeOK
  BY <1>1, <1>3 DEF Feed!Init, Feed!TypeOK
<1> QED
  BY <1>1, <1>2, <1>3, <1>4 DEF Feed!Init, FeedTypes, Whole

(* The number of a registration is that of its place in the history.       *)
LEMMA Registering ==
  ASSUME FeedTypes, NEW t \in Topics, Feed!Subscribe(t)
  PROVE  /\ registered' \in Seq(Topics) /\ Len(registered') = Len(registered) + 1
         /\ Len(registered) \in Nat /\ registered'[Len(registered) + 1] = t
         /\ \A i \in 1..Len(registered) : registered'[i] = registered[i]
         /\ m_handlers'[t] = Len(registered) + 1
         /\ \A u \in Topics \ {t} : m_handlers'[u] = m_handlers[u]
         /\ m_handlers' \in [Topics -> 0..Len(registered')]
         /\ chosen \in 0..Len(registered')
<1> USE DEF FeedTypes, Feed!TypeOK, Feed!Subscribe
<1>1. /\ registered' \in Seq(Topics) /\ Len(registered') = Len(registered) + 1
      /\ Len(registered) \in Nat /\ registered'[Len(registered) + 1] = t
      /\ \A i \in 1..Len(registered) : registered'[i] = registered[i]
  BY AppendProperties, LenProperties
<1>2. /\ m_handlers'[t] = Len(registered) + 1
      /\ \A u \in Topics \ {t} : m_handlers'[u] = m_handlers[u]
      /\ m_handlers' = [u \in Topics |-> m_handlers'[u]]
  OBVIOUS
<1>3. \A u \in Topics : m_handlers'[u] \in 0..Len(registered')
  BY <1>1, <1>2
<1> QED
  BY <1>1, <1>2, <1>3

Sent(t, p) == [id |-> Len(published) + 1, parts |-> Feed!Parts(t, p)]

(* What Publish sends is what was published.                               *)
LEMMA Publishing ==
  ASSUME FeedTypes, NEW t \in Topics, NEW p \in Payloads, Feed!Publish(t, p)
  PROVE  /\ Sent(t, p) \in Feed!Messages /\ Sent(t, p).id = Len(published) + 1
         /\ Sent(t, p).parts # <<>>
         /\ Feed!Read(Sent(t, p).parts) = [topic |-> t, payload |-> p]
         /\ published' \in Seq(Publication) /\ Len(published') = Len(published) + 1
         /\ published'[Len(published) + 1] = [topic |-> t, payload |-> p]
         /\ \A i \in 1..Len(published) : published'[i] = published[i]
         /\ Len(published) \in Nat
         /\ wire' \in {wire, Append(wire, Sent(t, p))}
         /\ frames' \in {frames, Append(frames, Sent(t, p))}
<1>1. /\ Feed!Parts(t, p) \in Seq(Topics \cup Payloads) /\ Feed!Parts(t, p) # <<>>
      /\ Feed!Read(Feed!Parts(t, p)) = [topic |-> t, payload |-> p]
  <2>1. CASE t = Feed!Empty
    <3>1. <<p>> \in Seq(Topics \cup Payloads) /\ Len(<<p>>) = 1 /\ <<p>>[1] = p /\ <<p>> # <<>>
      OBVIOUS
    <3> QED
      BY <2>1, <3>1 DEF Feed!Parts, Feed!Read
  <2>2. CASE t # Feed!Empty
    <3>1. /\ <<t, p>> \in Seq(Topics \cup Payloads) /\ Len(<<t, p>>) = 2
          /\ <<t, p>>[1] = t /\ <<t, p>>[2] = p /\ <<t, p>> # <<>>
      OBVIOUS
    <3> QED
      BY <2>2, <3>1 DEF Feed!Parts, Feed!Read
  <2> QED
    BY <2>1, <2>2
<1>2. Len(published) \in Nat /\ Len(published) < MaxPubs
  BY LenProperties DEF FeedTypes, Feed!Publish
<1>3. /\ Sent(t, p) \in Feed!Messages /\ Sent(t, p).id = Len(published) + 1
      /\ Sent(t, p).parts = Feed!Parts(t, p)
  BY <1>1, <1>2 DEF Feed!Messages, Sent
<1>4. [topic |-> t, payload |-> p] \in Publication
  BY DEF Publication
<1>5. published' = Append(published, [topic |-> t, payload |-> p])
  BY DEF Feed!Publish
<1>6. /\ wire' \in {wire, Append(wire, Sent(t, p))}
      /\ frames' \in {frames, Append(frames, Sent(t, p))}
  BY DEF Feed!Publish, Sent
<1> QED
  BY <1>1, <1>2, <1>3, <1>4, <1>5, <1>6, AppendProperties DEF FeedTypes

LEMMA FeedTypesNext == FeedTypes /\ Feed!Next => FeedTypes'
<1> SUFFICES ASSUME FeedTypes, Feed!Next PROVE FeedTypes'
  OBVIOUS
<1> USE DEF Feed!pubVars, Feed!subVars, Feed!ownVars, Feed!workVars, Feed!testerVars
<1>1. CASE Feed!Bind
  BY <1>1 DEF Feed!Bind, FeedTypes, Feed!TypeOK, Whole
<1>2. CASE Feed!Unbind
  <2>1. PICK n \in 0..Len(wire) : wire' = SubSeq(wire, 1, n)
    BY <1>2 DEF Feed!Unbind
  <2>2. PICK last \in 0..Len(frames) : frames' = SubSeq(frames, 1, last)
    BY <1>2 DEF Feed!Unbind
  <2>3. wire' \in Seq(Feed!Messages)
    BY <2>1, Cutting DEF FeedTypes, Feed!TypeOK
  <2>4. /\ frames' \in Seq(Feed!Messages) /\ Len(frames') = last
        /\ \A i \in 1..last : frames'[i] = frames[i] /\ i \in 1..Len(frames)
    BY <2>2, Cutting DEF FeedTypes, Feed!TypeOK
  <2>5. Whole'
    BY <2>4 DEF FeedTypes, Whole
  <2> QED
    BY <1>2, <2>3, <2>4, <2>5 DEF Feed!Unbind, FeedTypes, Feed!TypeOK
<1>3. ASSUME NEW t \in Topics, Feed!Subscribe(t) PROVE FeedTypes'
  <2>1. filters' \subseteq Topics
    BY <1>3 DEF Feed!Subscribe, FeedTypes, Feed!TypeOK
  <2> QED
    BY <1>3, <2>1, Registering DEF Feed!Subscribe, FeedTypes, Feed!TypeOK, Whole
<1>4. ASSUME NEW t \in Topics, NEW p \in Payloads, Feed!Publish(t, p) PROVE FeedTypes'
  <2>0. PICK m : m = Sent(t, p)
    OBVIOUS
  <2>1. /\ m \in Feed!Messages /\ m.parts # <<>> /\ published' \in Seq(Publication)
        /\ wire' \in {wire, Append(wire, m)} /\ frames' \in {frames, Append(frames, m)}
    BY <1>4, <2>0, Publishing
  <2>2. wire' \in Seq(Feed!Messages) /\ frames' \in Seq(Feed!Messages)
    <3>1. wire \in Seq(Feed!Messages) /\ frames \in Seq(Feed!Messages)
      BY DEF FeedTypes, Feed!TypeOK
    <3>2. Append(wire, m) \in Seq(Feed!Messages) /\ Append(frames, m) \in Seq(Feed!Messages)
      BY <2>1, <3>1, AppendProperties
    <3> QED
      BY <2>1, <3>1, <3>2
  <2>3. Whole'
    <3>1. CASE frames' = frames
      BY <3>1 DEF FeedTypes, Whole
    <3>2. CASE frames' = Append(frames, m)
      <4>1. /\ Len(frames) \in Nat /\ Len(frames') = Len(frames) + 1 /\ frames'[Len(frames) + 1] = m
            /\ \A i \in 1..Len(frames) : frames'[i] = frames[i]
        BY <2>1, <3>2, AppendProperties, LenProperties DEF FeedTypes, Feed!TypeOK
      <4>2. \A i \in 1..Len(frames') : i \in 1..Len(frames) \/ i = Len(frames) + 1
        BY <4>1
      <4> QED
        BY <2>1, <4>1, <4>2 DEF FeedTypes, Whole
    <3> QED
      BY <2>1, <3>1, <3>2
  <2> QED
    BY <1>4, <2>1, <2>2, <2>3 DEF Feed!Publish, FeedTypes, Feed!TypeOK
<1>5. CASE Feed!Connect
  BY <1>5 DEF Feed!Connect, FeedTypes, Feed!TypeOK, Whole
<1>6. CASE Feed!StartBackground
  BY <1>6 DEF Feed!StartBackground, FeedTypes, Feed!TypeOK, Whole
<1>7. CASE Feed!DisconnectBegin
  BY <1>7 DEF Feed!DisconnectBegin, FeedTypes, Feed!TypeOK, Whole
<1>8. CASE Feed!DisconnectJoin
  BY <1>8 DEF Feed!DisconnectJoin, FeedTypes, Feed!TypeOK, Whole
<1>9. CASE Feed!DisconnectClose
  <2>1. wire' = <<>> /\ filters' = {} /\ wire' \in Seq(Feed!Messages)
    BY <1>9 DEF Feed!DisconnectClose
  <2> QED
    BY <1>9, <2>1 DEF Feed!DisconnectClose, FeedTypes, Feed!TypeOK, Whole
<1>10. CASE Feed!WorkerTop \/ Feed!WorkerGetsNone
  BY <1>10 DEF Feed!WorkerTop, Feed!WorkerGetsNone, FeedTypes, Feed!TypeOK, Whole
<1>11. CASE Feed!WorkerGets
  <2>1. wire' = Tail(wire) /\ wire # <<>> /\ got' \in {got, Head(wire)}
    BY <1>11 DEF Feed!WorkerGets
  <2>2. wire' \in Seq(Feed!Messages) /\ Head(wire) \in Feed!Messages
    BY <2>1, Heading DEF FeedTypes, Feed!TypeOK
  <2> QED
    BY <1>11, <2>1, <2>2 DEF Feed!WorkerGets, FeedTypes, Feed!TypeOK, Whole
<1>12. CASE Feed!WorkerDispatches
  <2>1. \A u : Feed!Find(u) \in 0..Len(registered)
    BY DEF Feed!Find, Feed!Empty, FeedTypes, Feed!TypeOK
  <2>2. chosen' \in 0..Len(registered) /\ got' \in {got, Feed!Nothing} /\ worker' \in {"call", "top"}
    BY <1>12, <2>1 DEF Feed!WorkerDispatches
  <2> QED
    BY <1>12, <2>2 DEF Feed!WorkerDispatches, FeedTypes, Feed!TypeOK, Whole
<1>13. CASE Feed!WorkerCalls
  <2>1. 0 \in 0..Len(registered)
    BY LenProperties DEF FeedTypes, Feed!TypeOK
  <2> QED
    BY <1>13, <2>1 DEF Feed!WorkerCalls, FeedTypes, Feed!TypeOK, Whole
<1>14. CASE Feed!TesterConnects
  BY <1>14 DEF Feed!TesterConnects, FeedTypes, Feed!TypeOK, Whole
<1>15. CASE Feed!TesterPrints
  <2>1. frames # <<>> /\ frames \in Seq(Feed!Messages) /\ Head(frames) = frames[1]
    BY <1>15, Heading DEF Feed!TesterPrints, FeedTypes, Feed!TypeOK
  <2>2. frames' \in Seq(Feed!Messages) /\ Whole'
    <3>1. CASE Len(Head(frames).parts) = 1
      <4>1. frames' = Tail(frames)
        BY <1>15, <3>1 DEF Feed!TesterPrints
      <4> QED
        BY <2>1, <4>1, Heading DEF FeedTypes, Whole
    <3>2. CASE Len(Head(frames).parts) # 1
      <4> DEFINE s == frames[1].parts
      <4>1. frames' = [frames EXCEPT ![1].parts = Tail(s)]
        BY <1>15, <2>1, <3>2 DEF Feed!TesterPrints
      <4>2. /\ 1 \in 1..Len(frames) /\ frames[1] \in Feed!Messages
            /\ s \in Seq(Topics \cup Payloads) /\ s # <<>>
        <5>1. 1 \in 1..Len(frames) /\ frames[1] \in Feed!Messages
          BY <2>1, Heading
        <5>2. s # <<>>
          BY <5>1 DEF FeedTypes, Whole
        <5> QED
          BY <5>1, <5>2 DEF Feed!Messages
      <4>3. Tail(s) \in Seq(Topics \cup Payloads) /\ Len(Tail(s)) = Len(s) - 1 /\ 1 \in 1..Len(s) /\ Len(s) # 1
        BY <2>1, <3>2, <4>2, Heading
      <4>4. Tail(s) # <<>>
        <5>1. Len(Tail(s)) # 0
          BY <4>3
        <5> QED
          BY <4>3, <5>1, EmptySeq
      <4> HIDE DEF s
      <4>5. [frames[1] EXCEPT !.parts = Tail(s)] \in Feed!Messages
        BY <4>2, <4>3 DEF Feed!Messages
      <4>6. frames' = [frames EXCEPT ![1] = [frames[1] EXCEPT !.parts = Tail(s)]]
        BY <4>1
      <4>7. frames' \in Seq(Feed!Messages) /\ Len(frames') = Len(frames)
        BY <2>1, <4>2, <4>5, <4>6, ExceptSeq
      <4>8. \A i \in 1..Len(frames) : frames'[i] = IF i = 1 THEN [frames[1] EXCEPT !.parts = Tail(s)] ELSE frames[i]
        BY <2>1, <4>6, ExceptSeq
      <4>9. [frames[1] EXCEPT !.parts = Tail(s)].parts = Tail(s)
        BY <4>2 DEF Feed!Messages
      <4> QED
        BY <4>4, <4>7, <4>8, <4>9 DEF FeedTypes, Whole
    <3> QED
      BY <3>1, <3>2
  <2> QED
    BY <1>15, <2>2 DEF Feed!TesterPrints, FeedTypes, Feed!TypeOK
<1> QED
  BY <1>1, <1>2, <1>3, <1>4, <1>5, <1>6, <1>7, <1>8, <1>9, <1>10, <1>11, <1>12, <1>13, <1>14, <1>15
  DEF Feed!Next, Feed!WorkerStep

LEMMA FiltersNext == FeedTypes /\ Feed!FiltersFollow /\ Feed!Next => Feed!FiltersFollow'
<1> SUFFICES ASSUME FeedTypes, Feed!FiltersFollow, Feed!Next PROVE Feed!FiltersFollow'
  OBVIOUS
<1> USE DEF Feed!pubVars, Feed!subVars, Feed!ownVars, Feed!workVars, Feed!testerVars
<1>1. ASSUME NEW t \in Topics, Feed!Subscribe(t) PROVE Feed!FiltersFollow'
  <2> SUFFICES ASSUME sub' PROVE filters' = {u \in Topics : m_handlers'[u] # 0}
    BY DEF Feed!FiltersFollow
  <2>1. sub /\ filters' = filters \cup {t}
    BY <1>1 DEF Feed!Subscribe
  <2>2. {u \in Topics : m_handlers'[u] # 0} = {u \in Topics : m_handlers[u] # 0} \cup {t}
    BY <1>1, Registering
  <2> QED
    BY <2>1, <2>2 DEF Feed!FiltersFollow
<1>2. CASE Feed!Connect \/ Feed!DisconnectClose
  BY <1>2 DEF Feed!Connect, Feed!DisconnectClose, Feed!FiltersFollow
<1>3. CASE UNCHANGED <<sub, filters, m_handlers>>
  BY <1>3 DEF Feed!FiltersFollow
<1>4. CASE Feed!Bind \/ Feed!Unbind \/ \E t \in Topics, p \in Payloads : Feed!Publish(t, p)
  BY <1>3, <1>4 DEF Feed!Bind, Feed!Unbind, Feed!Publish
<1>5. CASE Feed!StartBackground \/ Feed!DisconnectBegin \/ Feed!DisconnectJoin
  BY <1>3, <1>5 DEF Feed!StartBackground, Feed!DisconnectBegin, Feed!DisconnectJoin
<1>6. CASE Feed!WorkerStep \/ Feed!TesterConnects \/ Feed!TesterPrints
  BY <1>3, <1>6 DEF Feed!WorkerStep, Feed!WorkerTop, Feed!WorkerGets, Feed!WorkerGetsNone,
     Feed!WorkerDispatches, Feed!WorkerCalls, Feed!TesterConnects, Feed!TesterPrints
<1> QED
  BY <1>1, <1>2, <1>4, <1>5, <1>6 DEF Feed!Next
-----------------------------------------------------------------------------
(* Messages under way, as in PubSubProofs.                                 *)

(* m is publication m.id of p.                                             *)
Known(m, p) == m.id \in 1..Len(p) /\ Feed!Read(m.parts) = p[m.id]

(* Call c was rightly made: of publication c.id of p, to a handler that r  *)
(* lists under its topic or the empty one.                                 *)
Right(c, p, r) ==
  /\ c.id \in 1..Len(p) /\ c.msg = p[c.id]
  /\ c.by \in 1..Len(r) /\ r[c.by] \in {c.msg.topic, Feed!Empty}

Coming == Ascending(wire) /\ \A i \in 1..Len(wire) : Known(wire[i], published)

(* The loop has a message just while it looks for its handler and calls it.*)
Taken ==
  /\ got # Feed!Nothing <=> worker \in {"dispatch", "call"}
  /\ got # Feed!Nothing => Known(got, published) /\ Above(got.id, wire)
  /\ worker = "call" =>
       chosen # 0 /\ registered[chosen] \in {published[got.id].topic, Feed!Empty}

CallsGiven == [id : Nat, msg : Publication, by : Nat]

Given ==
  /\ called \in Seq(CallsGiven) /\ Ascending(called)
  /\ \A i \in 1..Len(called) : /\ Right(called[i], published, registered)
                               /\ Above(called[i].id, wire)
                               /\ got # Feed!Nothing => called[i].id < got.id

Own == \A t \in Topics : m_handlers[t] # 0 => registered[m_handlers[t]] = t

FlowInv == Coming /\ Taken /\ Given /\ Own

LEMMA FlowInit == Feed!Init => FlowInv
<1> SUFFICES ASSUME Feed!Init PROVE FlowInv
  OBVIOUS
<1>1. Len(<<>>) = 0 /\ <<>> \in Seq(CallsGiven)
  OBVIOUS
<1> QED
  BY <1>1 DEF Feed!Init, FlowInv, Coming, Taken, Given, Own, Ascending

(* A later part of what was under way is in order as well.                 *)
LEMMA Remains ==
  ASSUME FeedTypes, Coming, NEW s, NEW off \in Nat, Len(s) \in Nat, Len(s) + off <= Len(wire),
         \A i \in 1..Len(s) : s[i] = wire[i + off]
  PROVE  /\ Ascending(s) /\ \A i \in 1..Len(s) : Known(s[i], published)
         /\ \A k : Above(k, wire) => Above(k, s)
<1>1. Len(wire) \in Nat
  BY LenProperties DEF FeedTypes, Feed!TypeOK
<1>2. \A i \in 1..Len(s) : i + off \in 1..Len(wire)
  BY <1>1
<1>3. \A i, j \in 1..Len(s) : i < j => i + off < j + off
  OBVIOUS
<1>4. Ascending(s)
  BY <1>2, <1>3 DEF Coming, Ascending
<1> QED
  BY <1>2, <1>4 DEF Coming, Above

LEMMA QuietFlow ==
  ASSUME FlowInv, UNCHANGED <<wire, published, got, chosen, called, m_handlers, registered>>,
         worker' = worker \/ {worker, worker'} \cap {"dispatch", "call"} = {}
  PROVE  FlowInv'
BY DEF FlowInv, Coming, Taken, Given, Own

(* Unbind and Disconnect discard the end of what is under way.             *)
LEMMA DropFlow ==
  ASSUME FeedTypes, FlowInv, NEW n \in 0..Len(wire), wire' = SubSeq(wire, 1, n),
         UNCHANGED <<published, got, chosen, called, m_handlers, registered, worker>>
  PROVE  FlowInv'
<1>1. Len(wire') = n /\ \A i \in 1..n : wire'[i] = wire[i + 0]
  BY Cutting, SMTT(30) DEF FeedTypes, Feed!TypeOK
<1>2. n \in Nat /\ n + 0 <= Len(wire)
  BY LenProperties DEF FeedTypes, Feed!TypeOK
<1>3. Coming' /\ \A k : Above(k, wire) => Above(k, wire')
  BY <1>1, <1>2, Remains DEF FlowInv, Coming
<1> QED
  BY <1>3 DEF FlowInv, Taken, Given, Own

LEMMA SubscribeFlow ==
  ASSUME FeedTypes, FlowInv, NEW t \in Topics, Feed!Subscribe(t)
  PROVE  FlowInv'
<1>1. UNCHANGED <<wire, published, got, chosen, called, worker>>
  BY DEF Feed!Subscribe, Feed!pubVars, Feed!workVars
<1>2. /\ Len(registered) \in Nat /\ Len(registered') = Len(registered) + 1
      /\ \A i \in 1..Len(registered) : registered'[i] = registered[i] /\ i \in 1..Len(registered')
  BY Registering
<1>3. Taken'
  <2>1. ASSUME worker = "call" PROVE registered'[chosen] = registered[chosen]
    <3>1. chosen \in 1..Len(registered)
      BY <2>1, <1>2 DEF FlowInv, Taken, FeedTypes, Feed!TypeOK
    <3> QED
      BY <1>2, <3>1
  <2> QED
    BY <1>1, <2>1 DEF FlowInv, Taken
<1>4. Given'
  BY <1>1, <1>2 DEF FlowInv, Given, Right
<1>5. Own'
  <2>1. ASSUME NEW u \in Topics, m_handlers'[u] # 0 PROVE registered'[m_handlers'[u]] = u
    <3>1. CASE u = t
      BY <3>1, Registering
    <3>2. CASE u # t
      <4>1. m_handlers'[u] = m_handlers[u] /\ m_handlers[u] \in 1..Len(registered)
        <5>1. m_handlers'[u] = m_handlers[u]
          BY <3>2, Registering
        <5>2. m_handlers[u] \in 0..Len(registered)
          BY DEF FeedTypes, Feed!TypeOK
        <5> QED
          BY <1>2, <2>1, <5>1, <5>2
      <4> QED
        BY <1>2, <2>1, <4>1 DEF FlowInv, Own
    <3> QED
      BY <3>1, <3>2
  <2> QED
    BY <2>1 DEF Own
<1> QED
  BY <1>1, <1>3, <1>4, <1>5 DEF FlowInv, Coming

LEMMA PublishFlow ==
  ASSUME FeedTypes, FlowInv, NEW t \in Topics, NEW p \in Payloads, Feed!Publish(t, p)
  PROVE  FlowInv'
<1>0. PICK n \in Nat : n = Len(published)
  BY Publishing
<1>1. /\ Len(published') = n + 1 /\ published'[n + 1] = [topic |-> t, payload |-> p]
      /\ \A i \in 1..n : published'[i] = published[i] /\ i \in 1..Len(published') /\ i < n + 1
  BY <1>0, Publishing
<1>2. PICK m : m = Sent(t, p)
  OBVIOUS
<1>3. m.id = n + 1 /\ Known(m, published') /\ wire' \in {wire, Append(wire, m)} /\ m \in Feed!Messages
  BY <1>0, <1>1, <1>2, Publishing DEF Known
<1>4. UNCHANGED <<got, chosen, called, worker, m_handlers, registered>>
  BY DEF Feed!Publish, Feed!subVars, Feed!workVars
<1>5. \A k : Known(k, published) => Known(k, published') /\ k.id < n + 1
  BY <1>0, <1>1 DEF Known
<1>6. \A c : Right(c, published, registered) => Right(c, published', registered) /\ c.id < n + 1
  BY <1>0, <1>1 DEF Right
<1>7. Coming' /\ \A k : Above(k, wire) /\ k < n + 1 => Above(k, wire')
  <2>1. CASE wire' = wire
    BY <1>5, <2>1 DEF FlowInv, Coming
  <2>2. CASE wire' = Append(wire, m)
    <3>1. wire \in Seq(Feed!Messages)
      BY DEF FeedTypes, Feed!TypeOK
    <3>2. /\ Len(wire) \in Nat /\ Len(wire') = Len(wire) + 1 /\ wire'[Len(wire) + 1] = m
          /\ \A i \in 1..Len(wire) : wire'[i] = wire[i]
      BY <1>3, <2>2, <3>1, AppendProperties, LenProperties
    <3>3. \A i \in 1..Len(wire') : i \in 1..Len(wire) \/ i = Len(wire) + 1
      BY <3>2
    <3>4. \A i \in 1..Len(wire) : wire[i].id < n + 1 /\ Known(wire[i], published')
      BY <1>5 DEF FlowInv, Coming
    <3>5. \A i \in 1..Len(wire') : Known(wire'[i], published')
      BY <1>3, <3>2, <3>3, <3>4
    <3>6. Ascending(wire')
      BY <1>3, <2>2, <3>1, <3>4, AscendingAppend DEF FlowInv, Coming
    <3>7. Coming'
      BY <3>5, <3>6 DEF Coming
    <3>8. ASSUME NEW k, Above(k, wire), k < n + 1 PROVE Above(k, wire')
      BY <1>3, <3>2, <3>3, <3>8 DEF Above
    <3> QED
      BY <3>7, <3>8
  <2> QED
    BY <1>3, <2>1, <2>2
<1>8. Taken'
  <2>1. got # Feed!Nothing => /\ got.id \in 1..n /\ Known(got, published') /\ Above(got.id, wire')
                              /\ published'[got.id] = published[got.id]
    BY <1>0, <1>1, <1>5, <1>7 DEF FlowInv, Taken, Known
  <2> QED
    BY <1>4, <2>1 DEF FlowInv, Taken
<1>9. Given'
  BY <1>4, <1>6, <1>7 DEF FlowInv, Given
<1> QED
  BY <1>4, <1>7, <1>8, <1>9 DEF FlowInv, Own

LEMMA GetsFlow ==
  ASSUME FeedTypes, FlowInv, Feed!WorkerGets
  PROVE  FlowInv'
<1>1. /\ UNCHANGED <<published, chosen, called, m_handlers, registered>> /\ got = Feed!Nothing
      /\ wire # <<>> /\ wire' = Tail(wire) /\ wire \in Seq(Feed!Messages)
      /\ \/ got' = wire[1] /\ worker' = "dispatch"
         \/ got' = got /\ worker' = "top"
  BY Heading DEF Feed!WorkerGets, Feed!subVars, Feed!pubVars, FlowInv, Taken, FeedTypes, Feed!TypeOK
<1>2. /\ Len(wire) \in Nat /\ Len(wire') = Len(wire) - 1 /\ 1 \in 1..Len(wire)
      /\ \A i \in 1..Len(wire') : wire'[i] = wire[i + 1] /\ i + 1 \in 1..Len(wire)
      /\ wire[1] \in Feed!Messages
  BY <1>1, Heading
<1>3. Len(wire') \in Nat /\ Len(wire') + 1 <= Len(wire)
  BY <1>2
<1>4. Coming' /\ \A k : Above(k, wire) => Above(k, wire')
  BY <1>1, <1>2, <1>3, Remains DEF FlowInv, Coming
<1>5. CASE got' = got /\ worker' = "top"
  BY <1>1, <1>4, <1>5 DEF FlowInv, Taken, Given, Own
<1>6. CASE got' = wire[1] /\ worker' = "dispatch"
  <2>1. wire[1] # Feed!Nothing
    BY <1>2 DEF Feed!Messages, Feed!Nothing
  <2>2. Known(wire[1], published)
    BY <1>2 DEF FlowInv, Coming
  <2>3. \A i \in 1..Len(wire') : wire[1].id < wire'[i].id
    <3>1. \A i \in 1..Len(wire') : 1 < i + 1
      OBVIOUS
    <3> QED
      BY <1>2, <3>1 DEF FlowInv, Coming, Ascending
  <2>4. Taken'
    BY <1>1, <1>6, <2>1, <2>2, <2>3 DEF Taken, Above
  <2>5. Given'
    <3>1. \A k : Above(k, wire) => k < wire[1].id
      BY <1>2 DEF Above
    <3> QED
      BY <1>1, <1>4, <1>6, <3>1 DEF FlowInv, Given
  <2> QED
    BY <1>1, <1>4, <2>4, <2>5 DEF FlowInv, Own
<1> QED
  BY <1>1, <1>5, <1>6

LEMMA DispatchesFlow ==
  ASSUME FeedTypes, FlowInv, Feed!WorkerDispatches
  PROVE  FlowInv'
<1>1. UNCHANGED <<wire, published, called, m_handlers, registered>> /\ worker = "dispatch"
  BY DEF Feed!WorkerDispatches, Feed!subVars, Feed!pubVars
<1>2. PICK t : t = published[got.id].topic
  OBVIOUS
<1>3. chosen' = Feed!Find(t) /\ got # Feed!Nothing
  BY <1>1, <1>2 DEF Feed!WorkerDispatches, FlowInv, Taken, Known
<1>4. Feed!Find(t) # 0 => registered[Feed!Find(t)] \in {t, Feed!Empty}
  BY DEF Feed!Find, FlowInv, Own, Feed!Empty
<1>5. Taken'
  <2>1. CASE chosen' # 0 /\ worker' = "call" /\ got' = got
    BY <1>1, <1>2, <1>3, <1>4, <2>1 DEF FlowInv, Taken
  <2>2. CASE worker' = "top" /\ got' = Feed!Nothing
    BY <2>2 DEF Taken
  <2> QED
    BY <2>1, <2>2 DEF Feed!WorkerDispatches
<1>6. got' \in {got, Feed!Nothing}
  BY DEF Feed!WorkerDispatches
<1> QED
  BY <1>1, <1>5, <1>6 DEF FlowInv, Coming, Given, Own

LEMMA CallsFlow ==
  ASSUME FeedTypes, FlowInv, Feed!WorkerCalls
  PROVE  FlowInv'
<1>1. PICK c : c = [id |-> got.id, msg |-> Feed!Read(got.parts), by |-> chosen]
  OBVIOUS
<1>2. /\ UNCHANGED <<wire, published, m_handlers, registered>> /\ called' = Append(called, c)
      /\ worker = "call" /\ worker' = "top" /\ got' = Feed!Nothing
  BY <1>1 DEF Feed!WorkerCalls, Feed!subVars, Feed!pubVars
<1>3. got # Feed!Nothing /\ Known(got, published) /\ Above(got.id, wire)
  BY <1>2 DEF FlowInv, Taken
<1>4. c.id = got.id /\ c.msg = published[got.id] /\ c.by = chosen
  BY <1>1, <1>3 DEF Known
<1>5. chosen \in 1..Len(registered) /\ registered[chosen] \in {c.msg.topic, Feed!Empty}
  BY <1>2, <1>4, LenProperties DEF FlowInv, Taken, FeedTypes, Feed!TypeOK
<1>6. Right(c, published, registered)
  BY <1>3, <1>4, <1>5 DEF Right, Known
<1>7. c \in CallsGiven
  <2>1. published[got.id] \in Publication /\ got.id \in Nat
    BY <1>3, ElementOfSeq, LenProperties DEF FeedTypes, Known
  <2>2. chosen \in Nat
    BY <1>5, LenProperties DEF FeedTypes, Feed!TypeOK
  <2> QED
    BY <1>1, <1>3, <2>1, <2>2 DEF CallsGiven, Known
<1>8. called \in Seq(CallsGiven) /\ \A i \in 1..Len(called) : called[i].id < c.id
  BY <1>3, <1>4 DEF FlowInv, Given
<1>9. /\ called' \in Seq(CallsGiven) /\ Len(called') = Len(called) + 1 /\ Len(called) \in Nat
      /\ called'[Len(called) + 1] = c /\ \A i \in 1..Len(called) : called'[i] = called[i]
  BY <1>2, <1>7, <1>8, AppendProperties, LenProperties
<1>10. \A i \in 1..Len(called') : i \in 1..Len(called) \/ i = Len(called) + 1
  BY <1>9
<1>11. Ascending(called')
  BY <1>2, <1>7, <1>8, AscendingAppend DEF FlowInv, Given
<1>12. \A i \in 1..Len(called') : Right(called'[i], published, registered) /\ Above(called'[i].id, wire)
  BY <1>3, <1>4, <1>6, <1>9, <1>10 DEF FlowInv, Given
<1>13. Given'
  BY <1>2, <1>9, <1>11, <1>12 DEF Given
<1>14. Taken'
  BY <1>2 DEF Taken
<1> QED
  BY <1>2, <1>13, <1>14 DEF FlowInv, Coming, Own

LEMMA FlowNext == FeedTypes /\ FlowInv /\ Feed!Next => FlowInv'
<1> SUFFICES ASSUME FeedTypes, FlowInv, Feed!Next PROVE FlowInv'
  OBVIOUS
<1> USE DEF Feed!pubVars, Feed!subVars, Feed!ownVars, Feed!workVars
<1>1. CASE Feed!Bind \/ Feed!Connect \/ Feed!DisconnectBegin
  BY <1>1, QuietFlow DEF Feed!Bind, Feed!Connect, Feed!DisconnectBegin
<1>2. CASE Feed!Unbind
  BY <1>2, DropFlow DEF Feed!Unbind
<1>3. CASE Feed!StartBackground \/ Feed!DisconnectJoin
  BY <1>3, QuietFlow DEF Feed!StartBackground, Feed!DisconnectJoin, FeedTypes, Feed!TypeOK
<1>4. CASE Feed!DisconnectClose
  <2>1. 0 \in 0..Len(wire) /\ SubSeq(wire, 1, 0) = <<>>
    BY SubSeqEmpty, LenProperties DEF FeedTypes, Feed!TypeOK
  <2> QED
    BY <1>4, <2>1, DropFlow DEF Feed!DisconnectClose
<1>5. CASE Feed!WorkerTop \/ Feed!WorkerGetsNone
  BY <1>5, QuietFlow DEF Feed!WorkerTop, Feed!WorkerGetsNone
<1>6. CASE Feed!TesterConnects \/ Feed!TesterPrints
  BY <1>6, QuietFlow DEF Feed!TesterConnects, Feed!TesterPrints
<1> QED
  BY <1>1, <1>2, <1>3, <1>4, <1>5, <1>6, SubscribeFlow, PublishFlow, GetsFlow, DispatchesFlow,
     CallsFlow DEF Feed!Next, Feed!WorkerStep

-----------------------------------------------------------------------------
FeedInv == FeedTypes /\ Feed!FiltersFollow /\ FlowInv

LEMMA FeedAlways == Spec => []FeedInv
<1>1. Init => FeedInv
  BY FeedTypesInit, FlowInit DEF Init, FeedInv
<1>2. ASSUME FeedInv, [Next]_vars PROVE FeedInv'
  <2>1. CASE Feed!Next
    BY <1>2, <2>1, FeedTypesNext, FiltersNext, FlowNext DEF FeedInv
  <2>2. CASE UNCHANGED feedVars
    BY <1>2, <2>2 DEF feedVars, FeedInv, FeedTypes, Feed!TypeOK, Whole, Feed!FiltersFollow,
       FlowInv, Coming, Taken, Given, Own
  <2> QED
    BY <1>2, <2>1, <2>2 DEF Next, ReqRepNext, PubSubNext, vars
<1> QED
  BY <1>1, <1>2, PTL DEF Spec

-----------------------------------------------------------------------------
(* The tester prints frames, and a message may be left with its last one   *)
(* waiting: what is printed and what waits fit together.                   *)

(* The frames of publication id of p.                                      *)
Of(p, id) == Feed!Parts(p[id].topic, p[id].payload)

(* Which frame of its message the i-th frame printed is, and whether it is *)
(* the last.                                                               *)
Place(pr, i) == IF i > 1 /\ pr[i-1].id = pr[i].id THEN 2 ELSE 1
Finished(pr, p, i) == Place(pr, i) = Len(Of(p, pr[i].id))

PrintedWell(pr, p, i) ==
  /\ pr[i].id \in 1..Len(p) /\ Place(pr, i) <= Len(Of(p, pr[i].id))
  /\ pr[i].frame = Of(p, pr[i].id)[Place(pr, i)]
  /\ \A j \in 1..i : pr[j].id <= pr[i].id
  /\ i > 1 /\ Place(pr, i) = 2 => Place(pr, i-1) = 1
  /\ i > 1 /\ Place(pr, i) = 1 => pr[i-1].id < pr[i].id /\ Finished(pr, p, i-1)

PrintedSoFar(pr, p) == \A i \in 1..Len(pr) : PrintedWell(pr, p, i)

(* The last message printed has a frame left.                              *)
Begun(pr, p) == Len(pr) > 0 /\ ~Finished(pr, p, Len(pr))

(* What waits is that frame, and messages of which nothing is printed.     *)
Left(pr, fr, p) ==
  /\ Ascending(fr) /\ \A k \in 1..Len(fr) : fr[k].id \in 1..Len(p)
  /\ \A k \in 1..Len(fr) : k > 1 \/ ~Begun(pr, p) => fr[k].parts = Of(p, fr[k].id)
  /\ Begun(pr, p) => /\ Len(fr) > 0 /\ fr[1].id = pr[Len(pr)].id
                     /\ fr[1].parts = <<Of(p, fr[1].id)[2]>>
  /\ Len(pr) > 0 /\ ~Begun(pr, p) => Above(pr[Len(pr)].id, fr)

Printed == [id : 1..MaxPubs, frame : Topics \cup Payloads]

PrintInv ==
  /\ printed \in Seq(Printed) /\ PrintedSoFar(printed, published)
  /\ Left(printed, frames, published)

LEMMA PrintInit == Feed!Init => PrintInv
<1> SUFFICES ASSUME Feed!Init PROVE PrintInv
  OBVIOUS
<1>1. printed = <<>> /\ frames = <<>> /\ Len(<<>>) = 0 /\ <<>> \in Seq(Printed)
  BY DEF Feed!Init
<1>2. Left(printed, frames, published)
  BY <1>1 DEF Left, Begun, Ascending
<1> QED
  BY <1>1, <1>2 DEF PrintInv, PrintedSoFar

(* A message has one frame or two.                                         *)
LEMMA OneOrTwo ==
  ASSUME NEW p, NEW id
  PROVE  \/ Len(Of(p, id)) = 1 /\ Of(p, id) = <<Of(p, id)[1]>>
         \/ Len(Of(p, id)) = 2 /\ Of(p, id) = <<Of(p, id)[1], Of(p, id)[2]>>
  BY DEF Of, Feed!Parts

(* What was printed is so whatever is published later.                     *)
LEMMA PrintedOn ==
  ASSUME NEW pr, NEW p, NEW q, PrintedSoFar(pr, p), Len(pr) \in Nat, Len(p) \in Nat,
         Len(q) = Len(p) + 1, \A id \in 1..Len(p) : q[id] = p[id]
  PROVE  /\ PrintedSoFar(pr, q) /\ Begun(pr, q) = Begun(pr, p)
         /\ \A id \in 1..Len(p) : id \in 1..Len(q) /\ Of(q, id) = Of(p, id)
<1>1. \A id \in 1..Len(p) : id \in 1..Len(q) /\ Of(q, id) = Of(p, id)
  BY DEF Of
<1>2. \A i \in 1..Len(pr) : pr[i].id \in 1..Len(p)
  BY DEF PrintedSoFar, PrintedWell
<1>3. \A i \in 1..Len(pr) : Finished(pr, q, i) = Finished(pr, p, i)
  BY <1>1, <1>2 DEF Finished
<1>4. Begun(pr, q) = Begun(pr, p)
  <2>1. CASE Len(pr) > 0
    <3>1. Len(pr) \in 1..Len(pr)
      BY <2>1
    <3> QED
      BY <1>3, <3>1 DEF Begun
  <2> QED
    BY <2>1 DEF Begun
<1>5. ASSUME NEW i \in 1..Len(pr) PROVE PrintedWell(pr, q, i)
  <2>1. PrintedWell(pr, p, i) /\ Of(q, pr[i].id) = Of(p, pr[i].id) /\ pr[i].id \in 1..Len(q)
    BY <1>1, <1>2 DEF PrintedSoFar
  <2>2. i > 1 => Finished(pr, q, i-1) = Finished(pr, p, i-1)
    <3>1. i > 1 => i - 1 \in 1..Len(pr)
      OBVIOUS
    <3> QED
      BY <1>3, <3>1
  <2> QED
    BY <2>1, <2>2 DEF PrintedWell
<1> QED
  BY <1>1, <1>4, <1>5 DEF PrintedSoFar

LEMMA PublishPrint ==
  ASSUME FeedTypes, PrintInv, NEW t \in Topics, NEW c \in Payloads, Feed!Publish(t, c)
  PROVE  PrintInv'
<1>0. PICK m : m = Sent(t, c)
  OBVIOUS
<1>1. PICK n \in Nat : n = Len(published)
  BY Publishing
<1>2. /\ Len(published') = n + 1 /\ published'[n + 1] = [topic |-> t, payload |-> c]
      /\ \A id \in 1..n : published'[id] = published[id]
      /\ frames' \in {frames, Append(frames, m)} /\ m.id = n + 1 /\ m \in Feed!Messages
  BY <1>0, <1>1, Publishing
<1>3. m.parts = Of(published', m.id)
  BY <1>0, <1>2 DEF Sent, Of
<1>4. UNCHANGED <<printed, tester>>
  BY DEF Feed!Publish
<1>5. /\ PrintedSoFar(printed, published') /\ Begun(printed, published') = Begun(printed, published)
      /\ \A id \in 1..n : id \in 1..Len(published') /\ Of(published', id) = Of(published, id)
  <2>1. /\ printed \in Seq(Printed) /\ Len(printed) \in Nat /\ PrintedSoFar(printed, published)
        /\ Len(published) \in Nat /\ Len(published') = Len(published) + 1
    BY <1>1, <1>2, LenProperties DEF PrintInv
  <2>2. \A id \in 1..Len(published) : published'[id] = published[id]
    BY <1>1, <1>2
  <2> QED
    BY <1>1, <2>1, <2>2, PrintedOn
<1>6. \A k \in 1..Len(frames) : frames[k].id \in 1..n
  BY <1>1 DEF PrintInv, Left
<1>7. Left(printed, frames, published')
  <2>1. /\ Ascending(frames) /\ \A k \in 1..Len(frames) : frames[k].id \in 1..Len(published')
        /\ \A k \in 1..Len(frames) : Of(published', frames[k].id) = Of(published, frames[k].id)
    BY <1>5, <1>6 DEF PrintInv, Left
  <2>2. \A k \in 1..Len(frames) : k > 1 \/ ~Begun(printed, published')
                                  => frames[k].parts = Of(published', frames[k].id)
    BY <1>5, <2>1 DEF PrintInv, Left
  <2>3. Begun(printed, published') =>
          /\ Len(frames) > 0 /\ frames[1].id = printed[Len(printed)].id
          /\ frames[1].parts = <<Of(published', frames[1].id)[2]>>
    <3> SUFFICES ASSUME Begun(printed, published)
                 PROVE  /\ Len(frames) > 0 /\ frames[1].id = printed[Len(printed)].id
                        /\ frames[1].parts = <<Of(published', frames[1].id)[2]>>
      BY <1>5
    <3>1. /\ Len(frames) > 0 /\ frames[1].id = printed[Len(printed)].id
          /\ frames[1].parts = <<Of(published, frames[1].id)[2]>>
      BY DEF PrintInv, Left
    <3>2. 1 \in 1..Len(frames)
      BY <3>1, LenProperties DEF FeedTypes, Feed!TypeOK
    <3> QED
      BY <2>1, <3>1, <3>2
  <2>4. Len(printed) > 0 /\ ~Begun(printed, published') => Above(printed[Len(printed)].id, frames)
    BY <1>5 DEF PrintInv, Left
  <2> QED
    BY <2>1, <2>2, <2>3, <2>4 DEF Left
<1>8. Left(printed, frames', published')
  <2>1. CASE frames' = frames
    BY <1>7, <2>1
  <2>2. CASE frames' = Append(frames, m)
    <3> DEFINE l == Len(frames)
    <3>1. /\ l \in Nat /\ Len(frames') = l + 1 /\ frames'[l + 1] = m
          /\ \A k \in 1..l : frames'[k] = frames[k]
      BY <1>2, <2>2, AppendProperties, LenProperties DEF FeedTypes, Feed!TypeOK
    <3>2. \A k \in 1..Len(frames') : k \in 1..l \/ k = l + 1
      BY <3>1
    <3>3. Ascending(frames')
      <4> SUFFICES ASSUME NEW i \in 1..Len(frames'), NEW j \in 1..Len(frames'), i < j
                   PROVE  frames'[i].id < frames'[j].id
        BY DEF Ascending
      <4>1. i \in 1..l
        BY <3>1
      <4>2. CASE j = l + 1
        BY <1>2, <1>6, <3>1, <4>1, <4>2
      <4>3. CASE j \in 1..l
        BY <3>1, <4>1, <4>3 DEF PrintInv, Left, Ascending
      <4> QED
        BY <3>2, <4>2, <4>3
    <3>4. \A k \in 1..Len(frames') : frames'[k].id \in 1..Len(published')
      <4>1. \A k \in 1..l : frames'[k].id \in 1..Len(published')
        BY <1>5, <1>6, <3>1
      <4>2. m.id \in 1..Len(published')
        BY <1>1, <1>2
      <4> QED
        BY <3>1, <3>2, <4>1, <4>2
    <3>5. \A k \in 1..Len(frames') : k > 1 \/ ~Begun(printed, published')
                                      => frames'[k].parts = Of(published', frames'[k].id)
      BY <1>3, <1>7, <3>1, <3>2 DEF Left
    <3>6. Begun(printed, published') =>
            /\ Len(frames') > 0 /\ frames'[1].id = printed[Len(printed)].id
            /\ frames'[1].parts = <<Of(published', frames'[1].id)[2]>>
      <4> SUFFICES ASSUME Begun(printed, published')
                   PROVE  /\ Len(frames') > 0 /\ frames'[1].id = printed[Len(printed)].id
                          /\ frames'[1].parts = <<Of(published', frames'[1].id)[2]>>
        OBVIOUS
      <4>1. /\ l > 0 /\ frames[1].id = printed[Len(printed)].id
            /\ frames[1].parts = <<Of(published', frames[1].id)[2]>>
        BY <1>7 DEF Left
      <4>2. frames'[1] = frames[1] /\ Len(frames') > 0
        BY <3>1, <4>1
      <4> QED
        BY <4>1, <4>2
    <3>7. Len(printed) > 0 /\ ~Begun(printed, published') => Above(printed[Len(printed)].id, frames')
      <4>1. Len(printed) > 0 => printed[Len(printed)].id \in 1..n
        <5>1. Len(printed) > 0 => Len(printed) \in 1..Len(printed)
          BY LenProperties DEF PrintInv
        <5> QED
          BY <1>1, <5>1 DEF PrintInv, PrintedSoFar, PrintedWell
      <4>2. Len(printed) > 0 => m.id > printed[Len(printed)].id
        BY <1>1, <1>2, <4>1
      <4>3. Len(printed) > 0 /\ ~Begun(printed, published') => Above(printed[Len(printed)].id, frames)
        BY <1>7 DEF Left
      <4> QED
        BY <3>1, <3>2, <4>2, <4>3 DEF Above
    <3> QED
      BY <3>3, <3>4, <3>5, <3>6, <3>7 DEF Left
  <2> QED
    BY <1>2, <2>1, <2>2
<1> QED
  BY <1>4, <1>5, <1>8 DEF PrintInv

LEMMA UnbindPrint ==
  ASSUME FeedTypes, PrintInv, Feed!Unbind
  PROVE  PrintInv'
<1>1. PICK n \in 0..Len(frames) :
        /\ n = 0 /\ frames # <<>> /\ printed # <<>> => printed[Len(printed)].id # frames[1].id
        /\ frames' = SubSeq(frames, 1, n)
  BY DEF Feed!Unbind
<1>2. Len(frames') = n /\ \A i \in 1..n : frames'[i] = frames[i] /\ i \in 1..Len(frames)
  BY <1>1, Cutting DEF FeedTypes, Feed!TypeOK
<1>3. UNCHANGED <<printed, published, tester>>
  BY DEF Feed!Unbind
<1>4. Begun(printed, published) => n > 0
  <2> SUFFICES ASSUME Begun(printed, published) PROVE n # 0
    BY LenProperties DEF FeedTypes, Feed!TypeOK
  <2>1. Len(frames) > 0 /\ frames[1].id = printed[Len(printed)].id /\ Len(printed) > 0
    BY DEF PrintInv, Left, Begun
  <2>2. frames # <<>> /\ printed # <<>>
    BY <2>1
  <2> QED
    BY <1>1, <2>1, <2>2
<1>5. Left(printed, frames', published)
  <2>1. n \in Nat
    BY LenProperties DEF FeedTypes, Feed!TypeOK
  <2>2. Ascending(frames')
    BY <1>2, <2>1 DEF PrintInv, Left, Ascending
  <2>3. \A k \in 1..n : /\ frames'[k].id \in 1..Len(published)
                        /\ k > 1 \/ ~Begun(printed, published)
                              => frames'[k].parts = Of(published, frames'[k].id)
    BY <1>2 DEF PrintInv, Left
  <2>4. Begun(printed, published) =>
          /\ Len(frames') > 0 /\ frames'[1].id = printed[Len(printed)].id
          /\ frames'[1].parts = <<Of(published, frames'[1].id)[2]>>
    BY <1>2, <1>4, <2>1 DEF PrintInv, Left
  <2>5. Len(printed) > 0 /\ ~Begun(printed, published) => Above(printed[Len(printed)].id, frames')
    BY <1>2 DEF PrintInv, Left, Above
  <2> QED
    BY <1>2, <2>2, <2>3, <2>4, <2>5 DEF Left
<1> QED
  BY <1>3, <1>5 DEF PrintInv

(* One more frame: the rest of the message that was begun, or the first of *)
(* another.                                                                *)
LEMMA PrintsPrint ==
  ASSUME FeedTypes, PrintInv, Feed!TesterPrints
  PROVE  PrintInv'
<1> DEFINE l == Len(printed)
           h == frames[1]
           f == [id |-> h.id, frame |-> Head(h.parts)]
           whole == Of(published, h.id)
<1>1. UNCHANGED published /\ frames # <<>> /\ frames \in Seq(Feed!Messages)
  BY DEF Feed!TesterPrints, Feed!pubVars, FeedTypes, Feed!TypeOK
<1>2. /\ Len(frames) \in Nat /\ 1 \in 1..Len(frames) /\ Head(frames) = h /\ h \in Feed!Messages
      /\ Len(Tail(frames)) = Len(frames) - 1
      /\ \A k \in 1..Len(Tail(frames)) : k + 1 \in 1..Len(frames) /\ Tail(frames)[k] = frames[k + 1]
  BY <1>1, Heading
<1>3. h.parts \in Seq(Topics \cup Payloads) /\ h.parts # <<>> /\ h.id \in 1..MaxPubs
  BY <1>2 DEF Feed!Messages, FeedTypes, Whole
<1>4. f \in Printed /\ Head(h.parts) = h.parts[1]
  BY <1>3, Heading DEF Printed
<1>5. /\ printed' = Append(printed, f)
      /\ frames' = IF Len(h.parts) = 1 THEN Tail(frames) ELSE [frames EXCEPT ![1].parts = Tail(@)]
  BY <1>2 DEF Feed!TesterPrints
<1> DEFINE pr == printed'
<1>6. /\ printed \in Seq(Printed) /\ pr \in Seq(Printed) /\ l \in Nat /\ Len(pr) = l + 1 /\ pr[l + 1] = f
      /\ \A i \in 1..l : pr[i] = printed[i]
  BY <1>4, <1>5, AppendProperties, LenProperties DEF PrintInv
<1>8. /\ \A i \in 1..l : Place(pr, i) = Place(printed, i)
      /\ \A i \in 1..l : Finished(pr, published, i) = Finished(printed, published, i)
  <2>1. ASSUME NEW i \in 1..l PROVE Place(pr, i) = Place(printed, i)
    <3>1. i > 1 => i - 1 \in 1..l
      BY <1>6
    <3> QED
      BY <1>6, <3>1 DEF Place
  <2> QED
    BY <1>6, <2>1 DEF Finished
<1>9. \A i \in 1..l : PrintedWell(pr, published, i)
  <2> SUFFICES ASSUME NEW i \in 1..l PROVE PrintedWell(pr, published, i)
    OBVIOUS
  <2>1. PrintedWell(printed, published, i)
    BY DEF PrintInv, PrintedSoFar
  <2>2. (i > 1 => i - 1 \in 1..l) /\ \A j \in 1..i : j \in 1..l
    BY <1>6
  <2> QED
    BY <1>6, <1>8, <2>1, <2>2 DEF PrintedWell
<1>10. h.id \in 1..Len(published) /\ Len(published) \in Nat
  BY <1>2, LenProperties DEF PrintInv, Left, FeedTypes
<1>11. l > 0 => l \in 1..l /\ printed[l].id \in Nat /\ \A j \in 1..l : printed[j].id <= printed[l].id
  <2>1. l > 0 => l \in 1..l
    BY <1>6
  <2>2. l > 0 => PrintedWell(printed, published, l)
    BY <2>1 DEF PrintInv, PrintedSoFar
  <2> QED
    BY <1>10, <2>1, <2>2 DEF PrintedWell
<1>12. ASSUME NEW k \in 1..Len(frames), k > 1 PROVE h.id < frames[k].id
  BY <1>2, <1>12 DEF PrintInv, Left, Ascending
<1>13. PrintedWell(pr, published, l + 1) /\ (Begun(pr, published) =>
         Len(h.parts) # 1 /\ Len(whole) = 2 /\ h.parts = whole)
       /\ (~Begun(pr, published) => Len(h.parts) = 1)
  <2>0. Begun(pr, published) <=> Place(pr, l + 1) # Len(whole)
    BY <1>6 DEF Begun, Finished
  <2>1. CASE Begun(printed, published)
    <3>1. h.id = printed[l].id /\ h.parts = <<whole[2]>> /\ l > 0
      BY <2>1 DEF PrintInv, Left, Begun
    <3>2. Place(pr, l + 1) = 2
      BY <1>6, <1>11, <3>1 DEF Place
    <3>3. PrintedWell(printed, published, l) /\ ~Finished(printed, published, l)
      BY <1>11, <2>1, <3>1 DEF PrintInv, PrintedSoFar, Begun
    <3>4. Len(whole) = 2 /\ Place(printed, l) = 1
      <4>1. Place(printed, l) \in {1, 2}
        BY DEF Place
      <4>2. Len(Of(published, printed[l].id)) = Len(whole) /\ Len(whole) \in {1, 2}
        BY <3>1, OneOrTwo
      <4>3. Place(printed, l) <= Len(whole)
        BY <3>3, <4>2 DEF PrintedWell
      <4>4. Place(printed, l) # Len(whole)
        BY <3>3, <4>2 DEF Finished
      <4> DEFINE n == Len(whole)
                 p == Place(printed, l)
      <4>5. n \in {1, 2} /\ p \in {1, 2} /\ p <= n /\ p # n
        BY <4>1, <4>2, <4>3, <4>4
      <4> HIDE DEF n, p, whole
      <4>6. n = 2 /\ p = 1
        BY <4>5
      <4> QED
        BY <4>6 DEF n, p
    <3>5. Len(h.parts) = 1 /\ h.parts[1] = whole[2]
      BY <3>1
    <3>6. \A j \in 1..(l + 1) : pr[j].id <= pr[l + 1].id
      <4>1. pr[l + 1].id = h.id /\ h.id \in Nat
        BY <1>6, <1>10
      <4>2. \A j \in 1..l : pr[j].id <= h.id
        BY <1>6, <1>11, <3>1
      <4>3. \A j \in 1..(l + 1) : j \in 1..l \/ j = l + 1
        BY <1>6
      <4> QED
        BY <4>1, <4>2, <4>3
    <3>7. PrintedWell(pr, published, l + 1)
      <4>1. pr[l + 1].id = h.id /\ pr[l + 1].frame = h.parts[1] /\ pr[l + 1].id \in 1..Len(published)
        BY <1>4, <1>6, <1>10
      <4>2. Place(pr, (l + 1) - 1) = 1
        BY <1>6, <1>8, <1>11, <3>1, <3>4
      <4> HIDE DEF f, h, l, pr
      <4> QED
        BY <3>2, <3>4, <3>5, <3>6, <4>1, <4>2 DEF PrintedWell
    <3> QED
      BY <2>0, <3>2, <3>4, <3>5, <3>7
  <2>2. CASE ~Begun(printed, published)
    <3>1. h.parts = whole /\ (l > 0 => printed[l].id < h.id)
      BY <1>2, <2>2 DEF PrintInv, Left, Above
    <3>2. Place(pr, l + 1) = 1
      <4>1. pr[l + 1].id = h.id /\ (l > 0 => pr[l].id = printed[l].id)
        BY <1>6, <1>11
      <4>2. l > 0 => printed[l].id # h.id
        BY <1>10, <1>11, <3>1
      <4>3. (l + 1 > 1 <=> l > 0) /\ (l + 1) - 1 = l
        BY <1>6
      <4> HIDE DEF f, h, l, pr
      <4> QED
        BY <4>1, <4>2, <4>3 DEF Place
    <3>3. l > 0 => Finished(pr, published, l)
      BY <1>8, <1>11, <2>2 DEF Begun
    <3>4. \A j \in 1..(l + 1) : pr[j].id <= pr[l + 1].id
      <4>1. \A j \in 1..l : printed[j].id <= h.id
        <5>1. \A j \in 1..l : printed[j].id \in Nat
          BY <1>10 DEF PrintInv, PrintedSoFar, PrintedWell
        <5>2. ASSUME NEW j \in 1..l PROVE printed[j].id <= h.id
          <6> DEFINE a == printed[j].id
                     b == printed[l].id
                     c == h.id
          <6>1. a \in Nat /\ b \in Nat /\ c \in Nat /\ a <= b /\ b < c
            BY <1>6, <1>10, <1>11, <3>1, <5>1
          <6> HIDE DEF a, b, c
          <6>2. a <= c
            BY <6>1
          <6> QED
            BY <6>2 DEF a, c
        <5> QED
          BY <5>2
      <4>2. pr[l + 1].id = h.id /\ h.id \in Nat
        BY <1>6, <1>10
      <4>3. \A j \in 1..l : pr[j].id <= h.id
        BY <1>6, <4>1
      <4>4. \A j \in 1..(l + 1) : j \in 1..l \/ j = l + 1
        BY <1>6
      <4> QED
        BY <4>2, <4>3, <4>4
    <3>5. Len(whole) \in {1, 2}
      BY OneOrTwo
    <3>6. l + 1 > 1 => l > 0 /\ (l + 1) - 1 = l /\ pr[l].id < pr[l + 1].id
      BY <1>6, <1>11, <3>1
    <3>7. PrintedWell(pr, published, l + 1)
      <4>1. pr[l + 1].id = h.id /\ pr[l + 1].frame = h.parts[1] /\ pr[l + 1].id \in 1..Len(published)
        BY <1>4, <1>6, <1>10
      <4> HIDE DEF f, h, l, pr
      <4> QED
        BY <3>1, <3>2, <3>3, <3>4, <3>5, <3>6, <4>1 DEF PrintedWell
    <3> QED
      BY <2>0, <3>1, <3>2, <3>5, <3>7
  <2> QED
    BY <2>1, <2>2
<1>14. \A k \in 1..Len(frames) : k > 1 => frames[k].parts = Of(published, frames[k].id)
  BY DEF PrintInv, Left
<1>15. Left(pr, frames', published)
  <2>1. CASE ~Begun(pr, published)
    <3>1. frames' = Tail(frames)
      BY <1>5, <1>13, <2>1
    <3>2. /\ Len(frames') \in Nat
          /\ \A k \in 1..Len(frames') : /\ k + 1 \in 1..Len(frames) /\ k + 1 > 1
                                        /\ frames'[k] = frames[k + 1]
      BY <1>2, <3>1
    <3>3. Ascending(frames')
      <4> SUFFICES ASSUME NEW i \in 1..Len(frames'), NEW j \in 1..Len(frames'), i < j
                   PROVE  frames'[i].id < frames'[j].id
        BY DEF Ascending
      <4>1. i + 1 < j + 1 /\ i + 1 \in 1..Len(frames) /\ j + 1 \in 1..Len(frames)
        BY <3>2
      <4>2. frames[i + 1].id < frames[j + 1].id
        BY <4>1 DEF PrintInv, Left, Ascending
      <4> QED
        BY <3>2, <4>2
    <3>4. \A k \in 1..Len(frames') : /\ frames'[k].id \in 1..Len(published)
                                     /\ frames'[k].parts = Of(published, frames'[k].id)
                                     /\ h.id < frames'[k].id
      BY <1>12, <1>14, <3>2 DEF PrintInv, Left
    <3>5. Above(pr[Len(pr)].id, frames')
      <4>1. pr[Len(pr)].id = h.id
        BY <1>6
      <4> QED
        BY <3>4, <4>1 DEF Above
    <3> QED
      BY <2>1, <3>3, <3>4, <3>5 DEF Left
  <2>2. CASE Begun(pr, published)
    <3>1. Len(h.parts) # 1 /\ Len(whole) = 2 /\ h.parts = whole
      BY <1>13, <2>2
    <3>2. Tail(whole) = <<whole[2]>>
      <4>1. whole = <<whole[1], whole[2]>>
        BY <3>1, OneOrTwo
      <4>2. \A x, y : Tail(<<x, y>>) = <<y>>
        OBVIOUS
      <4> HIDE DEF whole
      <4> QED
        BY <4>1, <4>2
    <3>3. frames' = [frames EXCEPT ![1].parts = Tail(h.parts)]
      BY <1>5, <3>1
    <3>4. /\ Len(frames') = Len(frames) /\ frames'[1].id = h.id /\ frames'[1].parts = <<whole[2]>>
          /\ \A k \in 1..Len(frames) : k > 1 => frames'[k] = frames[k]
      <4>1. DOMAIN frames' = DOMAIN frames /\ frames' \in Seq(Feed!Messages)
        <5>1. DOMAIN frames' = DOMAIN frames
          BY <3>3
        <5> QED
          BY <5>1, FeedTypesNext DEF FeedTypes, Feed!TypeOK, Feed!Next
      <4>2. frames'[1] = [h EXCEPT !.parts = Tail(h.parts)] /\ \A k \in 1..Len(frames) : k > 1 => frames'[k] = frames[k]
        BY <1>1, <1>2, <3>3, LenProperties
      <4>3. frames'[1].id = h.id /\ frames'[1].parts = Tail(h.parts)
        BY <1>2, <4>2 DEF Feed!Messages
      <4>4. Len(frames') = Len(frames)
        BY <1>1, <4>1, LenProperties
      <4> QED
        BY <3>1, <3>2, <4>2, <4>3, <4>4
    <3>5. \A k \in 1..Len(frames) : k = 1 \/ k > 1
      BY <1>2
    <3>6. \A k \in 1..Len(frames) : frames'[k].id = frames[k].id
      BY <3>4, <3>5
    <3>7. Ascending(frames') /\ \A k \in 1..Len(frames') : frames'[k].id \in 1..Len(published)
      BY <3>4, <3>6 DEF PrintInv, Left, Ascending
    <3>8. \A k \in 1..Len(frames') : k > 1 => frames'[k].parts = Of(published, frames'[k].id)
      BY <1>14, <3>4
    <3>9. Len(frames') > 0 /\ frames'[1].id = pr[Len(pr)].id
          /\ frames'[1].parts = <<Of(published, frames'[1].id)[2]>>
      BY <1>2, <1>6, <3>4
    <3> QED
      BY <2>2, <3>7, <3>8, <3>9 DEF Left
  <2> QED
    BY <2>1, <2>2
<1>16. PrintedSoFar(pr, published)
  <2>1. \A i \in 1..Len(pr) : i \in 1..l \/ i = l + 1
    BY <1>6
  <2> QED
    BY <1>9, <1>13, <2>1 DEF PrintedSoFar
<1> QED
  BY <1>1, <1>6, <1>15, <1>16 DEF PrintInv

LEMMA PrintNext == FeedTypes /\ PrintInv /\ Feed!Next => PrintInv'
<1> SUFFICES ASSUME FeedTypes, PrintInv, Feed!Next PROVE PrintInv'
  OBVIOUS
<1> USE DEF Feed!pubVars, Feed!subVars, Feed!ownVars, Feed!workVars, Feed!testerVars
<1>1. CASE UNCHANGED <<printed, frames, published>>
  BY <1>1 DEF PrintInv
<1>2. CASE Feed!Bind \/ Feed!Connect \/ Feed!StartBackground
  BY <1>1, <1>2 DEF Feed!Bind, Feed!Connect, Feed!StartBackground
<1>3. CASE Feed!DisconnectBegin \/ Feed!DisconnectJoin \/ Feed!DisconnectClose
  BY <1>1, <1>3 DEF Feed!DisconnectBegin, Feed!DisconnectJoin, Feed!DisconnectClose
<1>4. CASE Feed!WorkerStep
  BY <1>1, <1>4 DEF Feed!WorkerStep, Feed!WorkerTop, Feed!WorkerGets, Feed!WorkerGetsNone,
     Feed!WorkerDispatches, Feed!WorkerCalls
<1>5. ASSUME NEW t \in Topics, Feed!Subscribe(t) PROVE PrintInv'
  BY <1>1, <1>5 DEF Feed!Subscribe
<1>6. CASE Feed!TesterConnects
  BY <1>6 DEF Feed!TesterConnects, PrintInv
<1> QED
  BY <1>2, <1>3, <1>4, <1>5, <1>6, PublishPrint, UnbindPrint, PrintsPrint DEF Feed!Next

(* A set has the same count whichever module counts it.                    *)
LEMMA SameCount == ASSUME NEW S PROVE Feed!Cardinality(S) = Cardinality(S)
  BY Zenon DEF Feed!Cardinality, Cardinality, Feed!IsFiniteSet, IsFiniteSet

(* How many frames of its message are printed by then.                     *)
LEMMA NthIsPlace ==
  ASSUME PrintInv, NEW i \in 1..Len(printed)
  PROVE  Feed!Nth(i) = Place(printed, i)
<1> DEFINE S == {j \in 1..i : printed[j].id = printed[i].id}
<1>1. i \in Nat \ {0} /\ Len(printed) \in Nat
  BY LenProperties DEF PrintInv
<1>2. \A j \in 1..Len(printed) : PrintedWell(printed, published, j)
  BY DEF PrintInv, PrintedSoFar
<1>3. \A j \in 1..Len(printed) : printed[j].id \in Nat
  BY <1>2 DEF PrintedWell
<1>4. ASSUME NEW k \in 1..Len(printed), Place(printed, k) = 1, NEW j \in 1..k, j # k
      PROVE  printed[j].id < printed[k].id
  <2>1. k > 1 /\ k - 1 \in 1..Len(printed) /\ j \in 1..(k - 1) /\ j \in 1..Len(printed)
    BY <1>1, <1>4
  <2>2. printed[k-1].id < printed[k].id
    BY <1>2, <1>4, <2>1 DEF PrintedWell
  <2>3. printed[j].id <= printed[k-1].id
    BY <1>2, <2>1 DEF PrintedWell
  <2> DEFINE a == printed[j].id
             b == printed[k-1].id
             c == printed[k].id
  <2>4. a \in Nat /\ b \in Nat /\ c \in Nat /\ a <= b /\ b < c
    BY <1>3, <2>1, <2>2, <2>3
  <2> HIDE DEF a, b, c
  <2>5. a < c
    BY <2>4
  <2> QED
    BY <2>5 DEF a, c
<1>5. CASE Place(printed, i) = 1
  <2>1. S = {i}
    <3>1. \A j \in 1..i : j # i => printed[j].id # printed[i].id
      <4>1. \A j \in 1..i : j \in 1..Len(printed)
        BY <1>1
      <4> QED
        BY <1>3, <1>4, <1>5, <4>1
    <3> QED
      BY <1>1, <3>1
  <2>2. Cardinality(S) = 1
    BY <2>1, FS_Singleton
  <2> QED
    BY <1>5, <2>2, SameCount DEF Feed!Nth
<1>6. CASE Place(printed, i) = 2
  <2>1. i > 1 /\ printed[i-1].id = printed[i].id /\ i - 1 \in 1..Len(printed)
    BY <1>1, <1>6 DEF Place
  <2>2. Place(printed, i-1) = 1
    BY <1>2, <1>6, <2>1 DEF PrintedWell
  <2>3. \A j \in 1..(i-1) : j # i-1 => printed[j].id # printed[i].id
    <3>1. \A j \in 1..(i-1) : j \in 1..Len(printed)
      BY <1>1
    <3> QED
      BY <1>3, <1>4, <2>1, <2>2, <3>1
  <2>4. S = {i-1} \cup {i} /\ i \notin {i-1}
    BY <1>1, <2>1, <2>3
  <2>5. IsFiniteSet({i-1}) /\ Cardinality({i-1}) = 1
    BY FS_Singleton
  <2> DEFINE one == Cardinality({i-1})
             two == Cardinality({i-1} \cup {i})
  <2>6. two = one + 1
    BY <2>4, <2>5, FS_AddElement
  <2>7. two = 2
    <3>1. one = 1
      BY <2>5
    <3> HIDE DEF one, two
    <3> QED
      BY <2>6, <3>1
  <2>8. Cardinality(S) = 2
    BY <2>4, <2>7, Zenon
  <2> QED
    BY <1>6, <2>8, SameCount DEF Feed!Nth
<1> QED
  BY <1>5, <1>6 DEF Place

LEMMA PrintsAll == ASSUME PrintInv PROVE Feed!TesterPrintsAll
<1>1. Len(printed) \in Nat /\ \A i \in 1..Len(printed) : PrintedWell(printed, published, i)
  BY LenProperties DEF PrintInv, PrintedSoFar
<1>2. \A i \in 1..Len(printed) : Feed!PartsOf(i) = Of(published, printed[i].id)
  BY DEF Feed!PartsOf, Of
<1>3. ASSUME NEW i \in 1..Len(printed)
      PROVE  Feed!Nth(i) <= Len(Feed!PartsOf(i)) /\ printed[i].frame = Feed!PartsOf(i)[Feed!Nth(i)]
  BY <1>1, <1>2, NthIsPlace DEF PrintedWell
<1>4. ASSUME NEW i \in 2..Len(printed), printed[i-1].id # printed[i].id
      PROVE  printed[i-1].id < printed[i].id /\ Feed!Nth(i-1) = Len(Feed!PartsOf(i-1))
  <2>1. i \in 1..Len(printed) /\ i > 1 /\ i - 1 \in 1..Len(printed)
    BY <1>1
  <2>2. Place(printed, i) = 1
    BY <1>4 DEF Place
  <2>3. printed[i-1].id < printed[i].id /\ Finished(printed, published, i-1)
    BY <1>1, <2>1, <2>2 DEF PrintedWell
  <2> QED
    BY <1>2, <2>1, <2>3, NthIsPlace DEF Finished
<1> QED
  BY <1>3, <1>4 DEF Feed!TesterPrintsAll

LEMMA PrintAlways == Spec => []PrintInv
<1>1. Init => PrintInv
  BY PrintInit DEF Init
<1>2. FeedInv /\ PrintInv /\ [Next]_vars => PrintInv'
  <2> SUFFICES ASSUME FeedInv, PrintInv, [Next]_vars PROVE PrintInv'
    OBVIOUS
  <2>1. CASE Feed!Next
    BY <2>1, PrintNext DEF FeedInv
  <2>2. CASE UNCHANGED feedVars
    BY <2>2 DEF feedVars, PrintInv
  <2> QED
    BY <2>1, <2>2 DEF Next, ReqRepNext, PubSubNext, vars
<1> QED
  BY <1>1, <1>2, FeedAlways, PTL DEF Spec

-----------------------------------------------------------------------------
(* The service of module TopicFeed, as in PubSubProofs.                    *)

(* Only what has a handler is asked for, with or without a socket.         *)
FiltersAsked == \A t \in filters : t \in Topics /\ m_handlers[t] # 0

LEMMA AskedNext == FeedTypes /\ FiltersAsked /\ Feed!Next => FiltersAsked'
<1> SUFFICES ASSUME FeedTypes, FiltersAsked, Feed!Next PROVE FiltersAsked'
  OBVIOUS
<1> USE DEF Feed!pubVars, Feed!subVars, Feed!ownVars, Feed!workVars, Feed!testerVars
<1>1. CASE UNCHANGED <<filters, m_handlers>>
  BY <1>1 DEF FiltersAsked
<1>2. CASE Feed!Bind \/ Feed!Unbind \/ Feed!StartBackground \/ Feed!DisconnectBegin
  BY <1>1, <1>2 DEF Feed!Bind, Feed!Unbind, Feed!StartBackground, Feed!DisconnectBegin
<1>3. CASE Feed!DisconnectJoin \/ Feed!TesterConnects \/ Feed!TesterPrints
  BY <1>1, <1>3 DEF Feed!DisconnectJoin, Feed!TesterConnects, Feed!TesterPrints
<1>4. CASE Feed!WorkerStep
  BY <1>1, <1>4 DEF Feed!WorkerStep, Feed!WorkerTop, Feed!WorkerGets, Feed!WorkerGetsNone,
     Feed!WorkerDispatches, Feed!WorkerCalls
<1>5. ASSUME NEW t \in Topics, NEW p \in Payloads, Feed!Publish(t, p) PROVE FiltersAsked'
  BY <1>1, <1>5 DEF Feed!Publish
<1>6. ASSUME NEW t \in Topics, Feed!Subscribe(t) PROVE FiltersAsked'
  <2>1. /\ m_handlers'[t] = Len(registered) + 1 /\ Len(registered) \in Nat
        /\ \A u \in Topics \ {t} : m_handlers'[u] = m_handlers[u]
    BY <1>6, Registering
  <2>2. filters' \subseteq filters \cup {t}
    BY <1>6 DEF Feed!Subscribe
  <2> QED
    BY <2>1, <2>2 DEF FiltersAsked
<1>7. CASE Feed!Connect \/ Feed!DisconnectClose
  BY <1>7 DEF Feed!Connect, Feed!DisconnectClose, FiltersAsked
<1> QED
  BY <1>2, <1>3, <1>4, <1>5, <1>6, <1>7 DEF Feed!Next

LEMMA AskedAlways == Spec => []FiltersAsked
<1>1. Init => FiltersAsked
  BY DEF Init, Feed!Init, FiltersAsked
<1>2. FeedInv /\ FiltersAsked /\ [Next]_vars => FiltersAsked'
  <2> SUFFICES ASSUME FeedInv, FiltersAsked, [Next]_vars PROVE FiltersAsked'
    OBVIOUS
  <2>1. CASE Feed!Next
    BY <2>1, AskedNext DEF FeedInv
  <2>2. CASE UNCHANGED feedVars
    BY <2>2 DEF feedVars, FiltersAsked
  <2> QED
    BY <2>1, <2>2 DEF Next, ReqRepNext, PubSubNext, vars
<1> QED
  BY <1>1, <1>2, FeedAlways, PTL DEF Spec

LEMMA MessagesNumbered == Numbered(Feed!Messages)
  BY DEF Numbered, Feed!Messages

(* The publication in the hands of the loop that has no handler yet.       *)
Hand == IF worker = "dispatch" THEN <<got.id>> ELSE <<>>

LEMMA PendingIs == Feed!Pending = Joined(Hand, Ids(wire))
  BY DEF Feed!Pending, Joined, Hand, Ids

LEMMA PendingNext == Feed!Pending' = Joined(Hand', Ids(wire'))
  BY DEF Feed!Pending, Joined, Hand, Ids

LEMMA HandType ==
  ASSUME FeedTypes, Taken
  PROVE  Hand \in Seq(Nat)
<1>1. CASE worker = "dispatch"
  <2>1. got.id \in Nat
    BY <1>1 DEF FeedTypes, Feed!TypeOK, Taken, Feed!Messages
  <2> QED
    BY <1>1, <2>1 DEF Hand
<1>2. CASE worker # "dispatch"
  BY <1>2 DEF Hand
<1> QED
  BY <1>1, <1>2

LEMMA ServiceInit == Feed!Init => Feed!Service!Init
<1> SUFFICES ASSUME Feed!Init PROVE Feed!Service!Init
  OBVIOUS
<1>1. Feed!Pending = <<>>
  <2>1. Hand = <<>> /\ wire = <<>>
    BY DEF Feed!Init, Hand
  <2>2. wire \in Seq(Feed!Messages) /\ Len(wire) = 0
    BY <2>1
  <2>3. Ids(wire) \in Seq(Nat) /\ Len(Ids(wire)) = 0
    BY <2>2, MessagesNumbered, IdsType
  <2>4. Ids(wire) = <<>>
    BY <2>3, EmptySeq
  <2>5. <<>> \in Seq(Nat)
    OBVIOUS
  <2> QED
    BY <2>1, <2>4, <2>5, PendingIs, JoinedNone
<1>2. Feed!Chosen = Feed!Service!Unchosen /\ Len(registered) = 0
  BY DEF Feed!Init, Feed!Chosen, Feed!Service!Unchosen
<1> QED
  BY <1>1, <1>2 DEF Feed!Init, Feed!Service!Init

(* A step that touches nothing of the service.                             *)
LEMMA StutterStep ==
  ASSUME UNCHANGED <<wire, published, got, chosen, called, m_handlers, registered>>,
         worker' = worker \/ {worker, worker'} \cap {"dispatch", "call"} = {}
  PROVE  UNCHANGED Feed!Service!vars
<1>1. Feed!Pending' = Feed!Pending
  BY DEF Feed!Pending
<1>2. Feed!Chosen' = Feed!Chosen
  BY DEF Feed!Chosen
<1> QED
  BY <1>1, <1>2 DEF Feed!Service!vars

LEMMA LoseStep ==
  ASSUME FeedInv, NEW n \in 0..Len(wire), wire' = SubSeq(wire, 1, n),
         UNCHANGED <<published, got, chosen, called, m_handlers, registered, worker>>
  PROVE  Feed!Service!Lose
<1>1. wire \in Seq(Feed!Messages) /\ Hand \in Seq(Nat)
  BY HandType DEF FeedInv, FlowInv, FeedTypes, Feed!TypeOK
<1>2. /\ Len(Hand) + n \in 0..Len(Joined(Hand, Ids(wire)))
      /\ Joined(Hand, Ids(SubSeq(wire, 1, n))) = SubSeq(Joined(Hand, Ids(wire)), 1, Len(Hand) + n)
  BY <1>1, MessagesNumbered, IdsCut
<1>3. Hand' = Hand
  BY DEF Hand
<1>4. Feed!Pending' = Joined(Hand, Ids(SubSeq(wire, 1, n)))
  BY <1>3, PendingNext
<1>5. \E k \in 0..Len(Feed!Pending) : Feed!Pending' = SubSeq(Feed!Pending, 1, k)
  BY <1>2, <1>4, PendingIs
<1>6. Feed!Chosen' = Feed!Chosen
  BY DEF Feed!Chosen
<1> QED
  BY <1>5, <1>6 DEF Feed!Service!Lose

LEMMA SubscribeStep ==
  ASSUME FeedTypes, NEW t \in Topics, Feed!Subscribe(t)
  PROVE  Feed!Service!Subscribe(t)
<1>1. Len(registered') = Len(registered) + 1
  BY Registering
<1>2. m_handlers' = [m_handlers EXCEPT ![t] = Len(registered) + 1]
  BY DEF Feed!Subscribe
<1>3. UNCHANGED <<wire, published, got, chosen, called, worker>>
  BY DEF Feed!Subscribe, Feed!pubVars, Feed!workVars
<1>4. Feed!Pending' = Feed!Pending /\ Feed!Chosen' = Feed!Chosen
  BY <1>3 DEF Feed!Pending, Feed!Chosen
<1> QED
  BY <1>1, <1>2, <1>3, <1>4 DEF Feed!Service!Subscribe

LEMMA PublishStep ==
  ASSUME FeedInv, FiltersAsked, NEW t \in Topics, NEW p \in Payloads, Feed!Publish(t, p)
  PROVE  Feed!Service!Publish(t, p)
<1> DEFINE first == IF t = <<>> THEN p ELSE t
<1>1. Feed!Parts(t, p)[1] = first
  BY DEF Feed!Parts, Feed!Empty
<1>2. /\ published' = Append(published, [topic |-> t, payload |-> p])
      /\ UNCHANGED <<got, chosen, called, worker, m_handlers, registered>>
  BY DEF Feed!Publish, Feed!subVars, Feed!workVars
<1>3. Feed!Chosen' = Feed!Chosen
  BY <1>2 DEF Feed!Chosen
<1>4. \/ Feed!Pending' = Feed!Pending
      \/ Feed!Service!Heard(t, p) /\ Feed!Pending' = Append(Feed!Pending, Len(published) + 1)
  <2>1. CASE wire' = wire
    BY <1>2, <2>1 DEF Feed!Pending
  <2>2. CASE /\ wire' = Append(wire, Sent(t, p))
             /\ \E f \in filters : Feed!IsPrefix(f, Feed!Parts(t, p)[1])
    <3>1. Feed!Service!Heard(t, p)
      <4>1. PICK f \in filters : Feed!IsPrefix(f, first)
        BY <1>1, <2>2
      <4>2. f \in Topics /\ m_handlers[f] # 0
        BY DEF FiltersAsked
      <4>3. Feed!Service!IsPrefix(f, first) <=> Feed!IsPrefix(f, first)
        BY DEF Feed!Service!IsPrefix, Feed!IsPrefix
      <4> QED
        BY <4>1, <4>2, <4>3 DEF Feed!Service!Heard
    <3>2. PICK m : m = Sent(t, p)
      OBVIOUS
    <3>3. m \in Feed!Messages /\ m.id = Len(published) + 1
      BY <3>2, Publishing DEF FeedInv
    <3>4. wire \in Seq(Feed!Messages) /\ Hand \in Seq(Nat)
      BY HandType DEF FeedInv, FlowInv, FeedTypes, Feed!TypeOK
    <3>5. Joined(Hand, Ids(Append(wire, m))) = Append(Joined(Hand, Ids(wire)), m.id)
      BY <3>3, <3>4, MessagesNumbered, IdsAppend
    <3>6. Hand' = Hand
      BY <1>2 DEF Hand
    <3>7. Feed!Pending' = Joined(Hand, Ids(Append(wire, m)))
      BY <2>2, <3>2, <3>6, PendingNext
    <3>8. Feed!Pending' = Append(Feed!Pending, Len(published) + 1)
      BY <3>3, <3>5, <3>7, PendingIs
    <3> QED
      BY <3>1, <3>8
  <2> QED
    BY <2>1, <2>2 DEF Feed!Publish, Sent
<1> QED
  BY <1>2, <1>3, <1>4 DEF Feed!Service!Publish

(* The message changes hands, or the codec refuses it.                     *)
LEMMA GetsStep ==
  ASSUME FeedInv, Feed!WorkerGets
  PROVE  Feed!Service!Refuse \/ UNCHANGED Feed!Service!vars
<1>1. /\ UNCHANGED <<published, chosen, called, m_handlers, registered>>
      /\ wire # <<>> /\ wire' = Tail(wire) /\ worker = "recv"
      /\ \/ got' = Head(wire) /\ worker' = "dispatch"
         \/ got' = got /\ worker' = "top"
  BY DEF Feed!WorkerGets, Feed!subVars, Feed!pubVars
<1>2. wire \in Seq(Feed!Messages)
  BY DEF FeedInv, FeedTypes, Feed!TypeOK
<1>3. Ids(wire) \in Seq(Nat) /\ Tail(wire) \in Seq(Feed!Messages)
  BY <1>1, <1>2, MessagesNumbered, IdsType, Heading
<1>4. Feed!Pending = Ids(wire)
  BY <1>1, <1>3, PendingIs, JoinedNone DEF Hand
<1>5. Joined(<<Head(wire).id>>, Ids(Tail(wire))) = Ids(wire)
  BY <1>1, <1>2, MessagesNumbered, IdsHead
<1>6. Feed!Chosen' = Feed!Chosen
  BY <1>1 DEF Feed!Chosen
<1>7. CASE got' = Head(wire) /\ worker' = "dispatch"
  <2>1. Hand' = <<Head(wire).id>>
    BY <1>7 DEF Hand
  <2>2. Feed!Pending' = Feed!Pending
    BY <1>1, <1>4, <1>5, <2>1, PendingNext
  <2> QED
    BY <1>1, <1>6, <2>2 DEF Feed!Service!vars
<1>8. CASE worker' = "top"
  <2>1. Hand' = <<>>
    BY <1>8 DEF Hand
  <2>2. Ids(Tail(wire)) \in Seq(Nat)
    BY <1>3, MessagesNumbered, IdsType
  <2>3. Feed!Pending' = Ids(Tail(wire))
    BY <1>1, <2>1, <2>2, PendingNext, JoinedNone
  <2>4. Head(wire).id \in Nat
    <3>1. Head(wire) \in Feed!Messages
      BY <1>1, <1>2, Heading
    <3> QED
      BY <3>1 DEF Feed!Messages
  <2>5. Feed!Pending # <<>> /\ Tail(Feed!Pending) = Ids(Tail(wire))
    BY <1>4, <1>5, <2>2, <2>4, JoinedOne
  <2> QED
    BY <1>1, <1>6, <2>3, <2>5 DEF Feed!Service!Refuse
<1> QED
  BY <1>1, <1>7, <1>8

LEMMA DispatchesStep ==
  ASSUME FeedInv, Feed!WorkerDispatches
  PROVE  Feed!Service!Take
<1> DEFINE t == published[got.id].topic
<1>1. UNCHANGED <<wire, published, called, m_handlers, registered>> /\ worker = "dispatch"
  BY DEF Feed!WorkerDispatches, Feed!subVars, Feed!pubVars
<1>2. got # Feed!Nothing /\ Known(got, published) /\ got \in Feed!Messages
  BY <1>1 DEF FeedInv, FlowInv, Taken, FeedTypes, Feed!TypeOK
<1>3. Ids(wire) \in Seq(Nat) /\ got.id \in Nat
  <2>1. got.id \in Nat
    BY <1>2 DEF Feed!Messages
  <2>2. wire \in Seq(Feed!Messages)
    BY DEF FeedInv, FeedTypes, Feed!TypeOK
  <2> QED
    BY <2>1, <2>2, MessagesNumbered, IdsType
<1>4. Feed!Pending = Joined(<<got.id>>, Ids(wire))
  BY <1>1, PendingIs DEF Hand
<1>5. Feed!Pending # <<>> /\ Head(Feed!Pending) = got.id /\ Tail(Feed!Pending) = Ids(wire)
  BY <1>3, <1>4, JoinedOne
<1>6. Feed!Chosen = Feed!Service!Unchosen
  BY <1>1 DEF Feed!Chosen, Feed!Service!Unchosen
<1>7. t \in Topics
  <2>1. published[got.id] \in Publication
    BY <1>2, ElementOfSeq DEF FeedInv, FeedTypes, Known
  <2> QED
    BY <2>1 DEF Publication
<1>8. Feed!Service!Registration(t) = Feed!Find(t)
  BY <1>7 DEF Feed!Service!Registration, Feed!Find, Feed!Empty
<1>9. worker' # "dispatch" /\ Feed!Pending' = Ids(wire)
  <2>1. worker' # "dispatch"
    BY DEF Feed!WorkerDispatches
  <2>2. Hand' = <<>>
    BY <2>1 DEF Hand
  <2>3. Feed!Pending' = Joined(<<>>, Ids(wire))
    BY <1>1, <2>2, PendingNext
  <2> QED
    BY <1>3, <2>1, <2>3, JoinedNone
<1>10. chosen' = Feed!Find(t)
  BY <1>2 DEF Feed!WorkerDispatches, Known
<1>11. Feed!Chosen' = IF Feed!Find(t) = 0 THEN Feed!Service!Unchosen
                      ELSE [id |-> got.id, by |-> Feed!Find(t)]
  BY <1>10 DEF Feed!WorkerDispatches, Feed!Chosen, Feed!Service!Unchosen
<1> HIDE DEF t
<1>12. Feed!Chosen' = LET id == Head(Feed!Pending)
                          by == Feed!Service!Registration(published[id].topic)
                      IN  IF by = 0 THEN Feed!Service!Unchosen ELSE [id |-> id, by |-> by]
  BY <1>5, <1>8, <1>11 DEF t
<1> QED
  BY <1>1, <1>5, <1>6, <1>9, <1>12 DEF Feed!Service!Take

LEMMA CallsStep ==
  ASSUME FeedInv, Feed!WorkerCalls
  PROVE  Feed!Service!Call
<1>1. /\ UNCHANGED <<wire, published, m_handlers, registered>>
      /\ called' = Append(called, [id |-> got.id, msg |-> Feed!Read(got.parts), by |-> chosen])
      /\ worker = "call" /\ worker' = "top"
  BY DEF Feed!WorkerCalls, Feed!subVars, Feed!pubVars
<1>2. chosen # 0 /\ Feed!Read(got.parts) = published[got.id]
  BY <1>1 DEF FeedInv, FlowInv, Taken, Known
<1>3. Feed!Chosen = [id |-> got.id, by |-> chosen] /\ Feed!Chosen' = Feed!Service!Unchosen
  BY <1>1 DEF Feed!Chosen, Feed!Service!Unchosen
<1>4. Feed!Chosen # Feed!Service!Unchosen
  BY <1>2, <1>3 DEF Feed!Service!Unchosen
<1>5. Feed!Pending' = Feed!Pending
  BY <1>1 DEF Feed!Pending
<1>6. called' = Append(called, [id |-> Feed!Chosen.id, msg |-> published[Feed!Chosen.id],
                                by |-> Feed!Chosen.by])
  BY <1>1, <1>2, <1>3
<1> QED
  BY <1>1, <1>3, <1>4, <1>5, <1>6 DEF Feed!Service!Call

LEMMA FeedServiceNext ==
  ASSUME FeedInv, FiltersAsked, Feed!Next
  PROVE  [Feed!Service!Next]_(Feed!Service!vars)
<1> USE DEF Feed!pubVars, Feed!subVars, Feed!ownVars, Feed!workVars
<1>1. CASE Feed!Bind \/ Feed!Connect \/ Feed!DisconnectBegin
  BY <1>1, StutterStep DEF Feed!Bind, Feed!Connect, Feed!DisconnectBegin
<1>2. CASE Feed!Unbind
  BY <1>2, LoseStep DEF Feed!Unbind, Feed!Service!Next
<1>3. CASE Feed!StartBackground \/ Feed!DisconnectJoin
  BY <1>3, StutterStep DEF Feed!StartBackground, Feed!DisconnectJoin, FeedInv, FeedTypes, Feed!TypeOK
<1>4. CASE Feed!DisconnectClose
  <2>1. 0 \in 0..Len(wire) /\ SubSeq(wire, 1, 0) = <<>>
    BY SubSeqEmpty, LenProperties DEF FeedInv, FeedTypes, Feed!TypeOK
  <2> QED
    BY <1>4, <2>1, LoseStep DEF Feed!DisconnectClose, Feed!Service!Next
<1>5. CASE Feed!WorkerTop \/ Feed!WorkerGetsNone
  BY <1>5, StutterStep DEF Feed!WorkerTop, Feed!WorkerGetsNone
<1>6. CASE Feed!TesterConnects \/ Feed!TesterPrints
  BY <1>6, StutterStep DEF Feed!TesterConnects, Feed!TesterPrints
<1>7. ASSUME NEW t \in Topics, Feed!Subscribe(t) PROVE Feed!Service!Next
  BY <1>7, SubscribeStep DEF Feed!Service!Next, FeedInv
<1>8. ASSUME NEW t \in Topics, NEW p \in Payloads, Feed!Publish(t, p) PROVE Feed!Service!Next
  BY <1>8, PublishStep DEF Feed!Service!Next
<1>9. CASE Feed!WorkerGets
  BY <1>9, GetsStep DEF Feed!Service!Next
<1>10. CASE Feed!WorkerDispatches
  BY <1>10, DispatchesStep DEF Feed!Service!Next
<1>11. CASE Feed!WorkerCalls
  BY <1>11, CallsStep DEF Feed!Service!Next
<1> QED
  BY <1>1, <1>2, <1>3, <1>4, <1>5, <1>6, <1>7, <1>8, <1>9, <1>10, <1>11
     DEF Feed!Next, Feed!WorkerStep

LEMMA ServiceNext ==
  ASSUME FeedInv, FiltersAsked, [Next]_vars
  PROVE  [Feed!Service!Next]_(Feed!Service!vars)
<1>1. CASE Feed!Next
  BY <1>1, FeedServiceNext
<1>2. CASE UNCHANGED feedVars
  BY <1>2, StutterStep DEF feedVars
<1> QED
  BY <1>1, <1>2 DEF Next, ReqRepNext, PubSubNext, vars

-----------------------------------------------------------------------------
(* Every variable of both pairs keeps its type (zmq_rep_server.h:48-55,    *)
(* zmq_req_client.h:34-37, zmq_subscriber.h:45-54).                        *)
THEOREM Typing == Spec => []TypeOK
<1>1. PairInv /\ FeedInv => TypeOK
  BY DEF PairInv, FeedInv, FeedTypes, TypeOK
<1> QED
  BY <1>1, PairAlways, FeedAlways, PTL

(* Whatever the order of Subscribe, Connect and Disconnect, the filters of *)
(* the SUB socket are the topics that have a handler                       *)
(* (zmq_subscriber.cpp:21-73).                                             *)
THEOREM FiltersFollowHandlers == Spec => []FiltersFollow
<1>1. FeedInv => FiltersFollow
  BY DEF FeedInv, FiltersFollow
<1> QED
  BY <1>1, FeedAlways, PTL

(* ZmqPublisher and ZmqSubscriber implement the service of TopicFeed: a    *)
(* message that no codec refuses goes to the registration that its topic,  *)
(* or else the empty topic, has at one instant, in order and once          *)
(* (zmq_subscriber.cpp:86-153).  The tester prints each message whole,     *)
(* frame by frame, in order (zmq_ipc_tester/src/sub_client.cpp:59-82).     *)
THEOREM Served == Spec => SubscribersServed
<1>1. PrintInv => Feed!TesterPrintsAll
  BY PrintsAll
<1>2. Init => Feed!Service!Init
  BY ServiceInit DEF Init
<1>3. FeedInv /\ FiltersAsked /\ [Next]_vars => [Feed!Service!Next]_(Feed!Service!vars)
  BY ServiceNext
<1> QED
  BY <1>1, <1>2, <1>3, FeedAlways, AskedAlways, PrintAlways, PTL
     DEF Spec, SubscribersServed, Feed!ImplementsTopicFeed, Feed!Service!Spec
=============================================================================
