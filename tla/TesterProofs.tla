---------------------------- MODULE TesterProofs ----------------------------
(***************************************************************************)
(* Theorems about module Tester.                                           *)
(*                                                                         *)
(* The sum over the stress tests and the escapes of a text are recursive   *)
(* functions.  What is said of them for every argument is proved by        *)
(* induction, which is stated here for sets: a set of numbers that holds 0 *)
(* and the successor of each member is Nat, and a set of sets that holds   *)
(* every set all of whose proper subsets it holds has all finite sets.     *)
(***************************************************************************)
EXTENDS Tester, TLAPS, FiniteSetTheorems, WellFoundedInduction, SequenceTheorems

-----------------------------------------------------------------------------
(* Induction.                                                              *)

(* Induction over the natural numbers, for the set of those that have a    *)
(* property.                                                               *)
LEMMA NatSet ==
  ASSUME NEW N \in SUBSET Nat, 0 \in N, \A n \in N : n + 1 \in N
  PROVE  N = Nat
<1>1. SUFFICES ASSUME Nat \ N # {} PROVE FALSE
  OBVIOUS
<1>2. PICK n \in Nat \ N : \A m \in Nat \ N : <<m, n>> \notin OpToRel(<, Nat)
  <2>1. Nat \ N \subseteq Nat
    OBVIOUS
  <2>2. QED BY <1>1, <2>1, NatLessThanWellFounded, WFMin
<1>3. n - 1 \in Nat /\ n - 1 \notin N
  OBVIOUS
<1>4. <<n - 1, n>> \in OpToRel(<, Nat)
  BY <1>3 DEF OpToRel
<1>5. QED BY <1>2, <1>3, <1>4

(* Induction over the subsets of a finite set.                             *)
LEMMA SubsetsSet ==
  ASSUME NEW S, IsFiniteSet(S), NEW P \in SUBSET (SUBSET S),
         \A T \in SUBSET S : (\A U \in SUBSET T : U # T => U \in P) => T \in P
  PROVE  S \in P
<1> DEFINE B == (SUBSET S) \ P
<1>1. SUFFICES ASSUME B # {} PROVE FALSE
  OBVIOUS
<1>2. B \subseteq FiniteSubsetsOf(S)
  BY FS_Subset DEF FiniteSubsetsOf
<1>3. \E T \in B : \A U \in B : <<U, T>> \notin StrictSubsetOrdering(S)
  <2>1. IsWellFoundedOn(StrictSubsetOrdering(S), FiniteSubsetsOf(S))
    BY FS_StrictSubsetOrderingWellFounded
  <2> HIDE DEF B
  <2>2. QED BY <1>1, <1>2, <2>1, WFMin
<1>4. PICK T \in B : \A U \in B : <<U, T>> \notin StrictSubsetOrdering(S)
  BY <1>3
<1>5. ASSUME NEW U \in SUBSET T, U # T PROVE U \in P
  <2>1. <<U, T>> \in StrictSubsetOrdering(S)
    BY <1>4, <1>5 DEF StrictSubsetOrdering
  <2>2. QED BY <1>4, <1>5, <2>1
<1>6. QED BY <1>4, <1>5

-----------------------------------------------------------------------------
(* Sums.                                                                   *)

(* Some member.                                                            *)
AnyOf(s) == CHOOSE x \in s : TRUE

(* The sums of f over the sets of D, each got from that of a smaller one.  *)
Summed(sums, f, D) ==
  \A s \in D : sums[s] = IF s = {} THEN 0 ELSE f[AnyOf(s)] + sums[s \ {AnyOf(s)}]

(* Subsets of at most n members, and sums for all of them.                 *)
Small(S, n) == {s \in SUBSET S : Cardinality(s) <= n}

HasSums(S, f, n) == \E sums \in [Small(S, n) -> Nat] : Summed(sums, f, Small(S, n))

(* A set without one of its members is smaller.                            *)
LEMMA Smaller ==
  ASSUME NEW S, IsFiniteSet(S), NEW n \in Nat, NEW s \in Small(S, n + 1), s # {}
  PROVE  AnyOf(s) \in s /\ AnyOf(s) \in S /\ s \ {AnyOf(s)} \in Small(S, n)
<1>1. AnyOf(s) \in s
  BY DEF AnyOf
<1>2. IsFiniteSet(s) /\ Cardinality(s) \in Nat /\ s \in SUBSET S /\ Cardinality(s) <= n + 1
  BY FS_Subset, FS_CardinalityType DEF Small
<1>3. Cardinality(s \ {AnyOf(s)}) = Cardinality(s) - 1
  BY <1>1, <1>2, FS_RemoveElement
<1>4. QED BY <1>1, <1>2, <1>3 DEF Small

(* There are such sums.                                                    *)
LEMMA SumsExist ==
  ASSUME NEW S, IsFiniteSet(S), NEW f \in [S -> Nat]
  PROVE  \E sums \in [SUBSET S -> Nat] : Summed(sums, f, SUBSET S)
<1>1. HasSums(S, f, 0)
  <2>1. Small(S, 0) \subseteq {{}}
    <3> SUFFICES ASSUME NEW s \in Small(S, 0) PROVE s = {}
      OBVIOUS
    <3>1. IsFiniteSet(s) /\ Cardinality(s) \in Nat /\ Cardinality(s) <= 0
      BY FS_Subset, FS_CardinalityType DEF Small
    <3>2. Cardinality(s) = 0
      BY <3>1
    <3>3. QED BY <3>1, <3>2, FS_EmptySet
  <2>2. [s \in Small(S, 0) |-> 0] \in [Small(S, 0) -> Nat]
    OBVIOUS
  <2>3. Summed([s \in Small(S, 0) |-> 0], f, Small(S, 0))
    BY <2>1 DEF Summed
  <2>4. QED BY <2>2, <2>3 DEF HasSums
<1>2. ASSUME NEW n \in Nat, HasSums(S, f, n) PROVE HasSums(S, f, n + 1)
  <2>1. PICK sums \in [Small(S, n) -> Nat] : Summed(sums, f, Small(S, n))
    BY <1>2 DEF HasSums
  <2> DEFINE more == [s \in Small(S, n + 1) |->
                        IF s = {} THEN 0 ELSE f[AnyOf(s)] + sums[s \ {AnyOf(s)}]]
  <2>2. more \in [Small(S, n + 1) -> Nat]
    <3> SUFFICES ASSUME NEW s \in Small(S, n + 1)
                 PROVE  (IF s = {} THEN 0 ELSE f[AnyOf(s)] + sums[s \ {AnyOf(s)}]) \in Nat
      OBVIOUS
    <3>1. CASE s = {}
      BY <3>1
    <3>2. CASE s # {}
      BY <3>2, Smaller
    <3>3. QED BY <3>1, <3>2
  <2>3. ASSUME NEW s \in Small(S, n) PROVE s \in Small(S, n + 1) /\ more[s] = sums[s]
    <3>1. Cardinality(s) \in Nat /\ Cardinality(s) <= n
      BY FS_Subset, FS_CardinalityType DEF Small
    <3>2. s \in Small(S, n + 1)
      BY <3>1 DEF Small
    <3>3. QED BY <2>1, <3>2 DEF Summed
  <2>4. Summed(more, f, Small(S, n + 1))
    <3> SUFFICES ASSUME NEW s \in Small(S, n + 1)
                 PROVE  more[s] = IF s = {} THEN 0 ELSE f[AnyOf(s)] + more[s \ {AnyOf(s)}]
      BY DEF Summed
    <3>1. CASE s = {}
      BY <3>1
    <3>2. CASE s # {}
      <4>1. s \ {AnyOf(s)} \in Small(S, n)
        BY <3>2, Smaller
      <4>2. QED BY <3>2, <4>1, <2>3
    <3>3. QED BY <3>1, <3>2
  <2>5. QED BY <2>2, <2>4 DEF HasSums
<1>3. HasSums(S, f, Cardinality(S))
  <2> DEFINE N == {n \in Nat : HasSums(S, f, n)}
  <2>1. N = Nat
    <3>1. N \in SUBSET Nat /\ 0 \in N /\ \A n \in N : n + 1 \in N
      BY <1>1, <1>2
    <3>2. QED BY <3>1, NatSet
  <2>2. QED BY <2>1, FS_CardinalityType
<1>4. Small(S, Cardinality(S)) = SUBSET S
  BY FS_Subset DEF Small
<1>5. QED BY <1>3, <1>4 DEF HasSums

(* There is only one.                                                      *)
LEMMA SumsUnique ==
  ASSUME NEW S, IsFiniteSet(S), NEW f \in [S -> Nat], NEW g, NEW h,
         Summed(g, f, SUBSET S), Summed(h, f, SUBSET S)
  PROVE  g[S] = h[S]
<1> DEFINE P == {T \in SUBSET S : g[T] = h[T]}
<1>1. ASSUME NEW T \in SUBSET S, \A U \in SUBSET T : U # T => U \in P PROVE T \in P
  <2>1. CASE T = {}
    BY <2>1 DEF Summed
  <2>2. CASE T # {}
    <3>1. AnyOf(T) \in T
      BY <2>2 DEF AnyOf
    <3>2. T \ {AnyOf(T)} \in P
      BY <1>1, <3>1
    <3>3. QED BY <2>2, <3>2 DEF Summed
  <2>3. QED BY <2>1, <2>2
<1>2. P \in SUBSET (SUBSET S)
  OBVIOUS
<1>3. S \in P
  <2> HIDE DEF P
  <2>1. QED BY <1>1, <1>2, SubsetsSet
<1>4. QED BY <1>3

(* n is the sum of f over S, and f and k differ at t at most.              *)
IsSum(n, f, S) == \E sums \in [SUBSET S -> Nat] : Summed(sums, f, SUBSET S) /\ n = sums[S]

SameBut(t, f, k, S) == \A x \in S : x # t => f[x] = k[x]

(* When f grows at t, so does the sum, by as much.                         *)
LEMMA SumsGrow ==
  ASSUME NEW S, IsFiniteSet(S), NEW f \in [S -> Nat], NEW k \in [S -> Nat], NEW t \in S,
         SameBut(t, f, k, S), NEW m, IsSum(m, f, S), NEW n, IsSum(n, k, S)
  PROVE  m \in Nat /\ n \in Nat /\ m + k[t] = n + f[t]
<1>1. PICK g \in [SUBSET S -> Nat] : Summed(g, f, SUBSET S) /\ m = g[S]
  BY DEF IsSum
<1>2. PICK h \in [SUBSET S -> Nat] : Summed(h, k, SUBSET S) /\ n = h[S]
  BY DEF IsSum
<1> DEFINE P == {T \in SUBSET S : IF t \in T THEN g[T] + k[t] = h[T] + f[t] ELSE g[T] = h[T]}
<1>3. ASSUME NEW T \in SUBSET S, \A U \in SUBSET T : U # T => U \in P PROVE T \in P
  <2>1. CASE T = {}
    BY <1>1, <1>2, <2>1 DEF Summed
  <2>2. CASE T # {}
    <3>1. AnyOf(T) \in T /\ AnyOf(T) \in S
      BY <2>2 DEF AnyOf
    <3> DEFINE U == T \ {AnyOf(T)}
    <3>2. U \in P /\ U \in SUBSET S
      BY <1>3, <3>1
    <3>3. g[T] = f[AnyOf(T)] + g[U] /\ h[T] = k[AnyOf(T)] + h[U]
      BY <1>1, <1>2, <2>2 DEF Summed
    <3>4. g[U] \in Nat /\ h[U] \in Nat /\ f[AnyOf(T)] \in Nat /\ k[AnyOf(T)] \in Nat
          /\ f[t] \in Nat /\ k[t] \in Nat
      BY <3>1, <3>2
    <3> HIDE DEF U
    <3>5. CASE AnyOf(T) = t
      <4>1. t \notin U /\ t \in T
        BY <3>1, <3>5 DEF U
      <4>2. g[U] = h[U]
        BY <3>2, <4>1
      <4>3. QED BY <3>3, <3>4, <3>5, <4>1, <4>2
    <3>6. CASE AnyOf(T) # t
      <4>1. t \in U <=> t \in T
        BY <3>6 DEF U
      <4>2. f[AnyOf(T)] = k[AnyOf(T)]
        BY <3>1, <3>6 DEF SameBut
      <4>3. CASE t \in T
        <5>1. g[U] + k[t] = h[U] + f[t]
          BY <3>2, <4>1, <4>3
        <5>2. QED BY <3>3, <3>4, <4>2, <4>3, <5>1
      <4>4. CASE t \notin T
        <5>1. g[U] = h[U]
          BY <3>2, <4>1, <4>4
        <5>2. QED BY <3>3, <3>4, <4>2, <4>4, <5>1
      <4>5. QED BY <4>3, <4>4
    <3>7. QED BY <3>5, <3>6
  <2>3. QED BY <2>1, <2>2
<1>4. P \in SUBSET (SUBSET S)
  OBVIOUS
<1>5. S \in P
  <2> HIDE DEF P
  <2>1. QED BY <1>3, <1>4, SubsetsSet
<1>6. QED BY <1>1, <1>2, <1>5

-----------------------------------------------------------------------------
(* The receipts of the stress tests.                                       *)

(* The receipts of module Tester, on values of its variables.              *)
BegunAt(p, t) == CASE p[t] = "second" -> 1 [] p[t] = "third" -> 2 [] OTHER -> 0

Receipts(i, r, p) == MapThenSumSet(LAMBDA t : i[t] + 3 * r[t] + BegunAt(p, t), Testers)

Weight(i, r, p) == [t \in Testers |-> i[t] + 3 * r[t] + BegunAt(p, t)]

(* What MapThenSumSet computes.                                            *)
LEMMA ReceiptsSum ==
  ASSUME NEW i \in [Testers -> Nat], NEW r \in [Testers -> Nat], NEW p, IsFiniteSet(Testers)
  PROVE  IsSum(Receipts(i, r, p), Weight(i, r, p), Testers)
<1> DEFINE w == Weight(i, r, p)
<1>1. w \in [Testers -> Nat]
  BY DEF Weight, BegunAt
<1>2. PICK sums \in [SUBSET Testers -> Nat] : Summed(sums, w, SUBSET Testers)
  BY <1>1, SumsExist
<1> DEFINE Is(f) == f = [s \in SUBSET Testers |->
                          IF s = {} THEN 0
                          ELSE i[AnyOf(s)] + 3 * r[AnyOf(s)] + BegunAt(p, AnyOf(s)) + f[s \ {AnyOf(s)}]]
           iter == CHOOSE f : Is(f)
<1>3. \A s \in SUBSET Testers : s # {} => AnyOf(s) \in Testers
  BY DEF AnyOf
<1>4. Is(sums)
  BY <1>2, <1>3 DEF Summed, Weight
<1>5. Is(iter)
  <2> HIDE DEF Is
  <2>1. QED BY <1>4
<1>6. Summed(iter, w, SUBSET Testers)
  <2> HIDE DEF iter
  <2>1. QED BY <1>3, <1>5 DEF Summed, Weight
<1>7. Receipts(i, r, p) = iter[Testers]
  BY DEF Receipts, MapThenSumSet, MapThenFoldSet, AnyOf
<1>8. iter[Testers] = sums[Testers]
  <2> HIDE DEF iter, w
  <2>1. QED BY <1>1, <1>2, <1>6, SumsUnique
<1>9. QED BY <1>2, <1>7, <1>8 DEF IsSum

(* The sum changes by what the weight of one stress test changes.          *)
LEMMA ReceiptsChange ==
  ASSUME NEW i \in [Testers -> Nat], NEW r \in [Testers -> Nat], NEW p,
         NEW j \in [Testers -> Nat], NEW q \in [Testers -> Nat], NEW o, NEW t \in Testers,
         SameBut(t, i, j, Testers), SameBut(t, r, q, Testers), SameBut(t, p, o, Testers)
  PROVE  /\ Receipts(i, r, p) \in Nat /\ Receipts(j, q, o) \in Nat
         /\ Receipts(i, r, p) + j[t] + 3 * q[t] + BegunAt(o, t)
              = Receipts(j, q, o) + i[t] + 3 * r[t] + BegunAt(p, t)
<1> DEFINE f == Weight(i, r, p)
           k == Weight(j, q, o)
<1>1. IsSum(Receipts(i, r, p), f, Testers) /\ IsSum(Receipts(j, q, o), k, Testers)
  BY TestersAssumption, ReceiptsSum
<1>2. f \in [Testers -> Nat] /\ k \in [Testers -> Nat] /\ SameBut(t, f, k, Testers)
  BY DEF Weight, BegunAt, SameBut
<1>3. f[t] = i[t] + 3 * r[t] + BegunAt(p, t) /\ k[t] = j[t] + 3 * q[t] + BegunAt(o, t)
  BY DEF Weight
<1> HIDE DEF f, k
<1>4. /\ Receipts(i, r, p) \in Nat /\ Receipts(j, q, o) \in Nat
      /\ Receipts(i, r, p) + k[t] = Receipts(j, q, o) + f[t]
  <2>1. IsFiniteSet(Testers)
    BY TestersAssumption
  <2>2. QED BY <1>1, <1>2, <2>1, SumsGrow
<1>5. BegunAt(p, t) \in Nat /\ BegunAt(o, t) \in Nat
  BY DEF BegunAt
<1>6. QED BY <1>3, <1>4, <1>5

(* The types of what is counted.                                           *)
Stages == {"off", "failed", "send", "sending", "poll", "second", "third", "check", "done"}

Counts ==
  /\ stats \in [errors : Nat, messages_routed : Nat, failures : Nat]
  /\ inbox \in [Testers -> Nat] /\ recv_ok \in [Testers -> Nat]
  /\ pc \in [Testers -> Stages]

(* They hold at first,                                                     *)
LEMMA CountsInit == Init => Counts
  BY DEF Init, Counts, Stages

(* The counters of the gateway never go down.                              *)
LEMMA StatsKept ==
  ASSUME stats \in [errors : Nat, messages_routed : Nat, failures : Nat],
         (\E identity : Forwards(identity)) \/ Errs \/ Fails
  PROVE  /\ stats' \in [errors : Nat, messages_routed : Nat, failures : Nat]
         /\ stats'.messages_routed >= stats.messages_routed
<1>1. CASE stats' = [stats EXCEPT !.messages_routed = @ + 1]
  BY <1>1
<1>2. CASE stats' = [stats EXCEPT !.errors = @ + 1]
  BY <1>2
<1>3. CASE stats' = [stats EXCEPT !.errors = @ + 1, !.failures = @ + 1]
  <2>1. /\ stats'.errors = stats.errors + 1 /\ stats'.failures = stats.failures + 1
        /\ stats'.messages_routed = stats.messages_routed
        /\ stats' = [errors |-> stats'.errors, messages_routed |-> stats'.messages_routed,
                     failures |-> stats'.failures]
    BY <1>3
  <2>2. QED BY <2>1
<1>4. QED BY <1>1, <1>2, <1>3 DEF Forwards, Errs, Fails

(* and stay.                                                               *)
LEMMA CountsNext == Counts /\ [Next]_vars => Counts'
<1> SUFFICES ASSUME Counts, [Next]_vars PROVE Counts'
  OBVIOUS
<1> USE DEF Counts, Stages
<1>1. CASE HandleRouterMessage
  <2>1. recv_ok' = recv_ok /\ pc' = pc
    BY <1>1 DEF HandleRouterMessage, stressVars
  <2>2. (\E identity : Forwards(identity)) \/ Errs \/ Fails
    BY <1>1 DEF HandleRouterMessage
  <2>3. stats' \in [errors : Nat, messages_routed : Nat, failures : Nat]
    BY <2>2, StatsKept
  <2>4. inbox' \in [Testers -> Nat]
    BY <2>2 DEF Forwards, Errs, Fails
  <2>5. QED BY <2>1, <2>3, <2>4
<1>2. CASE ClientCalls
  BY <1>2 DEF ClientCalls, stressVars
<1>3. CASE ClientPosts
  BY <1>3 DEF ClientPosts, gatewayVars, stressVars
<1>4. ASSUME NEW t \in Testers, StressRegisters(t) PROVE Counts'
  BY <1>4 DEF StressRegisters
<1>5. ASSUME NEW t \in Testers, StressUnanswered(t) PROVE Counts'
  BY <1>5 DEF StressUnanswered
<1>6. ASSUME NEW t \in Testers, StressSends(t) PROVE Counts'
  BY <1>6 DEF StressSends
<1>7. ASSUME NEW t \in Testers, StressWaits(t) \/ StressDue(t) PROVE Counts'
  BY <1>7 DEF StressWaits, StressDue
<1>8. ASSUME NEW t \in Testers, StressPollsNothing(t) PROVE Counts'
  BY <1>8 DEF StressPollsNothing
<1>9. ASSUME NEW t \in Testers, StressReceives(t) PROVE Counts'
  BY <1>9 DEF StressReceives
<1>10. ASSUME NEW t \in Testers, StressChecks(t) PROVE Counts'
  BY <1>10 DEF StressChecks
<1>11. CASE UNCHANGED vars
  BY <1>11 DEF vars, stressVars
<1>12. QED
  BY <1>1, <1>2, <1>3, <1>4, <1>5, <1>6, <1>7, <1>8, <1>9, <1>10, <1>11 DEF Next, StressLoop

(* ReceiptsConserved, on values of the variables.                          *)
Conserved(i, r, p, s) == Receipts(i, r, p) <= s.messages_routed

(* It holds at first,                                                      *)
LEMMA ReceiptsInit == Init => Conserved(inbox, recv_ok, pc, stats)
<1> SUFFICES ASSUME Init PROVE Conserved(inbox, recv_ok, pc, stats)
  OBVIOUS
<1>1. Counts
  BY CountsInit
<1> DEFINE w == Weight(inbox, recv_ok, pc)
<1>2. PICK sums \in [SUBSET Testers -> Nat] :
        Summed(sums, w, SUBSET Testers) /\ Receipts(inbox, recv_ok, pc) = sums[Testers]
  <2>1. IsSum(Receipts(inbox, recv_ok, pc), w, Testers)
    BY <1>1, TestersAssumption, ReceiptsSum DEF Counts
  <2>2. QED BY <2>1 DEF IsSum
<1> DEFINE none == [s \in SUBSET Testers |-> 0]
<1>3. Summed(none, w, SUBSET Testers)
  <2> SUFFICES ASSUME NEW s \in SUBSET Testers, s # {} PROVE none[s] = w[AnyOf(s)] + none[s \ {AnyOf(s)}]
    BY DEF Summed
  <2>1. AnyOf(s) \in Testers
    BY DEF AnyOf
  <2>2. w[AnyOf(s)] = 0
    BY <2>1 DEF Weight, BegunAt, Init
  <2>3. QED BY <2>2
<1>4. sums[Testers] = none[Testers]
  <2>1. w \in [Testers -> Nat]
    BY <1>1 DEF Weight, BegunAt, Counts
  <2> HIDE DEF w, none
  <2>2. QED BY <1>2, <1>3, <2>1, TestersAssumption, SumsUnique
<1>5. QED BY <1>2, <1>4 DEF Init, Conserved

(* Every action leaves the sum as it is, or counts as routed what it adds. *)
LEMMA ReceiptsNext ==
  Counts /\ Conserved(inbox, recv_ok, pc, stats) /\ [Next]_vars
    => Conserved(inbox', recv_ok', pc', stats')
<1> SUFFICES ASSUME Counts, Conserved(inbox, recv_ok, pc, stats), [Next]_vars
             PROVE  Conserved(inbox', recv_ok', pc', stats')
  OBVIOUS
<1>1. Counts'
  BY CountsNext
<1> DEFINE before == Receipts(inbox, recv_ok, pc)
           after == Receipts(inbox', recv_ok', pc')
<1>2. ASSUME NEW t \in Testers,
             SameBut(t, inbox, inbox', Testers), SameBut(t, recv_ok, recv_ok', Testers),
             SameBut(t, pc, pc', Testers)
      PROVE  /\ before \in Nat /\ after \in Nat
             /\ before + inbox'[t] + 3 * recv_ok'[t] + BegunAt(pc', t)
                  = after + inbox[t] + 3 * recv_ok[t] + BegunAt(pc, t)
  <2>1. inbox \in [Testers -> Nat] /\ recv_ok \in [Testers -> Nat]
    BY DEF Counts
  <2>2. inbox' \in [Testers -> Nat] /\ recv_ok' \in [Testers -> Nat]
    BY <1>1 DEF Counts
  <2>3. QED BY ONLY <1>2, <2>1, <2>2, ReceiptsChange
<1>3. before \in Nat
  <2>1. IsSum(before, Weight(inbox, recv_ok, pc), Testers)
    BY TestersAssumption, ReceiptsSum DEF Counts
  <2>2. QED BY <2>1 DEF IsSum
<1> HIDE DEF before, after
<1>4. /\ stats \in [errors : Nat, messages_routed : Nat, failures : Nat]
      /\ stats' \in [errors : Nat, messages_routed : Nat, failures : Nat]
      /\ before <= stats.messages_routed
  BY <1>1 DEF Counts, Conserved, before
<1>5. SUFFICES after <= stats'.messages_routed
  BY DEF Conserved, after
<1>6. ASSUME UNCHANGED <<inbox, recv_ok, pc>>, stats'.messages_routed >= stats.messages_routed
      PROVE  after <= stats'.messages_routed
  <2>1. after = before
    BY <1>6 DEF before, after
  <2>2. QED BY <1>3, <1>4, <1>6, <2>1
<1>7. CASE HandleRouterMessage
  <2>1. UNCHANGED <<recv_ok, pc>>
    BY <1>7 DEF HandleRouterMessage, stressVars
  <2>2. CASE UNCHANGED inbox
    <3>1. stats'.messages_routed >= stats.messages_routed
      <4>1. (\E identity : Forwards(identity)) \/ Errs \/ Fails
        BY <1>7 DEF HandleRouterMessage
      <4>2. QED BY <1>4, <4>1, StatsKept
    <3>2. QED BY <1>6, <2>1, <2>2, <3>1
  <2>3. CASE inbox' # inbox
    <3>1. PICK t \in Testers : /\ inbox' = [inbox EXCEPT ![t] = @ + 1]
                              /\ stats' = [stats EXCEPT !.messages_routed = @ + 1]
      BY <1>7, <2>3 DEF HandleRouterMessage, Forwards, Errs, Fails
    <3>2. inbox'[t] = inbox[t] + 1 /\ inbox[t] \in Nat /\ recv_ok[t] \in Nat
      BY <3>1 DEF Counts
    <3>3. /\ SameBut(t, inbox, inbox', Testers) /\ SameBut(t, recv_ok, recv_ok', Testers)
          /\ SameBut(t, pc, pc', Testers)
      BY <2>1, <3>1 DEF Counts, SameBut
    <3>4. BegunAt(pc', t) = BegunAt(pc, t) /\ BegunAt(pc, t) \in Nat
      BY <2>1 DEF BegunAt
    <3>5. /\ before \in Nat /\ after \in Nat
          /\ before + inbox'[t] + 3 * recv_ok'[t] + BegunAt(pc', t)
               = after + inbox[t] + 3 * recv_ok[t] + BegunAt(pc, t)
      BY <1>2, <3>3
    <3>6. after = before + 1
      BY <2>1, <3>2, <3>4, <3>5
    <3>7. stats'.messages_routed = stats.messages_routed + 1
      BY <1>4, <3>1
    <3>8. QED BY <1>4, <3>6, <3>7, <3>5
  <2>4. QED BY <2>2, <2>3
<1>8. ASSUME NEW t \in Testers, StressReceives(t)
      PROVE  after <= stats'.messages_routed
  <2>1. stats' = stats
    BY <1>8 DEF StressReceives
  <2>2. /\ SameBut(t, inbox, inbox', Testers) /\ SameBut(t, recv_ok, recv_ok', Testers)
        /\ SameBut(t, pc, pc', Testers)
    BY <1>8 DEF StressReceives, Counts, SameBut
  <2>3. /\ before \in Nat /\ after \in Nat
        /\ before + inbox'[t] + 3 * recv_ok'[t] + BegunAt(pc', t)
             = after + inbox[t] + 3 * recv_ok[t] + BegunAt(pc, t)
    BY <1>2, <2>2
  <2>4. inbox[t] \in Nat /\ inbox'[t] = inbox[t] - 1 /\ recv_ok[t] \in Nat
    BY <1>8 DEF StressReceives, Counts
  <2>5. 3 * recv_ok'[t] + BegunAt(pc', t) = 3 * recv_ok[t] + BegunAt(pc, t) + 1
    <3>1. CASE pc[t] = "poll" /\ pc'[t] = "second" /\ recv_ok'[t] = recv_ok[t]
      BY <3>1, <2>4 DEF BegunAt
    <3>2. CASE pc[t] = "second" /\ pc'[t] = "third" /\ recv_ok'[t] = recv_ok[t]
      BY <3>2, <2>4 DEF BegunAt
    <3>3. CASE pc[t] = "third" /\ pc'[t] = "check" /\ recv_ok'[t] = recv_ok[t] + 1
      BY <3>3, <2>4 DEF BegunAt
    <3>4. QED BY <1>8, <3>1, <3>2, <3>3 DEF StressReceives, Counts
  <2>6. recv_ok'[t] \in Nat /\ BegunAt(pc, t) \in Nat /\ BegunAt(pc', t) \in Nat
    BY <1>1 DEF Counts, BegunAt
  <2>7. after = before
    BY <2>3, <2>4, <2>5, <2>6
  <2>8. QED BY <1>4, <2>1, <2>7
<1>9. ASSUME NEW t \in Testers,
             \/ StressRegisters(t) \/ StressUnanswered(t) \/ StressDue(t) \/ StressSends(t)
             \/ StressWaits(t) \/ StressPollsNothing(t) \/ StressChecks(t)
      PROVE  after <= stats'.messages_routed
  <2>1. stats' = stats /\ UNCHANGED <<inbox, recv_ok>>
    BY <1>9 DEF StressRegisters, StressUnanswered, StressDue, StressSends, StressWaits,
                StressPollsNothing, StressChecks
  <2>2. /\ SameBut(t, inbox, inbox', Testers) /\ SameBut(t, recv_ok, recv_ok', Testers)
        /\ SameBut(t, pc, pc', Testers)
        /\ pc[t] \in Stages \ {"second", "third"} /\ pc'[t] \in Stages \ {"second", "third"}
    BY <1>9 DEF StressRegisters, StressUnanswered, StressDue, StressSends, StressWaits,
                StressPollsNothing, StressChecks, Counts, Stages, SameBut
  <2>3. /\ before \in Nat /\ after \in Nat
        /\ before + inbox'[t] + 3 * recv_ok'[t] + BegunAt(pc', t)
             = after + inbox[t] + 3 * recv_ok[t] + BegunAt(pc, t)
    BY <1>2, <2>1, <2>2
  <2>4. BegunAt(pc, t) = 0 /\ BegunAt(pc', t) = 0
    BY <2>2 DEF BegunAt
  <2>5. inbox[t] \in Nat /\ recv_ok[t] \in Nat
    BY DEF Counts
  <2>6. after = before
    BY <2>1, <2>3, <2>4, <2>5
  <2>7. QED BY <1>4, <2>1, <2>6
<1>10. CASE ClientCalls \/ ClientPosts \/ UNCHANGED vars
  <2>1. UNCHANGED <<inbox, recv_ok, pc, stats>>
    BY <1>10 DEF ClientCalls, ClientPosts, vars, stressVars
  <2>2. QED BY <1>4, <1>6, <2>1
<1>11. QED
  BY <1>7, <1>8, <1>9, <1>10 DEF Next, StressLoop

(* One receipt of a stress test (RunStress) stands for three messages that *)
(* the gateway routed, whatever it was sent and by whom.                   *)
THEOREM Receiving == Spec => []ReceiptsConserved
<1>1. Init => Counts /\ Conserved(inbox, recv_ok, pc, stats)
  BY CountsInit, ReceiptsInit
<1>2. Counts /\ Conserved(inbox, recv_ok, pc, stats) /\ [Next]_vars
        => Counts' /\ Conserved(inbox', recv_ok', pc', stats')
  BY CountsNext, ReceiptsNext
<1>3. (Conserved(inbox, recv_ok, pc, stats))' <=> Conserved(inbox', recv_ok', pc', stats')
  OBVIOUS
<1>4. Conserved(inbox, recv_ok, pc, stats) => ReceiptsConserved
  BY DEF Conserved, Receipts, BegunAt, ReceiptsConserved, Begun
<1>5. QED BY <1>1, <1>2, <1>3, <1>4, PTL DEF Spec

-----------------------------------------------------------------------------
(* Flattening.                                                             *)

(* Concatenation, hidden from the provers.                                 *)
Joined(s, t) == s \o t

(* The type of a concatenation.                                            *)
LEMMA JoinedType == ASSUME NEW C, NEW s \in Seq(C), NEW t \in Seq(C) PROVE Joined(s, t) \in Seq(C)
  BY DEF Joined

(* flat[i] is what the first i of ss amount to, for i up to n.             *)
Flattened(flat, ss, n) ==
  \A i \in 1..n : flat[i] = IF i = 1 THEN ss[i] ELSE Joined(flat[i - 1], ss[i])

(* There is one such function,                                             *)
LEMMA FlattenedUnique ==
  ASSUME NEW ss, NEW f, NEW g, NEW n \in Nat, Flattened(f, ss, n), Flattened(g, ss, n),
         NEW i \in 1..n
  PROVE  f[i] = g[i]
<1> DEFINE Same(m) == m + 1 \in 1..n => f[m + 1] = g[m + 1]
<1>1. Same(0)
  BY DEF Flattened
<1>2. ASSUME NEW m \in Nat, Same(m) PROVE Same(m + 1)
  <2>1. SUFFICES ASSUME m + 2 \in 1..n PROVE f[m + 2] = g[m + 2]
    BY m + 1 + 1 = m + 2
  <2>2. f[m + 1] = g[m + 1]
    BY <1>2, <2>1
  <2>3. m + 2 # 1 /\ (m + 2) - 1 = m + 1
    OBVIOUS
  <2>4. f[m + 2] = Joined(f[m + 1], ss[m + 2]) /\ g[m + 2] = Joined(g[m + 1], ss[m + 2])
    BY <2>1, <2>3 DEF Flattened
  <2>5. QED BY <2>2, <2>4
<1>3. \A m \in Nat : Same(m)
  <2> DEFINE N == {m \in Nat : Same(m)}
  <2> HIDE DEF Same
  <2>1. N \in SUBSET Nat /\ 0 \in N /\ \A m \in N : m + 1 \in N
    BY <1>1, <1>2
  <2> HIDE DEF N
  <2>2. N = Nat
    BY <2>1, NatSet
  <2>3. QED BY <2>2 DEF N
<1>4. i - 1 \in Nat /\ (i - 1) + 1 = i
  OBVIOUS
<1>5. Same(i - 1)
  BY <1>3, <1>4
<1>6. QED BY <1>4, <1>5

(* there is at least one,                                                  *)
LEMMA FlattenedExists ==
  ASSUME NEW C, NEW n \in Nat, NEW ss \in [1..n -> Seq(C)]
  PROVE  \E flat \in [1..n -> Seq(C)] : Flattened(flat, ss, n)
<1> DEFINE Has(m) == m <= n => \E flat \in [1..m -> Seq(C)] : Flattened(flat, ss, m)
<1>1. Has(0)
  <2>1. [i \in 1..0 |-> <<>>] \in [1..0 -> Seq(C)]
    OBVIOUS
  <2>2. Flattened([i \in 1..0 |-> <<>>], ss, 0)
    BY DEF Flattened
  <2>3. QED BY <2>1, <2>2
<1>2. ASSUME NEW m \in Nat, Has(m) PROVE Has(m + 1)
  <2>1. SUFFICES ASSUME m + 1 <= n
                 PROVE  \E flat \in [1..(m + 1) -> Seq(C)] : Flattened(flat, ss, m + 1)
    OBVIOUS
  <2>2. PICK flat \in [1..m -> Seq(C)] : Flattened(flat, ss, m)
    BY <1>2, <2>1
  <2> DEFINE last == IF m = 0 THEN ss[1] ELSE Joined(flat[m], ss[m + 1])
             more == [i \in 1..(m + 1) |-> IF i = m + 1 THEN last ELSE flat[i]]
  <2>3. last \in Seq(C)
    <3>1. CASE m = 0
      BY <2>1, <3>1
    <3>2. CASE m # 0
      <4>1. flat[m] \in Seq(C) /\ ss[m + 1] \in Seq(C)
        BY <2>1, <3>2
      <4>2. QED BY <3>2, <4>1, JoinedType
    <3>3. QED BY <3>1, <3>2
  <2>4. more \in [1..(m + 1) -> Seq(C)]
    <3> HIDE DEF last
    <3>1. QED BY <2>3
  <2>5. ASSUME NEW i \in 1..(m + 1)
        PROVE  more[i] = IF i = 1 THEN ss[i] ELSE Joined(more[i - 1], ss[i])
    <3>1. CASE i = m + 1
      <4>1. CASE m = 0
        BY <3>1, <4>1
      <4>2. CASE m # 0
        <5>1. i - 1 \in 1..(m + 1) /\ i - 1 # m + 1 /\ i # 1 /\ i - 1 = m
          BY <3>1, <4>2
        <5>2. QED BY <3>1, <4>2, <5>1
      <4>3. QED BY <4>1, <4>2
    <3>2. CASE i # m + 1
      <4>1. i \in 1..m /\ (i # 1 => i - 1 \in 1..m)
        BY <3>2
      <4>2. flat[i] = IF i = 1 THEN ss[i] ELSE Joined(flat[i - 1], ss[i])
        BY <2>2, <4>1 DEF Flattened
      <4> HIDE DEF last
      <4>3. QED BY <3>2, <4>1, <4>2
    <3>3. QED BY <3>1, <3>2
  <2> HIDE DEF more
  <2>6. Flattened(more, ss, m + 1)
    BY <2>5 DEF Flattened
  <2>7. QED BY <2>4, <2>6
<1>3. \A m \in Nat : Has(m)
  <2> DEFINE N == {m \in Nat : Has(m)}
  <2> HIDE DEF Has
  <2>1. N \in SUBSET Nat /\ 0 \in N /\ \A m \in N : m + 1 \in N
    BY <1>1, <1>2
  <2> HIDE DEF N
  <2>2. N = Nat
    BY <2>1, NatSet
  <2>3. QED BY <2>2 DEF N
<1>4. QED BY <1>3

(* and it is what FlattenSeq computes.                                     *)
LEMMA FlattenSeqIs ==
  ASSUME NEW C, NEW ss \in Seq(Seq(C)), Len(ss) # 0, NEW flat, Flattened(flat, ss, Len(ss))
  PROVE  FlattenSeq(ss) = flat[Len(ss)]
<1>1. Len(ss) \in Nat /\ ss \in [1..Len(ss) -> Seq(C)]
  OBVIOUS
<1>2. PICK first \in [1..Len(ss) -> Seq(C)] : Flattened(first, ss, Len(ss))
  BY <1>1, FlattenedExists
<1> DEFINE Is(f) == f = [i \in 1..Len(ss) |-> IF i = 1 THEN ss[i] ELSE Joined(f[i - 1], ss[i])]
           chosen == CHOOSE f : Is(f)
<1>3. Is(first)
  BY <1>2 DEF Flattened
<1>4. Is(chosen)
  <2> HIDE DEF Is
  <2>1. QED BY <1>3
<1>5. Flattened(chosen, ss, Len(ss))
  <2> HIDE DEF chosen
  <2>1. QED BY <1>4 DEF Flattened
<1>6. Len(ss) \in 1..Len(ss)
  BY <1>1
<1>7. FlattenSeq(ss) = chosen[Len(ss)]
  BY <1>6 DEF FlattenSeq, Joined
<1> HIDE DEF chosen
<1>8. chosen[Len(ss)] = flat[Len(ss)]
  BY <1>1, <1>5, <1>6, FlattenedUnique
<1>9. QED BY <1>7, <1>8

(* Nothing is flattened to nothing.                                        *)
LEMMA FlattenSeqEmpty == FlattenSeq(<<>>) = <<>>
  BY DEF FlattenSeq

(* One more sequence.                                                      *)
LEMMA FlattenSeqAppend ==
  ASSUME NEW C, NEW ss \in Seq(Seq(C)), NEW s \in Seq(C)
  PROVE  FlattenSeq(Append(ss, s)) = Joined(FlattenSeq(ss), s)
<1> DEFINE more == Append(ss, s)
           n == Len(ss)
<1>1. more \in Seq(Seq(C)) /\ Len(more) = n + 1 /\ n \in Nat /\ more[n + 1] = s
      /\ \A i \in 1..n : more[i] = ss[i]
  BY AppendProperties, LenProperties
<1>2. more \in [1..(n + 1) -> Seq(C)] /\ n + 1 \in Nat /\ n + 1 # 0
  <2> HIDE DEF more, n
  <2>1. QED BY <1>1, LenProperties
<1> HIDE DEF more, n
<1>3. PICK flat \in [1..(n + 1) -> Seq(C)] : Flattened(flat, more, n + 1)
  BY <1>2, FlattenedExists
<1>4. FlattenSeq(more) = flat[n + 1]
  BY <1>1, <1>2, <1>3, FlattenSeqIs
<1>5. CASE n = 0
  <2>1. flat[1] = s
    BY <1>1, <1>3, <1>5 DEF Flattened
  <2>2. ss = <<>>
    BY <1>5 DEF n
  <2>3. Joined(<<>>, s) = s
    BY DEF Joined
  <2>4. QED BY <1>4, <1>5, <2>1, <2>2, <2>3, FlattenSeqEmpty DEF more
<1>6. CASE n # 0
  <2>1. Flattened(flat, ss, n)
    BY <1>1, <1>3 DEF Flattened
  <2>2. FlattenSeq(ss) = flat[n]
    BY <1>6, <2>1, FlattenSeqIs DEF n
  <2>3. n + 1 \in 1..(n + 1) /\ n + 1 # 1 /\ (n + 1) - 1 = n
    BY <1>1, <1>6
  <2>4. flat[n + 1] = Joined(flat[n], s)
    BY <1>1, <1>3, <2>3 DEF Flattened
  <2>5. QED BY <1>4, <2>2, <2>4 DEF more
<1>7. QED BY <1>5, <1>6

(* The type of what is flattened.                                          *)
LEMMA FlattenSeqType ==
  ASSUME NEW C, NEW ss \in Seq(Seq(C))
  PROVE  FlattenSeq(ss) \in Seq(C)
<1> DEFINE n == Len(ss)
<1>1. n \in Nat /\ ss \in [1..n -> Seq(C)]
  BY LenProperties
<1>2. CASE n = 0
  <2>1. ss = <<>>
    BY <1>2, EmptySeq
  <2>2. FlattenSeq(ss) = <<>>
    BY <2>1, FlattenSeqEmpty
  <2>3. QED BY <2>2, EmptySeq
<1>3. CASE n # 0
  <2> HIDE DEF n
  <2>1. PICK flat \in [1..n -> Seq(C)] : Flattened(flat, ss, n)
    BY <1>1, FlattenedExists
  <2>2. FlattenSeq(ss) = flat[n]
    BY <1>3, <2>1, FlattenSeqIs DEF n
  <2>3. QED BY <1>1, <1>3, <2>2
<1>4. QED BY <1>2, <1>3

(* Induction over sequences, at their end.                                 *)
LEMMA SeqSet ==
  ASSUME NEW C, NEW P, <<>> \in P, \A v \in Seq(C), c \in C : v \in P => Append(v, c) \in P
  PROVE  Seq(C) \subseteq P
<1> DEFINE N == {n \in Nat : \A v \in Seq(C) : Len(v) = n => v \in P}
<1>1. 0 \in N
  BY EmptySeq
<1>2. ASSUME NEW n \in N PROVE n + 1 \in N
  <2> SUFFICES ASSUME NEW v \in Seq(C), Len(v) = n + 1 PROVE v \in P
    OBVIOUS
  <2>1. PICK u \in Seq(C), c \in C : v = Append(u, c)
    <3>1. v # <<>>
      BY EmptySeq
    <3>2. QED BY <3>1, SequenceEmptyOrAppend
  <2>2. Len(u) = n
    <3>1. Len(u) \in Nat /\ Len(v) = Len(u) + 1
      BY <2>1, AppendProperties, LenProperties
    <3>2. QED BY <3>1
  <2>3. QED BY <2>1, <2>2
<1>3. N = Nat
  <2>1. N \in SUBSET Nat
    OBVIOUS
  <2> HIDE DEF N
  <2>2. QED BY <1>1, <1>2, <2>1, NatSet
<1>4. QED BY <1>3, LenProperties

-----------------------------------------------------------------------------
(* Escapes.                                                                *)

(* What becomes of a character, and over which characters it is written.   *)
Escaped(c) == IF c \in {Quote, Backslash} THEN <<Backslash, c>> ELSE <<c>>

Wider(C) == C \cup {Backslash}

(* The type of both.                                                       *)
LEMMA EscapedType == ASSUME NEW C, NEW c \in C PROVE Escaped(c) \in Seq(Wider(C))
<1>1. c \in Wider(C) /\ Backslash \in Wider(C)
  BY DEF Wider
<1> HIDE DEF Wider
<1>2. QED BY <1>1 DEF Escaped

Escapes(v) == [i \in DOMAIN v |-> Escaped(v[i])]

(* Escape by these names.                                                  *)
LEMMA EscapeIs == ASSUME NEW v PROVE Escape(v) = FlattenSeq(Escapes(v))
  BY DEF Escape, Escapes, Escaped

(* Nothing needs no escape.                                                *)
LEMMA EscapeEmpty == Escape(<<>>) = <<>>
<1>1. Escapes(<<>>) = <<>>
  BY DEF Escapes
<1>2. QED BY <1>1, EscapeIs, FlattenSeqEmpty

(* As many parts as characters.                                            *)
LEMMA EscapesType ==
  ASSUME NEW C, NEW v \in Seq(C)
  PROVE  Escapes(v) \in Seq(Seq(Wider(C))) /\ Len(Escapes(v)) = Len(v)
<1> DEFINE S == Seq(Wider(C))
<1>1. Len(v) \in Nat /\ DOMAIN v = 1..Len(v) /\ \A i \in 1..Len(v) : Escaped(v[i]) \in S
  BY EscapedType, LenProperties, ElementOfSeq
<1>2. Escapes(v) \in [1..Len(v) -> S]
  BY <1>1 DEF Escapes
<1> HIDE DEF S
<1>3. Escapes(v) \in Seq(S) /\ Len(Escapes(v)) = Len(v)
  BY <1>1, <1>2
<1>4. QED BY <1>3 DEF S

(* One more character.                                                     *)
LEMMA EscapeAppend ==
  ASSUME NEW C, NEW v \in Seq(C), NEW c \in C
  PROVE  Escape(v) \in Seq(Wider(C)) /\ Escape(Append(v, c)) = Escape(v) \o Escaped(c)
<1> DEFINE n == Len(v)
           more == Append(v, c)
           S == Seq(Wider(C))
<1>1. n \in Nat /\ more \in Seq(C) /\ Len(more) = n + 1 /\ more[n + 1] = c
      /\ \A i \in 1..n : more[i] = v[i]
  BY AppendProperties, LenProperties
<1>2. DOMAIN v = 1..n /\ DOMAIN more = 1..(n + 1)
  BY <1>1, LenProperties
<1>3. /\ Escapes(v) \in Seq(S) /\ Len(Escapes(v)) = n
      /\ Escapes(more) \in Seq(S) /\ Len(Escapes(more)) = n + 1 /\ Escaped(c) \in S
  BY <1>1, EscapesType, EscapedType
<1> HIDE DEF n, more, S
<1>4. Escapes(more) = Append(Escapes(v), Escaped(c))
  <2> DEFINE right == Append(Escapes(v), Escaped(c))
  <2>1. /\ right \in Seq(S) /\ Len(right) = n + 1 /\ right[n + 1] = Escaped(c)
        /\ \A i \in 1..n : right[i] = Escapes(v)[i]
    BY <1>3, AppendProperties
  <2>2. \A i \in 1..n : Escapes(v)[i] = Escaped(v[i])
    BY <1>2 DEF Escapes
  <2>3. \A i \in 1..(n + 1) : Escapes(more)[i] = Escaped(more[i])
    BY <1>2 DEF Escapes
  <2> HIDE DEF right
  <2>4. ASSUME NEW i \in 1..(n + 1) PROVE Escapes(more)[i] = right[i]
    <3>1. CASE i = n + 1
      BY <1>1, <2>1, <2>3, <3>1
    <3>2. CASE i # n + 1
      <4>1. i \in 1..n
        BY <1>1, <3>2
      <4>2. QED BY <1>1, <2>1, <2>2, <2>3, <4>1
    <3>3. QED BY <3>1, <3>2
  <2>5. Escapes(more) = right
    BY <1>3, <2>1, <2>4, SeqEqual
  <2>6. QED BY <2>5 DEF right
<1>5. FlattenSeq(Append(Escapes(v), Escaped(c))) = Joined(FlattenSeq(Escapes(v)), Escaped(c))
  BY <1>3, FlattenSeqAppend DEF S
<1>6. FlattenSeq(Escapes(v)) \in Seq(Wider(C))
  BY <1>3, FlattenSeqType DEF S
<1>7. QED BY <1>4, <1>5, <1>6, EscapeIs DEF Joined, more

(* The type of an escaped text.                                            *)
LEMMA EscapeType == ASSUME NEW C, NEW v \in Seq(C) PROVE Escape(v) \in Seq(Wider(C))
  BY EscapesType, FlattenSeqType, EscapeIs

(* A text of one character.                                                *)
LEMMA EscapeSingle == ASSUME NEW c PROVE Escape(<<c>>) = Escaped(c)
<1> DEFINE C == {c}
<1>1. c \in C /\ <<>> \in Seq(C) /\ Append(<<>>, c) = <<c>>
  OBVIOUS
<1> HIDE DEF C
<1>2. Escape(<<c>>) = <<>> \o Escaped(c)
  BY <1>1, EscapeAppend, EscapeEmpty
<1>3. Escaped(c) \in Seq(Wider(C))
  BY <1>1, EscapedType
<1>4. QED BY <1>2, <1>3, ConcatEmptySeq

(* A text is escaped part by part.                                         *)
LEMMA EscapeConcat ==
  ASSUME NEW C, NEW u \in Seq(C), NEW v \in Seq(C)
  PROVE  Escape(u \o v) = Escape(u) \o Escape(v)
<1> DEFINE W == Wider(C)
           P == {w \in Seq(C) : Escape(u \o w) = Escape(u) \o Escape(w)}
<1>1. \A w \in Seq(C), c \in C : Escape(w) \in Seq(W) /\ Escaped(c) \in Seq(W)
  BY EscapeType, EscapedType
<1>2. Escape(u) \in Seq(W)
  BY EscapeType
<1> HIDE DEF W
<1>3. <<>> \in P
  <2>1. u \o <<>> = u /\ Escape(u) \o <<>> = Escape(u)
    BY <1>2, ConcatEmptySeq
  <2>2. QED BY <2>1, EscapeEmpty, EmptySeq
<1>4. ASSUME NEW w \in Seq(C), NEW c \in C, w \in P PROVE Append(w, c) \in P
  <2>1. Append(w, c) \in Seq(C) /\ u \o w \in Seq(C)
    BY AppendProperties, ConcatProperties
  <2>2. u \o Append(w, c) = Append(u \o w, c)
    <3>1. Append(w, c) = w \o <<c>> /\ Append(u \o w, c) = (u \o w) \o <<c>> /\ <<c>> \in Seq(C)
      BY <2>1, AppendIsConcat
    <3>2. QED BY <3>1, ConcatAssociative
  <2>3. Escape(u \o Append(w, c)) = Escape(u \o w) \o Escaped(c)
    BY <2>1, <2>2, EscapeAppend
  <2>4. Escape(u) \o Escape(Append(w, c)) = Escape(u) \o (Escape(w) \o Escaped(c))
    BY EscapeAppend
  <2>5. (Escape(u) \o Escape(w)) \o Escaped(c) = Escape(u) \o (Escape(w) \o Escaped(c))
    BY <1>1, <1>2, ConcatAssociative, SMTT(30)
  <2>6. Escape(u \o w) = Escape(u) \o Escape(w)
    BY <1>4
  <2>7. Escape(u \o Append(w, c)) = Escape(u) \o Escape(Append(w, c))
    BY <2>3, <2>4, <2>5, <2>6
  <2>8. QED BY <2>1, <2>7
<1>5. Seq(C) \subseteq P
  <2> HIDE DEF P
  <2>1. QED BY <1>3, <1>4, SeqSet
<1>6. QED BY <1>5

(* What a character becomes ends with it.                                  *)
LEMMA EscapedLast ==
  ASSUME NEW W, NEW e \in Seq(W), NEW c, Escaped(c) \in Seq(W)
  PROVE  /\ Len(e \o Escaped(c)) \in Nat /\ Len(e \o Escaped(c)) > 0
         /\ (e \o Escaped(c))[Len(e \o Escaped(c))] = c
<1>1. Len(Escaped(c)) \in 1..2 /\ Escaped(c)[Len(Escaped(c))] = c
  BY DEF Escaped
<1>2. Len(e) \in Nat
  BY LenProperties
<1>3. Len(e \o Escaped(c)) = Len(e) + Len(Escaped(c))
      /\ \A i \in 1..(Len(e) + Len(Escaped(c))) :
           (e \o Escaped(c))[i] = IF i <= Len(e) THEN e[i] ELSE Escaped(c)[i - Len(e)]
  BY ConcatProperties
<1>4. QED BY <1>1, <1>2, <1>3

(* No two texts are escaped alike.                                         *)
LEMMA EscapeInjective ==
  ASSUME NEW C, NEW u \in Seq(C), NEW v \in Seq(C), Escape(u) = Escape(v)
  PROVE  u = v
<1> DEFINE W == Wider(C)
           P == {x \in Seq(C) : \A y \in Seq(C) : Escape(x) = Escape(y) => x = y}
<1>1. \A w \in Seq(C), c \in C : /\ Escape(w) \in Seq(W) /\ Escaped(c) \in Seq(W)
                                 /\ Escape(Append(w, c)) = Escape(w) \o Escaped(c)
  BY EscapeType, EscapedType, EscapeAppend
<1> HIDE DEF W
<1>2. \A w \in Seq(C), c \in C : /\ Escape(Append(w, c)) # <<>>
                                 /\ Escape(Append(w, c))[Len(Escape(Append(w, c)))] = c
  <2> SUFFICES ASSUME NEW w \in Seq(C), NEW c \in C
               PROVE  /\ Escape(Append(w, c)) # <<>>
                      /\ Escape(Append(w, c))[Len(Escape(Append(w, c)))] = c
    OBVIOUS
  <2> DEFINE e == Escape(w) \o Escaped(c)
  <2>1. Escape(Append(w, c)) = e /\ Len(e) > 0 /\ e[Len(e)] = c
    BY <1>1, EscapedLast
  <2> HIDE DEF e
  <2>2. e # <<>>
    BY <2>1, EmptySeq
  <2>3. QED BY <2>1, <2>2
<1>3. <<>> \in P
  <2> SUFFICES ASSUME NEW y \in Seq(C), Escape(<<>>) = Escape(y) PROVE <<>> = y
    BY EmptySeq
  <2>1. CASE y # <<>>
    <3>1. PICK w \in Seq(C), c \in C : y = Append(w, c)
      BY <2>1, SequenceEmptyOrAppend
    <3>2. QED BY <1>2, <3>1, EscapeEmpty
  <2>2. QED BY <2>1
<1>4. ASSUME NEW x \in Seq(C), NEW c \in C, x \in P PROVE Append(x, c) \in P
  <2> SUFFICES ASSUME NEW y \in Seq(C), Escape(Append(x, c)) = Escape(y) PROVE Append(x, c) = y
    BY AppendProperties
  <2>1. y # <<>>
    BY <1>2, EscapeEmpty
  <2>2. PICK w \in Seq(C), d \in C : y = Append(w, d)
    BY <2>1, SequenceEmptyOrAppend
  <2>3. c = d
    BY <1>2, <2>2
  <2>4. Escape(x) \o Escaped(c) = Escape(w) \o Escaped(c)
    BY <1>1, <2>2, <2>3
  <2>5. Escape(x) = Escape(w)
    <3>1. \A s, t, r \in Seq(W) : s \o r = t \o r => s = t
      BY ConcatSimplifications
    <3>2. QED BY <1>1, <2>4, <3>1
  <2>6. x = w
    BY <1>4, <2>5
  <2>7. QED BY <2>2, <2>3, <2>6
<1>5. Seq(C) \subseteq P
  <2> HIDE DEF P
  <2>1. QED BY <1>3, <1>4, SeqSet
<1>6. QED BY <1>5

-----------------------------------------------------------------------------
(* The end of a string.                                                    *)

(* b backslashes stand right before place i, none of them before "from".   *)
Run(text, from, i, b) ==
  /\ b \in 0..(i - from)
  /\ \A j \in (i - b)..(i - 1) : text[j] = Backslash
  /\ b = i - from \/ text[i - b - 1] # Backslash

EvenAt(e, i) == \E h \in Nat : Run(e, 1, i, 2 * h)
OddAt(e, i)  == \E h \in Nat : Run(e, 1, i, 2 * h + 1)

(* Backslashes protect every quote of e, and none follows e unpaired.      *)
Protected(e) ==
  EvenAt(e, Len(e) + 1) /\ \A i \in 1..Len(e) : e[i] = Quote => OddAt(e, i)

(* A run of backslashes is one wherever the text stands.                   *)
LEMMA RunMoves ==
  ASSUME NEW e, NEW f, NEW o \in Nat, NEW i \in Nat \ {0}, NEW b \in Nat,
         \A j \in 1..(i - 1) : f[o + j] = e[j], Run(e, 1, i, b)
  PROVE  Run(f, o + 1, o + i, b)
<1>1. b \in 0..(i - 1) /\ (\A j \in (i - b)..(i - 1) : e[j] = Backslash)
      /\ (b = i - 1 \/ e[i - b - 1] # Backslash)
  BY DEF Run
<1>2. b \in 0..((o + i) - (o + 1))
  BY <1>1
<1>3. ASSUME NEW j \in ((o + i) - b)..((o + i) - 1) PROVE f[j] = Backslash
  <2>1. j - o \in (i - b)..(i - 1) /\ j - o \in 1..(i - 1) /\ o + (j - o) = j
    BY <1>1
  <2>2. QED BY <1>1, <2>1
<1>4. b = (o + i) - (o + 1) \/ f[(o + i) - b - 1] # Backslash
  <2>1. CASE b = i - 1
    BY <2>1
  <2>2. CASE b # i - 1
    <3>1. i - b - 1 \in 1..(i - 1) /\ o + (i - b - 1) = (o + i) - b - 1
      BY <1>1, <2>2
    <3>2. QED BY <1>1, <2>2, <3>1
  <2>3. QED BY <2>1, <2>2
<1>5. QED BY <1>2, <1>3, <1>4 DEF Run

(* What is appended to e leaves the runs within e as they are.             *)
LEMMA RunsStay ==
  ASSUME NEW C, NEW e \in Seq(C), NEW f \in Seq(C), NEW i \in 1..(Len(e) + 1), NEW b \in Nat,
         Run(e, 1, i, b)
  PROVE  Run(e \o f, 1, i, b)
<1>1. Len(e) \in Nat /\ Len(f) \in Nat
  BY LenProperties
<1>2. \A j \in 1..(i - 1) : (e \o f)[0 + j] = e[j]
  BY <1>1, ConcatProperties
<1>3. i \in Nat \ {0} /\ 0 \in Nat
  BY <1>1
<1>4. Run(e \o f, 0 + 1, 0 + i, b)
  BY <1>2, <1>3, RunMoves
<1>5. QED BY <1>3, <1>4

(* What is escaped is protected, whatever it was.                          *)
LEMMA EscapeProtected == ASSUME NEW C, NEW v \in Seq(C) PROVE Protected(Escape(v))
<1> DEFINE W == Wider(C)
           P == {w \in Seq(C) : Protected(Escape(w))}
<1>1. \A w \in Seq(C), c \in C : /\ Escape(w) \in Seq(W) /\ Escaped(c) \in Seq(W)
                                 /\ Escape(Append(w, c)) = Escape(w) \o Escaped(c)
  BY EscapeType, EscapedType, EscapeAppend
<1> HIDE DEF W
<1>2. <<>> \in P
  <2>1. Run(<<>>, 1, 1, 0)
    BY DEF Run
  <2>2. EvenAt(<<>>, 1)
    <3>1. 0 = 2 * 0 /\ 0 \in Nat
      OBVIOUS
    <3>2. QED BY <2>1, <3>1 DEF EvenAt
  <2>3. Protected(<<>>)
    BY <2>2 DEF Protected
  <2>4. QED BY <2>3, EscapeEmpty, EmptySeq
<1>3. ASSUME NEW w \in Seq(C), NEW c \in C, w \in P PROVE Append(w, c) \in P
  <2> DEFINE e == Escape(w)
             n == Len(e)
             f == e \o Escaped(c)
  <2>1. n \in Nat /\ e \in Seq(W) /\ Escaped(c) \in Seq(W) /\ Protected(e)
    BY <1>1, <1>3, LenProperties
  <2>2. Len(f) = n + Len(Escaped(c)) /\ \A j \in 1..(n + Len(Escaped(c))) :
          f[j] = IF j <= n THEN e[j] ELSE Escaped(c)[j - n]
    BY <2>1, ConcatProperties
  <2> HIDE DEF e, n, f
  <2>3. ASSUME NEW i \in 1..(n + 1), NEW b \in Nat, Run(e, 1, i, b) PROVE Run(f, 1, i, b)
    BY <2>1, <2>3, RunsStay DEF n, f
  <2>4. ASSUME NEW i \in 1..n, f[i] = Quote PROVE OddAt(f, i)
    <3>1. e[i] = Quote
      BY <2>1, <2>2, <2>4 DEF Escaped
    <3>2. PICK h \in Nat : Run(e, 1, i, 2 * h + 1)
      BY <2>1, <3>1 DEF Protected, OddAt, n
    <3>3. Run(f, 1, i, 2 * h + 1)
      BY <2>1, <2>3, <3>2
    <3>4. QED BY <3>3 DEF OddAt
  <2>5. PICK h \in Nat : Run(e, 1, n + 1, 2 * h)
    BY <2>1 DEF Protected, EvenAt, n
  <2>6. Run(f, 1, n + 1, 2 * h)
    BY <2>1, <2>3, <2>5
  <2>7. ASSUME c \notin {Quote, Backslash} PROVE Protected(f)
    <3>1. Len(f) = n + 1 /\ f[n + 1] = c
      <4>1. Escaped(c) = <<c>>
        BY <2>7 DEF Escaped
      <4>2. Len(Escaped(c)) = 1 /\ Escaped(c)[1] = c
        BY <4>1
      <4>3. Len(f) = n + 1 /\ n + 1 \in 1..(n + 1) /\ ~(n + 1 <= n) /\ (n + 1) - n = 1
        BY <2>1, <2>2, <4>2
      <4>4. QED BY <2>2, <4>2, <4>3
    <3>2. Run(f, 1, n + 2, 2 * 0)
      BY <2>1, <2>7, <3>1 DEF Run
    <3>3. EvenAt(f, Len(f) + 1)
      <4>1. Len(f) + 1 = n + 2 /\ 0 \in Nat
        BY <2>1, <3>1
      <4>2. QED BY <3>2, <4>1 DEF EvenAt
    <3>4. ASSUME NEW i \in 1..Len(f), f[i] = Quote PROVE OddAt(f, i)
      BY <2>1, <2>4, <2>7, <3>1, <3>4, SMTT(30)
    <3>5. QED BY <3>3, <3>4 DEF Protected
  <2>8. ASSUME c = Backslash PROVE Protected(f)
    <3>1. Len(f) = n + 2 /\ f[n + 1] = Backslash /\ f[n + 2] = Backslash
      <4>1. Escaped(c) = <<Backslash, Backslash>>
        BY <2>8 DEF Escaped
      <4>2. Len(Escaped(c)) = 2 /\ Escaped(c)[1] = Backslash /\ Escaped(c)[2] = Backslash
        BY <4>1
      <4>3. QED BY <2>1, <2>2, <4>2
    <3>2. Run(f, 1, n + 3, 2 * (h + 1))
      BY <2>1, <2>6, <3>1 DEF Run
    <3>3. EvenAt(f, Len(f) + 1)
      <4>1. Len(f) + 1 = n + 3 /\ h + 1 \in Nat
        BY <2>1, <3>1
      <4>2. QED BY <3>2, <4>1 DEF EvenAt
    <3>4. ASSUME NEW i \in 1..Len(f), f[i] = Quote PROVE OddAt(f, i)
      <4>1. Quote # Backslash
        BY DEF Quote, Backslash
      <4>2. QED BY <2>1, <2>4, <3>1, <3>4, <4>1
    <3>5. QED BY <3>3, <3>4 DEF Protected
  <2>9. ASSUME c = Quote PROVE Protected(f)
    <3>1. Len(f) = n + 2 /\ f[n + 1] = Backslash /\ f[n + 2] = Quote
      <4>1. Escaped(c) = <<Backslash, Quote>>
        BY <2>9 DEF Escaped
      <4>2. Len(Escaped(c)) = 2 /\ Escaped(c)[1] = Backslash /\ Escaped(c)[2] = Quote
        BY <4>1
      <4>3. QED BY <2>1, <2>2, <4>2
    <3>2. Run(f, 1, n + 2, 2 * h + 1)
      BY <2>1, <2>6, <3>1 DEF Run
    <3>3. Run(f, 1, n + 3, 2 * 0)
      <4>1. Quote # Backslash
        BY DEF Quote, Backslash
      <4>2. QED BY <2>1, <3>1, <4>1 DEF Run
    <3>4. EvenAt(f, Len(f) + 1)
      <4>1. Len(f) + 1 = n + 3 /\ 0 \in Nat
        BY <2>1, <3>1
      <4>2. QED BY <3>3, <4>1 DEF EvenAt
    <3>5. ASSUME NEW i \in 1..Len(f), f[i] = Quote PROVE OddAt(f, i)
      <4>1. CASE i \in 1..n
        BY <2>4, <3>5, <4>1
      <4>2. CASE i = n + 1
        <5>1. Quote # Backslash
          BY DEF Quote, Backslash
        <5>2. QED BY <3>1, <3>5, <4>2, <5>1
      <4>3. CASE i = n + 2
        BY <3>2, <4>3 DEF OddAt
      <4>4. QED BY <2>1, <3>1, <4>1, <4>2, <4>3
    <3>6. QED BY <3>4, <3>5 DEF Protected
  <2>10. Protected(f)
    BY <2>7, <2>8, <2>9
  <2>11. QED BY <1>1, <2>10, AppendProperties DEF e, f
<1>4. Seq(C) \subseteq P
  <2> HIDE DEF P
  <2>1. QED BY <1>2, <1>3, SeqSet
<1>5. QED BY <1>4

(* The greatest member of a set.                                           *)
LEMMA MaxIs ==
  ASSUME NEW S \in SUBSET Int, NEW m \in S, \A x \in S : m >= x
  PROVE  Max(S) = m
<1> DEFINE Top(x) == x \in S /\ \A y \in S : x >= y
<1>1. Top(m)
  OBVIOUS
<1>2. ASSUME NEW x, Top(x) PROVE x = m
  <2>1. x \in Int /\ m \in Int /\ x >= m /\ m >= x
    BY <1>2
  <2>2. QED BY <2>1
<1>3. Max(S) = CHOOSE x : Top(x)
  BY DEF Max
<1> HIDE DEF Top
<1>4. QED BY <1>1, <1>2, <1>3

(* The least member of a set.                                              *)
LEMMA MinIs ==
  ASSUME NEW S \in SUBSET Int, NEW m \in S, \A x \in S : m <= x
  PROVE  Min(S) = m
<1> DEFINE Least(x) == x \in S /\ \A y \in S : x <= y
<1>1. Least(m)
  OBVIOUS
<1>2. ASSUME NEW x, Least(x) PROVE x = m
  <2>1. x \in Int /\ m \in Int /\ x <= m /\ m <= x
    BY <1>2
  <2>2. QED BY <2>1
<1>3. Min(S) = CHOOSE x : Least(x)
  BY DEF Min
<1> HIDE DEF Least
<1>4. QED BY <1>1, <1>2, <1>3

(* Backslashes counts the run before a place.                              *)
LEMMA BackslashesIs ==
  ASSUME NEW text, NEW from \in Nat, NEW i \in Nat, from <= i, NEW b \in Nat,
         Run(text, from, i, b)
  PROVE  Backslashes(text, from, i) = b
<1> DEFINE S == {j \in from..(i - 1) : text[j] # Backslash} \cup {from - 1}
           m == (i - 1) - b
<1>1. S \in SUBSET Int
  OBVIOUS
<1>2. b \in 0..(i - from) /\ (\A j \in (i - b)..(i - 1) : text[j] = Backslash)
      /\ (b = i - from \/ text[i - b - 1] # Backslash)
  BY DEF Run
<1>3. m \in S
  <2>1. CASE b = i - from
    BY <2>1
  <2>2. CASE b # i - from
    <3>1. m \in from..(i - 1) /\ m = i - b - 1
      BY <1>2, <2>2
    <3>2. QED BY <1>2, <2>2, <3>1
  <2>3. QED BY <2>1, <2>2
<1>4. ASSUME NEW j \in S PROVE m >= j
  <2>1. CASE j = from - 1
    BY <1>2, <2>1
  <2>2. CASE j \in from..(i - 1) /\ text[j] # Backslash
    <3>1. j \notin (i - b)..(i - 1)
      BY <1>2, <2>2
    <3>2. QED BY <1>2, <2>2, <3>1
  <2>3. QED BY <2>1, <2>2
<1>5. Max(S) = m
  <2> HIDE DEF S, m
  <2>1. QED BY <1>1, <1>3, <1>4, MaxIs
<1>6. Backslashes(text, from, i) = (i - 1) - Max(S)
  BY DEF Backslashes
<1>7. QED BY <1>2, <1>5, <1>6

(* e stands in text after the first o characters.                          *)
At(text, o, e) == o + Len(e) <= Len(text) /\ \A j \in 1..Len(e) : text[o + j] = e[j]

(* A string of which every quote is protected ends where it ends.          *)
LEMMA StringEndIs ==
  ASSUME NEW C, NEW text \in Seq(C), NEW e \in Seq(C), NEW o \in Nat, At(text, o, e),
         o + Len(e) + 1 <= Len(text), text[o + Len(e) + 1] = Quote, Protected(e)
  PROVE  StringEnd(text, o + 1) = o + Len(e) + 1
<1> DEFINE S == {i \in (o + 1)..Len(text) :
                   text[i] = Quote /\ Backslashes(text, o + 1, i) % 2 = 0} \cup {Len(text) + 1}
           n == Len(e)
           m == o + n + 1
<1>1. n \in Nat /\ Len(text) \in Nat /\ m <= Len(text)
  BY LenProperties
<1>2. ASSUME NEW i \in 1..(n + 1), NEW b \in Nat, Run(e, 1, i, b)
      PROVE  Backslashes(text, o + 1, o + i) = b
  <2>1. \A j \in 1..(i - 1) : text[o + j] = e[j]
    BY <1>1 DEF At
  <2>2. Run(text, o + 1, o + i, b)
    BY <1>1, <1>2, <2>1, RunMoves
  <2>3. QED BY <1>1, <2>2, BackslashesIs
<1>3. m \in S
  <2>1. PICK h \in Nat : Run(e, 1, n + 1, 2 * h)
    BY DEF Protected, EvenAt
  <2>2. Backslashes(text, o + 1, o + (n + 1)) = 2 * h
    BY <1>1, <1>2, <2>1
  <2>3. (2 * h) % 2 = 0 /\ o + (n + 1) = m
    BY <1>1
  <2>4. QED BY <1>1, <2>2, <2>3
<1>4. ASSUME NEW i \in S PROVE m <= i
  <2>1. SUFFICES ASSUME i < m PROVE FALSE
    BY <1>1
  <2>2. i \in (o + 1)..Len(text) /\ text[i] = Quote /\ Backslashes(text, o + 1, i) % 2 = 0
    BY <1>1, <2>1
  <2>3. i - o \in 1..n /\ i - o \in 1..(n + 1) /\ o + (i - o) = i
    BY <1>1, <2>1, <2>2
  <2>4. e[i - o] = Quote
    BY <2>2, <2>3 DEF At
  <2>5. PICK h \in Nat : Run(e, 1, i - o, 2 * h + 1)
    BY <2>3, <2>4 DEF Protected, OddAt
  <2>6. Backslashes(text, o + 1, i) = 2 * h + 1
    BY <1>2, <2>3, <2>5
  <2>7. (2 * h + 1) % 2 = 1
    OBVIOUS
  <2>8. QED BY <2>2, <2>6, <2>7
<1>5. S \in SUBSET Int
  BY <1>1
<1>6. Min(S) = m
  <2> HIDE DEF S, m, n
  <2>1. QED BY <1>3, <1>4, <1>5, MinIs
<1>7. QED BY <1>6 DEF StringEnd

(* Two sequences are the third that has the elements of both.              *)
LEMMA Together ==
  ASSUME NEW C, NEW x \in Seq(C), NEW y \in Seq(C), NEW z \in Seq(C), Len(z) = Len(x) + Len(y),
         \A i \in 1..Len(x) : z[i] = x[i], \A i \in 1..Len(y) : z[Len(x) + i] = y[i]
  PROVE  x \o y = z
<1>1. Len(x) \in Nat /\ Len(y) \in Nat /\ x \o y \in Seq(C) /\ Len(x \o y) = Len(x) + Len(y)
  BY LenProperties, ConcatProperties
<1>2. ASSUME NEW i \in 1..(Len(x) + Len(y)) PROVE (x \o y)[i] = z[i]
  <2>1. CASE i <= Len(x)
    <3>1. i \in 1..Len(x)
      BY <1>1, <2>1
    <3>2. (x \o y)[i] = x[i]
      BY <1>1, <2>1, ConcatProperties
    <3>3. QED BY <3>1, <3>2
  <2>2. CASE ~(i <= Len(x))
    <3>1. i - Len(x) \in 1..Len(y) /\ Len(x) + (i - Len(x)) = i
      BY <1>1, <2>2
    <3>2. (x \o y)[i] = y[i - Len(x)]
      BY <1>1, <2>2, ConcatProperties
    <3>3. QED BY <3>1, <3>2
  <2>3. QED BY <2>1, <2>2
<1>3. QED BY <1>1, <1>2, SeqEqual

(* Literals joined.                                                        *)
LEMMA OneOne == ASSUME NEW a, NEW b PROVE <<a>> \o <<b>> = <<a, b>>
<1> DEFINE C == {a, b}
           x == <<a>>
           y == <<b>>
           z == <<a, b>>
<1>1. x \in Seq(C) /\ y \in Seq(C) /\ z \in Seq(C) /\ Len(x) = 1 /\ Len(y) = 1 /\ Len(z) = 2
      /\ x[1] = a /\ y[1] = b /\ z[1] = a /\ z[2] = b
  OBVIOUS
<1> HIDE DEF C, x, y, z
<1>2. (\A i \in 1..Len(x) : z[i] = x[i]) /\ \A i \in 1..Len(y) : z[Len(x) + i] = y[i]
  BY <1>1
<1>3. Len(z) = Len(x) + Len(y)
  BY <1>1
<1>4. x \o y = z
  BY <1>1, <1>2, <1>3, Together
<1>5. QED BY <1>4 DEF x, y, z

(* The same of a pair.                                                     *)
LEMMA TwoOne == ASSUME NEW a, NEW b, NEW c PROVE <<a, b>> \o <<c>> = <<a, b, c>>
<1> DEFINE C == {a, b, c}
           x == <<a, b>>
           y == <<c>>
           z == <<a, b, c>>
<1>1. x \in Seq(C) /\ y \in Seq(C) /\ z \in Seq(C) /\ Len(x) = 2 /\ Len(y) = 1 /\ Len(z) = 3
      /\ x[1] = a /\ x[2] = b /\ y[1] = c /\ z[1] = a /\ z[2] = b /\ z[3] = c
  OBVIOUS
<1> HIDE DEF C, x, y, z
<1>2. (\A i \in 1..Len(x) : z[i] = x[i]) /\ \A i \in 1..Len(y) : z[Len(x) + i] = y[i]
  BY <1>1
<1>3. Len(z) = Len(x) + Len(y)
  BY <1>1
<1>4. x \o y = z
  BY <1>1, <1>2, <1>3, Together
<1>5. QED BY <1>4 DEF x, y, z

(* The beginning of an announcement, and its middle.                       *)
LEMMA HeadIs ==
  ASSUME NEW q, NEW a, NEW b, NEW o
  PROVE  <<o>> \o (<<q, a, q>> \o (<<b>> \o <<q>>)) = <<o, q, a, q, b, q>>
<1> DEFINE C == {q, a, b, o}
           x == <<q, a, q>>
           y == <<b, q>>
           z == <<q, a, q, b, q>>
           h == <<o>>
           t == <<o, q, a, q, b, q>>
<1>1. x \in Seq(C) /\ y \in Seq(C) /\ z \in Seq(C) /\ h \in Seq(C) /\ t \in Seq(C)
  OBVIOUS
<1>2. Len(x) = 3 /\ Len(y) = 2 /\ Len(z) = 5 /\ Len(h) = 1 /\ Len(t) = 6
  OBVIOUS
<1>3. x[1] = q /\ x[2] = a /\ x[3] = q /\ y[1] = b /\ y[2] = q
      /\ z[1] = q /\ z[2] = a /\ z[3] = q /\ z[4] = b /\ z[5] = q
      /\ h[1] = o /\ t[1] = o /\ t[2] = q /\ t[3] = a /\ t[4] = q /\ t[5] = b /\ t[6] = q
  OBVIOUS
<1>4. <<b>> \o <<q>> = y
  BY OneOne
<1> HIDE DEF C, x, y, z, h, t
<1>5. Len(z) = Len(x) + Len(y) /\ Len(t) = Len(h) + Len(z)
  BY <1>2
<1>6. (\A i \in 1..Len(x) : z[i] = x[i]) /\ \A i \in 1..Len(y) : z[Len(x) + i] = y[i]
  BY <1>2, <1>3
<1>7. x \o y = z
  BY <1>1, <1>5, <1>6, Together
<1>8. (\A i \in 1..Len(h) : t[i] = h[i]) /\ \A i \in 1..Len(z) : t[Len(h) + i] = z[i]
  BY <1>2, <1>3
<1>9. h \o z = t
  BY <1>1, <1>5, <1>8, Together
<1>10. h \o (x \o (<<b>> \o <<q>>)) = t
  BY <1>4, <1>7, <1>9
<1>11. QED BY <1>10 DEF h, t, x

(* The middle.                                                             *)
LEMMA MiddleIs ==
  ASSUME NEW q, NEW a, NEW b, NEW o
  PROVE  <<q>> \o (<<o>> \o (<<q, a, q>> \o (<<b>> \o <<q>>))) = <<q, o, q, a, q, b, q>>
<1> DEFINE C == {q, a, b, o}
           z == <<o, q, a, q, b, q>>
           h == <<q>>
           t == <<q, o, q, a, q, b, q>>
<1>1. z \in Seq(C) /\ h \in Seq(C) /\ t \in Seq(C) /\ Len(z) = 6 /\ Len(h) = 1 /\ Len(t) = 7
  OBVIOUS
<1>2. z[1] = o /\ z[2] = q /\ z[3] = a /\ z[4] = q /\ z[5] = b /\ z[6] = q
      /\ h[1] = q /\ t[1] = q /\ t[2] = o /\ t[3] = q /\ t[4] = a /\ t[5] = q /\ t[6] = b /\ t[7] = q
  OBVIOUS
<1> HIDE DEF C, z, h, t
<1>3. (\A i \in 1..Len(h) : t[i] = h[i]) /\ \A i \in 1..Len(z) : t[Len(h) + i] = z[i]
  BY <1>1, <1>2
<1>4. Len(t) = Len(h) + Len(z)
  BY <1>1
<1>5. h \o z = t
  BY <1>1, <1>3, <1>4, Together
<1>6. <<o>> \o (<<q, a, q>> \o (<<b>> \o <<q>>)) = z
  BY HeadIs DEF z
<1>7. QED BY <1>5, <1>6 DEF h, t

(* Two sequences flattened.                                                *)
LEMMA FlattenSeqPair ==
  ASSUME NEW C, NEW s \in Seq(C), NEW t \in Seq(C) PROVE FlattenSeq(<<s, t>>) = s \o t
<1> DEFINE S == Seq(C)
<1>1. <<>> \in Seq(S) /\ <<s>> \in Seq(S) /\ <<s, t>> \in Seq(S)
  OBVIOUS
<1> HIDE DEF S
<1>2. s \in S /\ t \in S
  BY DEF S
<1>3. Append(<<>>, s) = <<s>>
  OBVIOUS
<1>4. Append(<<s>>, t) = <<s, t>>
  BY <1>1, <1>2, OneOne, AppendIsConcat
<1>5. FlattenSeq(<<s>>) = Joined(FlattenSeq(<<>>), s)
  BY <1>1, <1>3, FlattenSeqAppend DEF S
<1>6. FlattenSeq(<<s, t>>) = Joined(FlattenSeq(<<s>>), t)
  BY <1>1, <1>4, FlattenSeqAppend DEF S
<1>7. Joined(<<>>, s) = s
  BY ConcatEmptySeq DEF Joined
<1>8. QED BY <1>5, <1>6, <1>7, FlattenSeqEmpty DEF Joined

(* A word is written as it is.                                             *)
LEMMA WordIs ==
  ASSUME NEW w, w \notin {Quote, Backslash} PROVE WriteString(<<w>>) = <<Quote, w, Quote>>
<1>1. Escape(<<w>>) = <<w>>
  BY EscapeSingle DEF Escaped
<1>2. <<Quote>> \o <<w>> = <<Quote, w>> /\ <<Quote, w>> \o <<Quote>> = <<Quote, w, Quote>>
  BY OneOne, TwoOne
<1>3. QED BY <1>1, <1>2 DEF WriteString

(* Concatenations regrouped: the operator is hidden from the provers,       *)
(* which do not know when to stop rewriting with it.                        *)
LEMMA JoinedAssociative ==
  ASSUME NEW T, NEW S, T = Seq(S), NEW s \in T, NEW t \in T, NEW u \in T
  PROVE  Joined(Joined(s, t), u) = Joined(s, Joined(t, u)) /\ Joined(s, t) \in T
<1>1. s \in Seq(S) /\ t \in Seq(S) /\ u \in Seq(S)
  OBVIOUS
<1>2. (s \o t) \o u = s \o (t \o u)
  BY <1>1, ConcatAssociative
<1>3. s \o t \in Seq(S)
  BY <1>1, ConcatProperties
<1>4. QED BY <1>2, <1>3 DEF Joined

(* Five joined from the left are five joined from the right.               *)
LEMMA Regrouped ==
  ASSUME NEW S, NEW p \in Seq(S), NEW c \in Seq(S), NEW q \in Seq(S), NEW v \in Seq(S)
  PROVE  Joined(p, Joined(c, Joined(Joined(q, v), q)))
           = Joined(Joined(p, Joined(c, q)), Joined(v, q))
<1> DEFINE T == Seq(S)
<1>1. p \in T /\ c \in T /\ q \in T /\ v \in T /\ T = Seq(S)
  OBVIOUS
<1> HIDE DEF T
<1>2. Joined(v, q) \in T /\ Joined(c, q) \in T
  BY <1>1, JoinedAssociative
<1>3. Joined(Joined(q, v), q) = Joined(q, Joined(v, q))
  BY <1>1, JoinedAssociative
<1>4. Joined(c, Joined(q, Joined(v, q))) = Joined(Joined(c, q), Joined(v, q))
  BY <1>1, <1>2, JoinedAssociative
<1>5. Joined(p, Joined(Joined(c, q), Joined(v, q))) = Joined(Joined(p, Joined(c, q)), Joined(v, q))
  BY <1>1, <1>2, JoinedAssociative
<1>6. QED BY <1>3, <1>4, <1>5

(* What Strung says, as one predicate.                                     *)
StringsAlike(o, h, e, q, m, n, c) ==
  Joined(Joined(o, Joined(Joined(h, Joined(e, q)), Joined(m, Joined(n, q)))), c)
    = Joined(Joined(Joined(Joined(Joined(o, h), e), Joined(q, m)), n), Joined(q, c))

(* A quoted string between two parts, regrouped.                           *)
LEMMA Strung ==
  ASSUME NEW S, NEW o \in Seq(S), NEW h \in Seq(S), NEW e \in Seq(S), NEW q \in Seq(S),
         NEW m \in Seq(S), NEW n \in Seq(S), NEW c \in Seq(S)
  PROVE  StringsAlike(o, h, e, q, m, n, c)
<1> DEFINE T == Seq(S)
           eq == Joined(e, q)
           nq == Joined(n, q)
           qm == Joined(q, m)
           qc == Joined(q, c)
           oh == Joined(o, h)
           ohe == Joined(oh, e)
           qmn == Joined(qm, n)
           rest == Joined(qm, nq)
<1>1. /\ o \in T /\ h \in T /\ e \in T /\ q \in T /\ m \in T /\ n \in T /\ c \in T /\ T = Seq(S)
  OBVIOUS
<1> HIDE DEF T
<1>closed. \A x, y \in T : Joined(x, y) \in T
  BY <1>1, JoinedAssociative
<1>assoc. \A x, y, z \in T : Joined(Joined(x, y), z) = Joined(x, Joined(y, z))
  BY <1>1, JoinedAssociative
<1>2. eq \in T /\ nq \in T /\ qm \in T /\ qc \in T /\ oh \in T
  BY <1>1, <1>closed
<1>3. Joined(m, nq) \in T /\ qmn \in T /\ rest \in T /\ ohe \in T /\ Joined(n, qc) \in T
  <2> HIDE DEF eq, nq, qm, qc, oh
  <2>1. QED BY <1>1, <1>2, <1>closed
<1>4. Joined(Joined(h, eq), Joined(m, nq)) = Joined(h, Joined(eq, Joined(m, nq)))
  <2> HIDE DEF eq, nq
  <2>1. QED BY <1>1, <1>2, <1>3, <1>assoc
<1>5. Joined(eq, Joined(m, nq)) = Joined(e, Joined(q, Joined(m, nq)))
  <2> HIDE DEF nq
  <2>1. QED BY <1>1, <1>2, <1>3, <1>assoc
<1>6. Joined(q, Joined(m, nq)) = rest
  <2> HIDE DEF nq
  <2>1. QED BY <1>1, <1>2, <1>3, <1>assoc
<1>7. Joined(rest, c) = Joined(qm, Joined(nq, c))
  <2> HIDE DEF nq, qm
  <2>1. QED BY <1>1, <1>2, <1>3, <1>assoc
<1>8. Joined(nq, c) = Joined(n, qc)
  BY <1>1, <1>assoc
<1>9. Joined(qm, Joined(n, qc)) = Joined(qmn, qc)
  <2> HIDE DEF qm, qc
  <2>1. QED BY <1>1, <1>2, <1>3, <1>assoc
<1> HIDE DEF rest, qmn, qm, qc, nq, eq
<1>10. Joined(e, rest) \in T
  BY <1>1, <1>3, <1>closed
<1>11. Joined(o, Joined(h, Joined(e, rest))) = Joined(oh, Joined(e, rest))
  BY <1>1, <1>10, <1>assoc
<1>12. Joined(oh, Joined(e, rest)) = Joined(ohe, rest)
  <2> HIDE DEF oh
  <2>1. QED BY <1>1, <1>2, <1>3, <1>assoc
<1>13. Joined(Joined(ohe, rest), c) = Joined(ohe, Joined(rest, c))
  <2> HIDE DEF ohe
  <2>1. QED BY <1>1, <1>3, <1>assoc
<1>14. Joined(ohe, Joined(qmn, qc)) = Joined(Joined(ohe, qmn), qc)
  <2> HIDE DEF ohe
  <2>1. QED BY <1>1, <1>2, <1>3, <1>assoc
<1>15. Joined(ohe, qmn) = Joined(Joined(ohe, qm), n)
  <2> HIDE DEF ohe
  <2>1. QED BY <1>1, <1>2, <1>3, <1>assoc DEF qmn
<1>16. Joined(Joined(o, Joined(Joined(h, eq), Joined(m, nq))), c)
         = Joined(Joined(Joined(ohe, qm), n), qc)
  BY <1>4, <1>5, <1>6, <1>7, <1>8, <1>9, <1>11, <1>12, <1>13, <1>14, <1>15
<1>17. QED BY <1>16 DEF StringsAlike, ohe, oh, qm, qc, eq, nq

(* Nothing is added by the empty sequence.                                 *)
LEMMA JoinedEmpty ==
  ASSUME NEW S, NEW s \in Seq(S) PROVE Joined(<<>>, s) = s /\ Joined(s, <<>>) = s
  BY ConcatEmptySeq DEF Joined

(* What Assembled says, as one predicate.                                  *)
AssembledAlike(o, p, r, k, q, a, c, e, n) ==
  LET first  == Joined(<<>>, Joined(p, Joined(k, Joined(<<>>, Joined(Joined(q, e), q)))))
      second == Joined(Joined(a, <<>>),
                       Joined(r, Joined(k, Joined(<<>>, Joined(Joined(q, n), q)))))
  IN  Joined(Joined(o, FlattenSeq(<<first, second>>)), c)
        = Joined(Joined(Joined(Joined(Joined(o, Joined(p, Joined(k, q))), e),
                               Joined(q, Joined(a, Joined(r, Joined(k, q))))), n),
                 Joined(q, c))

(* The parts of an announcement, regrouped.                                *)
LEMMA Assembled ==
  ASSUME NEW S, NEW o \in Seq(S), NEW p \in Seq(S), NEW r \in Seq(S), NEW k \in Seq(S),
         NEW q \in Seq(S), NEW a \in Seq(S), NEW c \in Seq(S), NEW e \in Seq(S), NEW n \in Seq(S)
  PROVE  AssembledAlike(o, p, r, k, q, a, c, e, n)
<1> DEFINE T == Seq(S)
           h == Joined(p, Joined(k, q))
           i == Joined(r, Joined(k, q))
           m == Joined(a, i)
           eq == Joined(e, q)
           nq == Joined(n, q)
           qeq == Joined(Joined(q, e), q)
           qnq == Joined(Joined(q, n), q)
<1>1. o \in T /\ p \in T /\ r \in T /\ k \in T /\ q \in T /\ a \in T /\ c \in T /\ e \in T /\ n \in T
      /\ T = Seq(S)
  OBVIOUS
<1> HIDE DEF T
<1>2. Joined(k, q) \in T /\ Joined(q, e) \in T /\ Joined(q, n) \in T /\ eq \in T /\ nq \in T
  BY <1>1, JoinedAssociative
<1>3. h \in T /\ i \in T /\ qeq \in T /\ qnq \in T
  BY <1>1, <1>2, JoinedAssociative
<1>4. m \in T
  <2> HIDE DEF i
  <2>1. QED BY <1>1, <1>3, JoinedAssociative
<1>5. Joined(p, Joined(k, qeq)) = Joined(h, eq)
  BY <1>1, Regrouped
<1>6. Joined(r, Joined(k, qnq)) = Joined(i, nq)
  BY <1>1, Regrouped
<1>7. Joined(<<>>, qeq) = qeq /\ Joined(<<>>, qnq) = qnq /\ Joined(a, <<>>) = a
  <2> HIDE DEF qeq, qnq
  <2>1. QED BY <1>1, <1>3, JoinedEmpty
<1>8. Joined(a, Joined(i, nq)) = Joined(m, nq)
  <2> HIDE DEF i, nq
  <2>1. QED BY <1>1, <1>2, <1>3, JoinedAssociative, SMTT(30) DEF m
<1> DEFINE first  == Joined(<<>>, Joined(p, Joined(k, Joined(<<>>, qeq))))
           second == Joined(Joined(a, <<>>), Joined(r, Joined(k, Joined(<<>>, qnq))))
<1> HIDE DEF qeq, qnq, h, i, m, eq, nq
<1>9. Joined(h, eq) \in T /\ Joined(m, nq) \in T
  BY <1>2, <1>3, <1>4, <1>1, JoinedAssociative
<1>10. Joined(<<>>, Joined(h, eq)) = Joined(h, eq)
  BY <1>1, <1>9, JoinedEmpty
<1>11. first = Joined(h, eq) /\ second = Joined(m, nq)
  BY <1>5, <1>6, <1>7, <1>8, <1>10
<1> HIDE DEF first, second
<1>12. FlattenSeq(<<first, second>>) = Joined(Joined(h, eq), Joined(m, nq))
  BY <1>1, <1>9, <1>11, FlattenSeqPair DEF Joined
<1>13. Joined(Joined(o, Joined(Joined(h, eq), Joined(m, nq))), c)
         = Joined(Joined(Joined(Joined(Joined(o, h), e), Joined(q, m)), n), Joined(q, c))
  <2>1. o \in Seq(S) /\ h \in Seq(S) /\ e \in Seq(S) /\ q \in Seq(S) /\ m \in Seq(S)
        /\ n \in Seq(S) /\ c \in Seq(S)
    BY <1>1, <1>3, <1>4
  <2>2. StringsAlike(o, h, e, q, m, n, c)
    BY <2>1, Strung
  <2>3. QED BY <2>2 DEF StringsAlike, eq, nq
<1>14. QED BY <1>12, <1>13 DEF AssembledAlike, first, second, qeq, qnq, h, m, i

(* A sequence over a set is one over a larger set.                         *)
LEMMA SeqWider == ASSUME NEW A, NEW B, A \subseteq B, NEW s \in Seq(A) PROVE s \in Seq(B)
  OBVIOUS

(* An announcement as a JSON library writes it.                            *)
Event(event, name) ==
  <<Open, Quote, "event", Quote, ":", Quote>> \o event
    \o <<Quote, Comma, Quote, "name", Quote, ":", Quote>> \o name \o <<Quote, Close>>

(* It is what the gateway writes, with the name escaped.                   *)
LEMMA EventIs ==
  ASSUME NEW C, NEW event \in Seq(C), NEW name \in Seq(C)
  PROVE  WriteObject(<<"event", "name">>, [event |-> event, name |-> name], Empty)
           = Event(Escape(event), Escape(name))
<1> DEFINE S == Wider(C) \cup {Quote, Open, Close, ":", Comma, "event", "name"}
           keys == <<"event", "name">>
           members == [event |-> event, name |-> name]
           E == Escape(event)
           N == Escape(name)
           q == <<Quote>>
           one == <<Quote, "event", Quote>>
           two == <<Quote, "name", Quote>>
           co == <<":">>
           cm == <<Comma>>
<1>1. DOMAIN keys = 1..2 /\ keys[1] = "event" /\ keys[2] = "name" /\ DOMAIN members = {"event", "name"}
      /\ members["event"] = event /\ members["name"] = name
  OBVIOUS
<1>2. E \in Seq(S) /\ N \in Seq(S)
  <2>1. E \in Seq(Wider(C)) /\ N \in Seq(Wider(C)) /\ Wider(C) \subseteq S
    BY EscapeType
  <2> HIDE DEF S, E, N
  <2>2. QED BY <2>1, SeqWider
<1>3. q \in Seq(S) /\ one \in Seq(S) /\ two \in Seq(S) /\ co \in Seq(S) /\ cm \in Seq(S)
      /\ <<Open>> \in Seq(S) /\ <<Close>> \in Seq(S)
  OBVIOUS
<1>4. WriteString(<<"event">>) = one /\ WriteString(<<"name">>) = two
  <2>1. "event" \notin {Quote, Backslash} /\ "name" \notin {Quote, Backslash}
    BY DEF Quote, Backslash
  <2>2. QED BY <2>1, WordIs
<1>5. WriteString(event) = (q \o E) \o q /\ WriteString(name) = (q \o N) \o q
  BY DEF WriteString
<1> DEFINE parts == [i \in DOMAIN keys |->
                       IF keys[i] \in DOMAIN members THEN Member(keys, members, Empty, i) ELSE <<>>]
           first == one \o (co \o ((q \o E) \o q))
           second == cm \o (two \o (co \o ((q \o N) \o q)))
<1>6. Member(keys, members, Empty, 1) = <<>> \o (one \o (co \o (<<>> \o ((q \o E) \o q))))
  <2> HIDE DEF members, E, N, q, one, two, co
  <2>1. ~\E j \in 1..(1 - 1) : keys[j] \in DOMAIN members
    OBVIOUS
  <2>2. keys[1] = "event"
    OBVIOUS
  <2>3. QED BY <1>1, <1>4, <1>5, <2>1, <2>2 DEF Member, Empty, co
<1>7. Member(keys, members, Empty, 2) = (cm \o <<>>) \o (two \o (co \o (<<>> \o ((q \o N) \o q))))
  <2> HIDE DEF members, E, N, q, one, two, co
  <2>1. \E j \in 1..(2 - 1) : keys[j] \in DOMAIN members
    BY <1>1
  <2>2. keys[2] = "name"
    OBVIOUS
  <2>3. QED BY <1>1, <1>4, <1>5, <2>1, <2>2 DEF Member, Empty, co
<1>8. parts = <<Member(keys, members, Empty, 1), Member(keys, members, Empty, 2)>>
  <2>1. keys[1] \in DOMAIN members /\ keys[2] \in DOMAIN members
    BY <1>1
  <2>2. DOMAIN keys = 1..2
    BY <1>1
  <2> HIDE DEF keys, members
  <2>3. QED BY <2>1, <2>2
<1>9. WriteObject(keys, members, Empty) = (<<Open>> \o FlattenSeq(parts)) \o <<Close>>
  BY DEF WriteObject
<1>10. <<Open>> \o (one \o (co \o q)) = <<Open, Quote, "event", Quote, ":", Quote>>
  BY HeadIs
<1>11. q \o (cm \o (two \o (co \o q))) = <<Quote, Comma, Quote, "name", Quote, ":", Quote>>
  BY MiddleIs
<1>12. q \o <<Close>> = <<Quote, Close>>
  BY OneOne
<1> HIDE DEF S, keys, members, E, N, q, one, two, co, cm, parts
<1> DEFINE o == <<Open>>
           c == <<Close>>
<1> HIDE DEF o, c
<1>13. o \in Seq(S) /\ c \in Seq(S)
  BY <1>3 DEF o, c
<1>14. (o \o FlattenSeq(parts)) \o c
         = ((((o \o (one \o (co \o q))) \o E) \o (q \o (cm \o (two \o (co \o q))))) \o N) \o (q \o c)
  <2>1. parts = <<Joined(<<>>, Joined(one, Joined(co, Joined(<<>>, Joined(Joined(q, E), q))))),
                  Joined(Joined(cm, <<>>), Joined(two, Joined(co, Joined(<<>>, Joined(Joined(q, N), q)))))>>
    BY <1>6, <1>7, <1>8 DEF Joined
  <2>2. Joined(Joined(o, FlattenSeq(parts)), c)
          = Joined(Joined(Joined(Joined(Joined(o, Joined(one, Joined(co, q))), E),
                                 Joined(q, Joined(cm, Joined(two, Joined(co, q))))), N),
                   Joined(q, c))
    <3>1. AssembledAlike(o, one, two, co, q, cm, c, E, N)
      BY <1>2, <1>3, <1>13, Assembled
    <3>2. QED BY <2>1, <3>1 DEF AssembledAlike
  <2>3. QED BY <2>2 DEF Joined
<1>15. WriteObject(keys, members, Empty) = (o \o FlattenSeq(parts)) \o c
  BY <1>9 DEF o, c
<1>16. WriteObject(keys, members, Empty) = Event(E, N)
  BY <1>10, <1>11, <1>12, <1>14, <1>15 DEF Event, o, c
<1>17. QED BY <1>16 DEF keys, members, E, N

-----------------------------------------------------------------------------
(* Where the parts of a concatenation stand.                               *)

(* Both parts of a concatenation stand where they should.                  *)
LEMMA AtConcat ==
  ASSUME NEW S, NEW x \in Seq(S), NEW y \in Seq(S)
  PROVE  At(x \o y, 0, x) /\ At(x \o y, Len(x), y) /\ Len(x \o y) = Len(x) + Len(y)
<1>1. Len(x) \in Nat /\ Len(y) \in Nat /\ Len(x \o y) = Len(x) + Len(y)
  BY LenProperties, ConcatProperties
<1>2. \A j \in 1..(Len(x) + Len(y)) : (x \o y)[j] = IF j <= Len(x) THEN x[j] ELSE y[j - Len(x)]
  BY ConcatProperties
<1>3. \A j \in 1..Len(x) : (x \o y)[0 + j] = x[j]
  BY <1>1, <1>2
<1>4. ASSUME NEW j \in 1..Len(y) PROVE (x \o y)[Len(x) + j] = y[j]
  <2>1. Len(x) + j \in 1..(Len(x) + Len(y)) /\ ~(Len(x) + j <= Len(x)) /\ (Len(x) + j) - Len(x) = j
    BY <1>1
  <2>2. QED BY <1>2, <2>1
<1>5. QED BY <1>1, <1>3, <1>4 DEF At

(* What stands within a part stands within the whole.                      *)
LEMMA AtWithin ==
  ASSUME NEW t, NEW x, NEW y, NEW o \in Nat, NEW u \in Nat, Len(x) \in Nat, Len(y) \in Nat,
         Len(t) \in Nat, At(t, o, x), At(x, u, y)
  PROVE  At(t, o + u, y)
<1>1. o + Len(x) <= Len(t) /\ u + Len(y) <= Len(x)
  BY DEF At
<1>2. ASSUME NEW j \in 1..Len(y) PROVE t[(o + u) + j] = y[j]
  <2>1. u + j \in 1..Len(x) /\ o + (u + j) = (o + u) + j
    BY <1>1
  <2>2. t[o + (u + j)] = x[u + j] /\ x[u + j] = y[j]
    BY <2>1 DEF At
  <2>3. QED BY <2>1, <2>2
<1>3. QED BY <1>1, <1>2 DEF At

(* x stands after o characters, and y right after it.                      *)
LEMMA AtParts ==
  ASSUME NEW S, NEW t \in Seq(S), NEW x \in Seq(S), NEW y \in Seq(S), NEW o \in Nat, At(t, o, x \o y)
  PROVE  At(t, o, x) /\ At(t, o + Len(x), y)
<1>1. x \o y \in Seq(S) /\ At(x \o y, 0, x) /\ At(x \o y, Len(x), y)
  BY AtConcat, ConcatProperties
<1>2. Len(x) \in Nat /\ Len(y) \in Nat /\ Len(x \o y) \in Nat /\ Len(t) \in Nat
  BY <1>1, LenProperties
<1>3. At(t, o + 0, x) /\ At(t, o + Len(x), y)
  BY <1>1, <1>2, AtWithin
<1>4. QED BY <1>2, <1>3

(* t is s and then a member: a comma and a gap or nothing, in all c        *)
(* characters, the quoted key, a colon, a gap of g characters, and the     *)
(* quoted value, of which e is what stands between the quotes.             *)
Laid(s, t, c, w, g, e) ==
  LET p == Len(s) + c + 1
      b == p + 4 + g
  IN  /\ Len(t) = b + Len(e) + 1
      /\ \A j \in 1..Len(s) : t[j] = s[j]
      /\ \A j \in (Len(s) + 1)..(p - 1) : t[j] \in {Comma, Blank}
      /\ t[p] = Quote /\ t[p + 1] = w /\ t[p + 2] = Quote /\ t[p + 3] = ":"
      /\ \A j \in (p + 4)..(b - 1) : t[j] = Blank
      /\ t[b] = Quote /\ t[b + Len(e) + 1] = Quote
      /\ At(t, b, e)

(* A text and a member after it are laid out so.                           *)
LEMMA LaidOut ==
  ASSUME NEW S, Quote \in S, ":" \in S, Comma \in S, Blank \in S, NEW w \in S,
         NEW s \in Seq(S), NEW comma \in Seq({Comma, Blank}), NEW gap \in Seq({Blank}), NEW e \in Seq(S)
  PROVE  Laid(s, s \o (comma \o (<<Quote, w, Quote>> \o (<<":">> \o
                   (gap \o (<<Quote>> \o e \o <<Quote>>))))), Len(comma), w, Len(gap), e)
<1> DEFINE q == <<Quote>>
           k == <<Quote, w, Quote>>
           d == <<":">>
           v == (q \o e) \o q
           gv == gap \o v
           dv == d \o gv
           kv == k \o dv
           m == comma \o kv
           t == s \o m
           a == Len(s)
           c == Len(comma)
           g == Len(gap)
           n == Len(e)
<1>1. q \in Seq(S) /\ k \in Seq(S) /\ d \in Seq(S)
  OBVIOUS
<1>2. comma \in Seq(S) /\ gap \in Seq(S)
  <2>1. {Comma, Blank} \subseteq S /\ {Blank} \subseteq S
    OBVIOUS
  <2>2. QED BY <2>1, SeqWider
<1>3. Len(q) = 1 /\ q[1] = Quote /\ Len(d) = 1 /\ d[1] = ":"
      /\ Len(k) = 3 /\ k[1] = Quote /\ k[2] = w /\ k[3] = Quote
  OBVIOUS
<1>4. a \in Nat /\ c \in Nat /\ g \in Nat /\ n \in Nat
  BY LenProperties
<1>5. (\A j \in 1..c : comma[j] \in {Comma, Blank}) /\ \A j \in 1..g : gap[j] = Blank
  BY LenProperties, ElementOfSeq
<1> HIDE DEF q, k, d, a, c, g, n
<1>6. q \o e \in Seq(S) /\ Len(q \o e) = 1 + n
  <2>1. q \o e \in Seq(S)
    BY <1>1, ConcatProperties
  <2>2. Len(q \o e) = Len(q) + Len(e)
    BY <1>1, AtConcat
  <2>3. QED BY <1>3, <2>1, <2>2 DEF n
<1>7. v \in Seq(S) /\ Len(v) = 2 + n
  <2>1. v \in Seq(S)
    BY <1>1, <1>6, ConcatProperties
  <2>2. Len(v) = Len(q \o e) + Len(q)
    BY <1>1, <1>6, AtConcat
  <2>3. QED BY <1>3, <1>4, <1>6, <2>1, <2>2
<1> HIDE DEF v
<1>8. gv \in Seq(S) /\ Len(gv) = g + (2 + n)
  <2>1. gv \in Seq(S)
    BY <1>2, <1>7, ConcatProperties
  <2>2. Len(gv) = Len(gap) + Len(v)
    BY <1>2, <1>7, AtConcat
  <2>3. QED BY <1>7, <2>1, <2>2 DEF g
<1> HIDE DEF gv
<1>9. dv \in Seq(S) /\ Len(dv) = 1 + (g + (2 + n))
  <2>1. dv \in Seq(S)
    BY <1>1, <1>8, ConcatProperties
  <2>2. Len(dv) = Len(d) + Len(gv)
    BY <1>1, <1>8, AtConcat
  <2>3. QED BY <1>3, <1>8, <2>1, <2>2
<1> HIDE DEF dv
<1>10. kv \in Seq(S) /\ Len(kv) = 3 + (1 + (g + (2 + n)))
  <2>1. kv \in Seq(S)
    BY <1>1, <1>9, ConcatProperties
  <2>2. Len(kv) = Len(k) + Len(dv)
    BY <1>1, <1>9, AtConcat
  <2>3. QED BY <1>3, <1>9, <2>1, <2>2
<1> HIDE DEF kv
<1>11. m \in Seq(S) /\ Len(m) = c + (3 + (1 + (g + (2 + n))))
  <2>1. m \in Seq(S)
    BY <1>2, <1>10, ConcatProperties
  <2>2. Len(m) = Len(comma) + Len(kv)
    BY <1>2, <1>10, AtConcat
  <2>3. QED BY <1>10, <2>1, <2>2 DEF c
<1> HIDE DEF m
<1>12. t \in Seq(S) /\ Len(t) = a + (c + (3 + (1 + (g + (2 + n)))))
       /\ At(t, 0, s) /\ At(t, a, m)
  <2>1. t \in Seq(S)
    BY <1>11, ConcatProperties
  <2>2. Len(t) = Len(s) + Len(m) /\ At(t, 0, s) /\ At(t, Len(s), m)
    BY <1>11, AtConcat
  <2> HIDE DEF t
  <2>3. QED BY <1>11, <2>1, <2>2 DEF a
<1> HIDE DEF t
<1>13. At(t, a, comma) /\ At(t, a + c, kv)
  BY <1>2, <1>4, <1>10, <1>12, AtParts DEF m, c
<1>14. At(t, a + c, k) /\ At(t, (a + c) + 3, dv)
  <2>1. a + c \in Nat
    BY <1>4
  <2>2. QED BY <1>1, <1>3, <1>9, <1>12, <1>13, <2>1, AtParts DEF kv
<1>15. At(t, (a + c) + 3, d) /\ At(t, ((a + c) + 3) + 1, gv)
  <2>1. (a + c) + 3 \in Nat
    BY <1>4
  <2>2. QED BY <1>1, <1>3, <1>8, <1>12, <1>14, <2>1, AtParts DEF dv
<1>16. At(t, ((a + c) + 3) + 1, gap) /\ At(t, (((a + c) + 3) + 1) + g, v)
  <2>1. ((a + c) + 3) + 1 \in Nat
    BY <1>4
  <2>2. QED BY <1>2, <1>7, <1>12, <1>15, <2>1, AtParts DEF gv, g
<1> DEFINE p == a + c + 1
           b == p + 4 + g
<1>17. At(t, b - 1, q \o e) /\ At(t, b + n, q)
  <2>1. (((a + c) + 3) + 1) + g \in Nat /\ (((a + c) + 3) + 1) + g = b - 1
    BY <1>4
  <2> HIDE DEF b
  <2>2. At(t, b - 1, v)
    BY <1>16, <2>1
  <2>3. At(t, b - 1, q \o e) /\ At(t, (b - 1) + (1 + n), q)
    BY <1>1, <1>6, <1>12, <2>1, <2>2, AtParts DEF v
  <2>4. (b - 1) + (1 + n) = b + n
    BY <1>4 DEF b
  <2>5. QED BY <2>3, <2>4
<1>18. At(t, b - 1, q) /\ At(t, b, e)
  <2>1. b - 1 \in Nat /\ (b - 1) + 1 = b
    BY <1>4
  <2> HIDE DEF b
  <2>2. At(t, b - 1, q) /\ At(t, (b - 1) + 1, e)
    BY <1>1, <1>3, <1>12, <1>17, <2>1, AtParts
  <2>3. QED BY <2>1, <2>2
<1>19. t[p] = Quote /\ t[p + 1] = w /\ t[p + 2] = Quote
  <2>1. t[(a + c) + 1] = k[1] /\ t[(a + c) + 2] = k[2] /\ t[(a + c) + 3] = k[3]
    BY <1>3, <1>14 DEF At
  <2>2. (a + c) + 1 = p /\ (a + c) + 2 = p + 1 /\ (a + c) + 3 = p + 2
    BY <1>4
  <2>3. QED BY <1>3, <2>1, <2>2
<1>20. t[p + 3] = ":" /\ t[b] = Quote /\ t[b + n + 1] = Quote
  <2>1. t[((a + c) + 3) + 1] = d[1] /\ t[(b - 1) + 1] = q[1] /\ t[(b + n) + 1] = q[1]
    BY <1>3, <1>15, <1>17, <1>18 DEF At
  <2>2. ((a + c) + 3) + 1 = p + 3 /\ (b - 1) + 1 = b
    BY <1>4
  <2>3. QED BY <1>3, <2>1, <2>2
<1>21. ASSUME NEW j \in (a + 1)..(p - 1) PROVE t[j] \in {Comma, Blank}
  <2>1. j - a \in 1..c /\ a + (j - a) = j
    BY <1>4
  <2>2. t[a + (j - a)] = comma[j - a]
    BY <1>13, <2>1 DEF At, c
  <2>3. QED BY <1>5, <2>1, <2>2
<1>22. ASSUME NEW j \in (p + 4)..(b - 1) PROVE t[j] = Blank
  <2> DEFINE o == ((a + c) + 3) + 1
  <2>1. j - o \in 1..g /\ o + (j - o) = j
    BY <1>4
  <2>2. t[o + (j - o)] = gap[j - o]
    <3> HIDE DEF o
    <3>1. At(t, o, gap)
      BY <1>16 DEF o
    <3>2. QED BY <2>1, <3>1 DEF At, g
  <2>3. QED BY <1>5, <2>1, <2>2
<1>23. \A j \in 1..a : t[j] = s[j]
  <2>1. \A j \in 1..a : t[0 + j] = s[j]
    BY <1>12 DEF At, a
  <2>2. QED BY <1>4, <2>1
<1>24. Len(t) = b + n + 1
  BY <1>4, <1>12
<1>25. Laid(s, t, c, w, g, e)
  BY <1>18, <1>19, <1>20, <1>21, <1>22, <1>23, <1>24 DEF Laid, a, n
<1>26. QED BY <1>25 DEF t, m, kv, dv, gv, v, d, q, k, c, g

-----------------------------------------------------------------------------
(* What the scan finds.                                                    *)

(* A set of numbers that is not empty has a least member.                  *)
LEMMA LeastExists ==
  ASSUME NEW S \in SUBSET Nat, S # {}
  PROVE  \E m \in S : \A x \in S : m <= x
<1>1. SUFFICES ASSUME ~\E m \in S : \A x \in S : m <= x PROVE FALSE
  OBVIOUS
<1> DEFINE N == {n \in Nat : \A x \in S : n <= x}
<1>2. N \in SUBSET Nat /\ 0 \in N
  OBVIOUS
<1>3. ASSUME NEW n \in N PROVE n + 1 \in N
  <2>1. n \notin S
    BY <1>1
  <2>2. QED BY <2>1
<1>4. N = Nat
  <2> HIDE DEF N
  <2>1. QED BY <1>2, <1>3, NatSet
<1>5. PICK x \in S : TRUE
  OBVIOUS
<1>6. x + 1 \in N /\ x \in Nat
  <2> HIDE DEF N
  <2>1. QED BY <1>4, <1>5
<1>7. x + 1 <= x
  BY <1>6
<1>8. QED BY <1>6, <1>7

(* The quoted key stands at f.                                             *)
Matched(t, k, f) == f \in 1..(Len(t) - 2) /\ t[f] = Quote /\ t[f + 1] = k /\ t[f + 2] = Quote

(* A literal, under a name of its own.                                     *)
IsTriple(s, a, b, c) == s = <<a, b, c>>

(* Three characters in a row.                                              *)
LEMMA SubSeqThree ==
  ASSUME NEW C, NEW t \in Seq(C), NEW i \in Nat \ {0}, i + 2 <= Len(t), NEW a, NEW b, NEW c
  PROVE  IsTriple(SubSeq(t, i, i + 2), a, b, c) <=> t[i] = a /\ t[i + 1] = b /\ t[i + 2] = c
<1> DEFINE s == SubSeq(t, i, i + 2)
           u == <<a, b, c>>
           D == C \cup {a, b, c}
<1>1. Len(t) \in Nat /\ \A j \in 1..Len(t) : t[j] \in C
  BY LenProperties, ElementOfSeq
<1>2. Len(s) = 3 /\ s[1] = t[i] /\ s[2] = t[i + 1] /\ s[3] = t[i + 2]
  BY <1>1
<1>3. Len(u) = 3 /\ u[1] = a /\ u[2] = b /\ u[3] = c
  OBVIOUS
<1>4. s \in Seq(D) /\ u \in Seq(D)
  <2>1. s \in Seq(C) /\ C \subseteq D /\ u \in Seq(D)
    BY <1>1
  <2> HIDE DEF D, s, u
  <2>2. QED BY <2>1, SeqWider
<1> HIDE DEF s, u, D
<1>5. ASSUME s[1] = u[1], s[2] = u[2], s[3] = u[3] PROVE s = u
  <2>1. \A j \in 1..3 : s[j] = u[j]
    BY <1>5
  <2>2. QED BY <1>2, <1>3, <1>4, <2>1, SeqEqual
<1>6. QED BY <1>2, <1>3, <1>5 DEF s, u, IsTriple

(* One character.                                                          *)
LEMMA SubSeqOne ==
  ASSUME NEW C, NEW t \in Seq(C), NEW i \in Nat \ {0}, i <= Len(t), NEW a
  PROVE  SubSeq(t, i, i) = <<a>> <=> t[i] = a
<1> DEFINE s == SubSeq(t, i, i)
           u == <<a>>
           D == C \cup {a}
<1>1. Len(t) \in Nat /\ \A j \in 1..Len(t) : t[j] \in C
  BY LenProperties, ElementOfSeq
<1>2. Len(s) = 1 /\ s[1] = t[i]
  BY <1>1
<1>3. Len(u) = 1 /\ u[1] = a
  OBVIOUS
<1>4. s \in Seq(D) /\ u \in Seq(D)
  <2>1. s \in Seq(C) /\ C \subseteq D /\ u \in Seq(D)
    BY <1>1
  <2> HIDE DEF D, s, u
  <2>2. QED BY <2>1, SeqWider
<1> HIDE DEF s, u, D
<1>5. ASSUME s[1] = u[1] PROVE s = u
  <2>1. \A j \in 1..1 : s[j] = u[j]
    BY <1>5
  <2>2. QED BY <1>2, <1>3, <1>4, <2>1, SeqEqual
<1>6. QED BY <1>2, <1>3, <1>5 DEF s, u

(* The first place of the quoted key, or none.                             *)
LEMMA FindKey ==
  ASSUME NEW C, NEW t \in Seq(C), NEW k
  PROVE  \/ /\ Find(t, <<Quote, k, Quote>>, 1) = 0
            /\ \A f : ~Matched(t, k, f)
         \/ /\ Matched(t, k, Find(t, <<Quote, k, Quote>>, 1))
            /\ \A f : Matched(t, k, f) => Find(t, <<Quote, k, Quote>>, 1) <= f
<1> DEFINE u == <<Quote, k, Quote>>
           S == {i \in 1..(Len(t) - Len(u) + 1) : SubSeq(t, i, i + Len(u) - 1) = u}
<1>1. Len(t) \in Nat /\ Len(u) = 3
  BY LenProperties
<1>2. ASSUME NEW f PROVE f \in S <=> Matched(t, k, f)
  <2>1. f \in S <=> f \in 1..(Len(t) - 2) /\ SubSeq(t, f, f + 2) = u
    <3>1. Len(t) - Len(u) + 1 = Len(t) - 2
      BY <1>1
    <3>2. \A i \in 1..(Len(t) - 2) : i + Len(u) - 1 = i + 2
      BY <1>1
    <3> HIDE DEF u
    <3>3. QED BY <3>1, <3>2
  <2>2. ASSUME f \in 1..(Len(t) - 2)
        PROVE  SubSeq(t, f, f + 2) = u <=> t[f] = Quote /\ t[f + 1] = k /\ t[f + 2] = Quote
    <3>1. f \in Nat \ {0} /\ f + 2 <= Len(t)
      BY <1>1, <2>2
    <3>2. IsTriple(SubSeq(t, f, f + 2), Quote, k, Quote)
            <=> t[f] = Quote /\ t[f + 1] = k /\ t[f + 2] = Quote
      BY <3>1, SubSeqThree
    <3>3. QED BY <3>2 DEF IsTriple
  <2>3. QED BY <2>1, <2>2 DEF Matched
<1>3. Find(t, u, 1) = IF S = {} THEN 0 ELSE Min(S)
  BY DEF Find
<1>4. S \in SUBSET Nat
  <2>1. 1..(Len(t) - Len(u) + 1) \subseteq Nat
    BY <1>1
  <2>2. QED BY <2>1
<1> HIDE DEF S, u
<1>5. CASE S = {}
  BY <1>2, <1>3, <1>5 DEF u
<1>6. CASE S # {}
  <2>1. PICK m \in S : \A x \in S : m <= x
    BY <1>4, <1>6, LeastExists
  <2>2. Min(S) = m
    <3>1. S \in SUBSET Int
      BY <1>4
    <3>2. QED BY <2>1, <3>1, MinIs
  <2>3. QED BY <1>2, <1>3, <1>6, <2>1, <2>2 DEF u
<1>7. QED BY <1>5, <1>6

(* The first colon at or after "from".                                     *)
LEMMA FindColon ==
  ASSUME NEW C, NEW t \in Seq(C), NEW from \in Nat \ {0}, NEW c \in from..Len(t), t[c] = ":",
         \A j \in from..(c - 1) : t[j] # ":"
  PROVE  Find(t, <<":">>, from) = c
<1> DEFINE u == <<":">>
           S == {i \in from..(Len(t) - Len(u) + 1) : SubSeq(t, i, i + Len(u) - 1) = u}
<1>1. Len(t) \in Nat /\ Len(u) = 1
  BY LenProperties
<1>2. ASSUME NEW i PROVE i \in S <=> i \in from..Len(t) /\ t[i] = ":"
  <2>1. i \in S <=> i \in from..Len(t) /\ SubSeq(t, i, i) = u
    <3>1. Len(t) - Len(u) + 1 = Len(t)
      BY <1>1
    <3>2. \A j \in from..Len(t) : j + Len(u) - 1 = j
      BY <1>1
    <3> HIDE DEF u
    <3>3. QED BY <3>1, <3>2
  <2>2. ASSUME i \in from..Len(t) PROVE SubSeq(t, i, i) = u <=> t[i] = ":"
    <3>1. i \in Nat \ {0} /\ i <= Len(t)
      BY <1>1, <2>2
    <3>2. QED BY <3>1, SubSeqOne
  <2>3. QED BY <2>1, <2>2
<1>3. Find(t, u, from) = IF S = {} THEN 0 ELSE Min(S)
  BY DEF Find
<1> HIDE DEF S, u
<1>4. c \in S /\ S \in SUBSET Int
  BY <1>1, <1>2
<1>5. \A x \in S : c <= x
  BY <1>1, <1>2
<1>6. Min(S) = c
  BY <1>4, <1>5, MinIs
<1>7. QED BY <1>3, <1>4, <1>6 DEF u

(* There is no colon at or after "from".                                   *)
LEMMA FindNoColon ==
  ASSUME NEW C, NEW t \in Seq(C), NEW from \in Nat \ {0}, \A j \in from..Len(t) : t[j] # ":"
  PROVE  Find(t, <<":">>, from) = 0
<1> DEFINE u == <<":">>
           S == {i \in from..(Len(t) - Len(u) + 1) : SubSeq(t, i, i + Len(u) - 1) = u}
<1>1. Len(t) \in Nat /\ Len(u) = 1
  BY LenProperties
<1>2. S = {}
  <2>1. SUFFICES ASSUME NEW i \in S PROVE FALSE
    OBVIOUS
  <2>2. Len(t) - Len(u) + 1 = Len(t)
    BY <1>1
  <2>3. i \in from..Len(t) /\ SubSeq(t, i, i + Len(u) - 1) = u
    <3> HIDE DEF u
    <3>1. QED BY <2>2
  <2>4. i + Len(u) - 1 = i /\ i \in Nat \ {0} /\ i <= Len(t)
    BY <1>1, <2>3
  <2>5. SubSeq(t, i, i) = u
    <3> HIDE DEF u
    <3>1. QED BY <2>3, <2>4
  <2>6. QED BY <2>3, <2>4, <2>5, SubSeqOne
<1>3. Find(t, u, from) = IF S = {} THEN 0 ELSE Min(S)
  BY DEF Find
<1> HIDE DEF S
<1>4. QED BY <1>2, <1>3

(* The member at p is read, if the scan comes to its colon.                *)
LEMMA ReadsAt ==
  ASSUME NEW C, NEW t \in Seq(C), NEW k, k # ":", NEW p \in Nat \ {0}, NEW g \in Nat, NEW e \in Seq(C),
         Protected(e), (p + 4 + g) + Len(e) + 1 <= Len(t),
         t[p] = Quote, t[p + 1] = k, t[p + 2] = Quote, t[p + 3] = ":",
         \A j \in (p + 4)..(p + 3 + g) : t[j] = Blank,
         t[p + 4 + g] = Quote, At(t, p + 4 + g, e), t[(p + 4 + g) + Len(e) + 1] = Quote,
         \A f \in 1..(p - 1) : Matched(t, k, f) => \A j \in (f + 3)..(p - 1) : t[j] # ":"
  PROVE  ExtractJsonString(t, k) = e
<1> DEFINE m == Find(t, <<Quote, k, Quote>>, 1)
           b == p + 4 + g
           n == Len(e)
<1>1. Len(t) \in Nat /\ n \in Nat /\ b \in Nat /\ b + n + 1 <= Len(t)
  BY LenProperties
<1>2. Quote # ":" /\ Quote \notin Blanks /\ Blank \in Blanks
  BY DEF Quote, Blanks, Blank
<1>3. Matched(t, k, p)
  BY <1>1 DEF Matched
<1>4. Matched(t, k, m) /\ m <= p
  BY <1>3, FindKey
<1>5. m \in Nat \ {0} /\ m # 0 /\ m + 3 \in Nat \ {0}
  <2> HIDE DEF m, b, n
  <2>1. m \in 1..(Len(t) - 2)
    BY <1>4 DEF Matched
  <2>2. QED BY <1>1, <2>1
<1> HIDE DEF m
<1>6. ASSUME NEW j \in (m + 3)..(p + 2) PROVE t[j] # ":"
  <2>1. CASE j = p \/ j = p + 1 \/ j = p + 2
    BY <1>2, <2>1
  <2>2. CASE j \in (m + 3)..(p - 1)
    <3>1. m \in 1..(p - 1)
      BY <1>5, <2>2
    <3>2. QED BY <1>4, <2>2, <3>1
  <2>3. QED BY <1>5, <2>1, <2>2
<1>7. Find(t, <<":">>, m + 3) = p + 3
  <2>1. p + 3 \in (m + 3)..Len(t)
    BY <1>1, <1>4, <1>5
  <2>2. \A j \in (m + 3)..((p + 3) - 1) : t[j] # ":"
    BY <1>6
  <2>3. QED BY <1>5, <2>1, <2>2, FindColon
<1>8. SkipBlanks(t, p + 3 + 1) = b
  <2> DEFINE S == {i \in (p + 3 + 1)..Len(t) : t[i] \notin Blanks} \cup {Len(t) + 1}
  <2>1. b \in S /\ S \in SUBSET Int
    BY <1>1, <1>2
  <2>2. ASSUME NEW x \in S PROVE b <= x
    <3>1. SUFFICES ASSUME x \in (p + 4)..(b - 1) PROVE FALSE
      BY <1>1
    <3>2. x \in (p + 4)..(p + 3 + g) /\ t[x] \notin Blanks
      BY <1>1, <3>1
    <3>3. QED BY <1>2, <3>2
  <2> HIDE DEF S
  <2>3. Min(S) = b
    BY <2>1, <2>2, MinIs
  <2>4. QED BY <2>3 DEF SkipBlanks, S
<1>9. StringEnd(t, b + 1) = b + n + 1
  <2> HIDE DEF b
  <2>1. At(t, b, e) /\ t[b + n + 1] = Quote
    BY DEF b
  <2>2. QED BY <1>1, <2>1, StringEndIs
<1>10. SubSeq(t, b + 1, b + n) = e
  <2> DEFINE s == SubSeq(t, b + 1, b + n)
  <2> HIDE DEF b
  <2>1. s \in Seq(C) /\ Len(s) = n /\ \A j \in 1..n : s[j] = t[b + j]
    <3>1. b + 1 \in Nat /\ b + n \in Nat /\ b + n <= Len(t) /\ \A j \in 1..Len(t) : t[j] \in C
      BY <1>1, ElementOfSeq
    <3>2. Len(s) = n /\ \A j \in 1..n : s[j] = t[(b + 1) + j - 1]
      BY <1>1, <3>1
    <3>3. \A j \in 1..n : (b + 1) + j - 1 = b + j
      BY <1>1
    <3>4. s \in Seq(C)
      BY <1>1, <3>1
    <3>5. QED BY <3>2, <3>3, <3>4
  <2> HIDE DEF s
  <2>2. \A j \in 1..n : s[j] = e[j]
    BY <2>1 DEF At, b
  <2>3. s = e
    BY <1>1, <2>1, <2>2, SeqEqual
  <2>4. QED BY <2>3 DEF s
<1>11. ~(b > Len(t)) /\ t[b] = Quote /\ p + 3 # 0 /\ (b + n + 1) - 1 = b + n
  BY <1>1
<1> HIDE DEF b, n
<1> DEFINE colon == IF m = 0 THEN 0 ELSE Find(t, <<":">>, m + 3)
           value == SkipBlanks(t, colon + 1)
<1>12. ExtractJsonString(t, k)
         = IF colon = 0 \/ value > Len(t) \/ t[value] # Quote THEN <<>>
           ELSE SubSeq(t, value + 1, StringEnd(t, value + 1) - 1)
  BY DEF ExtractJsonString, m
<1>13. colon = p + 3
  BY <1>5, <1>7
<1> HIDE DEF colon
<1>14. value = b
  BY <1>8, <1>13
<1> HIDE DEF value
<1>15. ExtractJsonString(t, k) = SubSeq(t, b + 1, b + n)
  BY <1>9, <1>11, <1>12, <1>13, <1>14
<1>16. QED BY <1>10, <1>15

(* Nothing is read if no colon follows the key, or there is no key.        *)
LEMMA ReadsNone ==
  ASSUME NEW C, NEW t \in Seq(C), NEW k,
         \A f : Matched(t, k, f) => \A j \in (f + 3)..Len(t) : t[j] # ":"
  PROVE  ExtractJsonString(t, k) = <<>>
<1> DEFINE m == Find(t, <<Quote, k, Quote>>, 1)
<1>1. CASE m = 0
  BY <1>1 DEF ExtractJsonString
<1>2. CASE m # 0
  <2>1. Matched(t, k, m)
    BY <1>2, FindKey
  <2>2. m + 3 \in Nat \ {0}
    <3>1. Len(t) \in Nat
      BY LenProperties
    <3>2. QED BY <2>1, <3>1 DEF Matched
  <2> HIDE DEF m
  <2>3. Find(t, <<":">>, m + 3) = 0
    BY <2>1, <2>2, FindNoColon
  <2>4. QED BY <1>2, <2>3 DEF ExtractJsonString, m
<1>3. QED BY <1>1, <1>2

(* A value shows no key with its escapes that it does not show without.    *)
LEMMA ShowsEscaped ==
  ASSUME NEW C, NEW v \in Seq(C), NEW k, k \notin {Quote, Backslash}, Shows(Escape(v), k)
  PROVE  Shows(v, k)
<1> DEFINE e == Escape(v)
<1>1. e # <<>> /\ e[Len(e)] = k /\ (Len(e) = 1 \/ e[Len(e) - 1] = Quote)
  BY DEF Shows
<1>2. v # <<>>
  BY <1>1, EscapeEmpty
<1>3. PICK u \in Seq(C), c \in C : v = Append(u, c)
  BY <1>2, SequenceEmptyOrAppend
<1> DEFINE d == Escape(u)
<1>4. e = d \o Escaped(c) /\ d \in Seq(Wider(C)) /\ Escaped(c) \in Seq(Wider(C))
  BY <1>3, EscapeAppend, EscapedType
<1> HIDE DEF e, d
<1>5. c = k
  BY <1>1, <1>4, EscapedLast
<1>6. Escaped(c) = <<k>>
  BY <1>5 DEF Escaped
<1>7. Len(d) \in Nat /\ Len(e) = Len(d) + 1 /\ \A j \in 1..Len(d) : e[j] = d[j]
  <2>1. Len(<<k>>) = 1
    OBVIOUS
  <2>2. Len(d) \in Nat
    BY <1>4, LenProperties
  <2>3. e = d \o <<k>> /\ <<k>> \in Seq(Wider(C))
    BY <1>4, <1>6
  <2>4. At(e, 0, d) /\ Len(e) = Len(d) + Len(<<k>>)
    BY <1>4, <2>3, AtConcat
  <2>5. \A j \in 1..Len(d) : e[0 + j] = d[j]
    BY <2>4 DEF At
  <2>6. QED BY <2>1, <2>2, <2>4, <2>5
<1>8. Len(u) \in Nat /\ Len(v) = Len(u) + 1 /\ v[Len(u) + 1] = c /\ \A j \in 1..Len(u) : v[j] = u[j]
  BY <1>3, AppendProperties, LenProperties
<1>9. CASE Len(e) = 1
  <2>1. d = <<>>
    BY <1>4, <1>7, <1>9, EmptySeq
  <2>2. <<>> \in Seq(C)
    BY EmptySeq
  <2>3. u = <<>>
    BY <2>1, <2>2, EscapeInjective, EscapeEmpty DEF d
  <2>4. Len(u) = 0
    BY <2>3
  <2>5. QED BY <1>2, <1>5, <1>8, <2>4 DEF Shows
<1>10. CASE Len(e) # 1
  <2>1. e[Len(e) - 1] = Quote /\ Len(d) \in 1..Len(d) /\ Len(e) - 1 = Len(d)
    BY <1>1, <1>7, <1>10
  <2>2. d[Len(d)] = Quote
    BY <1>7, <2>1
  <2>3. u # <<>>
    <3>1. d # <<>>
      BY <1>4, <2>1, EmptySeq
    <3>2. QED BY <3>1, EscapeEmpty DEF d
  <2>4. PICK x \in Seq(C), y \in C : u = Append(x, y)
    BY <2>3, SequenceEmptyOrAppend
  <2>5. d = Escape(x) \o Escaped(y) /\ Escape(x) \in Seq(Wider(C)) /\ Escaped(y) \in Seq(Wider(C))
    BY <2>4, EscapeAppend, EscapedType DEF d
  <2>6. y = Quote
    BY <2>2, <2>5, EscapedLast
  <2>7. Len(x) \in Nat /\ Len(u) = Len(x) + 1 /\ u[Len(x) + 1] = y
    BY <2>4, AppendProperties, LenProperties
  <2>8. v[Len(v) - 1] = Quote /\ v[Len(v)] = k
    BY <1>5, <1>8, <2>6, <2>7
  <2>9. QED BY <1>2, <2>8 DEF Shows
<1>11. QED BY <1>9, <1>10

-----------------------------------------------------------------------------
(* Where a key can be found before its own member.                         *)

(* A text without the quoted key, one in which no colon follows it, and    *)
(* one that ends in a brace or a quote.                                    *)
Quiet(s, k) == \A f : ~Matched(s, k, f)
Late(s, k)  == \A f : Matched(s, k, f) => \A j \in (f + 3)..Len(s) : s[j] # ":"
Ended(s)    == Len(s) \in Nat \ {0} /\ s[Len(s)] \in {Open, Quote}

(* What is syntax.                                                         *)
LEMMA SyntaxIs ==
  /\ Quote \in Syntax /\ Backslash \in Syntax /\ Comma \in Syntax /\ ":" \in Syntax /\ Open \in Syntax
  /\ Close \in Syntax /\ Blank \in Syntax
  BY DEF Syntax, Blanks

(* In a text that is protected, what comes before a quote is a backslash.  *)
LEMMA BeforeQuote ==
  ASSUME NEW C, NEW e \in Seq(C), Protected(e), NEW i \in 1..Len(e), e[i] = Quote
  PROVE  i > 1 /\ e[i - 1] = Backslash
<1>1. Len(e) \in Nat
  BY LenProperties
<1>2. PICK h \in Nat : Run(e, 1, i, 2 * h + 1)
  BY DEF Protected, OddAt
<1>3. 2 * h + 1 \in 0..(i - 1) /\ \A j \in (i - (2 * h + 1))..(i - 1) : e[j] = Backslash
  BY <1>2 DEF Run
<1>4. i > 1 /\ i - 1 \in (i - (2 * h + 1))..(i - 1)
  BY <1>1, <1>3
<1>5. QED BY <1>3, <1>4

(* A member of another name leaves the key unseen, unless its value shows  *)
(* it, and then no colon follows yet.                                      *)
LEMMA MemberStep ==
  ASSUME NEW C, NEW s, NEW t \in Seq(C), NEW c \in Nat, NEW g \in Nat, NEW w, NEW e \in Seq(C),
         Ended(s), Laid(s, t, c, w, g, e), Protected(e), NEW k, k \notin Syntax, w # k, Quiet(s, k)
  PROVE  Ended(t) /\ Late(t, k) /\ (~Shows(e, k) => Quiet(t, k))
<1> DEFINE a == Len(s)
           n == Len(e)
           p == a + c + 1
           b == p + 4 + g
<1>1. a \in Nat \ {0} /\ n \in Nat /\ s[a] \in {Open, Quote}
  BY LenProperties DEF Ended
<1>2. /\ Len(t) = b + n + 1
      /\ \A j \in 1..a : t[j] = s[j]
      /\ \A j \in (a + 1)..(p - 1) : t[j] \in {Comma, Blank}
      /\ t[p] = Quote /\ t[p + 1] = w /\ t[p + 2] = Quote /\ t[p + 3] = ":"
      /\ \A j \in (p + 4)..(b - 1) : t[j] = Blank
      /\ t[b] = Quote /\ t[b + n + 1] = Quote
  BY DEF Laid
<1>3. \A j \in 1..n : t[b + j] = e[j]
  BY DEF Laid, At
<1>4. k # Quote /\ k # Backslash /\ k # Comma /\ k # ":" /\ k # Open /\ k # Blank
  BY SyntaxIs
<1> HIDE DEF a, n
<1>5. Ended(t)
  BY <1>1, <1>2 DEF Ended
<1>6. ASSUME NEW f, Matched(t, k, f) PROVE f + 2 = Len(t) /\ Shows(e, k)
  <2>1. f \in 1..(Len(t) - 2) /\ t[f] = Quote /\ t[f + 1] = k /\ t[f + 2] = Quote
    BY <1>6 DEF Matched
  <2>2. f \in Nat \ {0} /\ f + 1 \in 2..(b + n)
    BY <1>1, <1>2, <2>1
  <2> DEFINE q == f + 1
  <2>3. ~(q < a)
    <3>1. SUFFICES ASSUME q < a PROVE FALSE
      OBVIOUS
    <3>2. f \in 1..a /\ f + 1 \in 1..a /\ f + 2 \in 1..a /\ f \in 1..(a - 2)
      BY <1>1, <2>2, <3>1
    <3>3. Matched(s, k, f)
      BY <1>2, <2>1, <3>2 DEF Matched, a
    <3>4. QED BY <3>3 DEF Quiet
  <2>4. q # a
    <3>1. a \in 1..a
      BY <1>1
    <3>2. QED BY <1>1, <1>2, <1>4, <2>1, <3>1
  <2>5. ~(q \in (a + 1)..(p - 1))
    BY <1>2, <1>4, <2>1
  <2>6. q # p /\ q # p + 1 /\ q # p + 2 /\ q # p + 3 /\ q # b
    BY <1>2, <1>4, <2>1
  <2>7. ~(q \in (p + 4)..(b - 1))
    BY <1>2, <1>4, <2>1
  <2>8. q \in (b + 1)..(b + n)
    <3>1. q \in Nat /\ q > a /\ q > p - 1 /\ q <= b + n
      BY <1>1, <2>2, <2>3, <2>4, <2>5
    <3>2. q > p + 3
      BY <1>1, <2>6, <3>1, SMTT(30)
    <3>3. q > b - 1
      BY <1>1, <2>7, <3>1, <3>2
    <3>4. QED BY <1>1, <2>6, <3>1, <3>3, SMTT(20)
  <2> DEFINE j == q - b
  <2>9. j \in 1..n /\ b + j = q
    BY <1>1, <2>8
  <2>10. e[j] = k
    BY <1>3, <2>1, <2>9
  <2>11. j = n
    <3>1. SUFFICES ASSUME j # n PROVE FALSE
      OBVIOUS
    <3>2. j + 1 \in 1..n /\ b + (j + 1) = f + 2 /\ (j + 1) - 1 = j
      BY <1>1, <2>2, <2>9, <3>1
    <3>3. e[j + 1] = Quote
      BY <1>3, <2>1, <3>2
    <3>4. e[j] = Backslash
      <4> HIDE DEF j
      <4>1. e[(j + 1) - 1] = Backslash
        BY <3>2, <3>3, BeforeQuote DEF n
      <4>2. QED BY <3>2, <4>1
    <3>5. QED BY <1>4, <2>10, <3>4
  <2>12. f + 2 = Len(t)
    <3>1. b + n = f + 1
      BY <2>9, <2>11
    <3>2. QED BY <1>1, <1>2, <2>2, <3>1
  <2>13. n = 1 \/ e[n - 1] = Quote
    <3>1. SUFFICES ASSUME n # 1 PROVE e[n - 1] = Quote
      OBVIOUS
    <3>2. n - 1 \in 1..n /\ b + (n - 1) = f
      <4>1. b + n = f + 1
        BY <2>9, <2>11
      <4>2. n - 1 \in 1..n
        BY <1>1, <3>1, <2>9
      <4>3. QED BY <1>1, <2>2, <4>1, <4>2
    <3>3. QED BY <1>3, <2>1, <3>2
  <2>14. e # <<>>
    <3>1. n # 0
      BY <2>9
    <3>2. QED BY <3>1, EmptySeq DEF n
  <2>15. QED BY <2>10, <2>11, <2>12, <2>13, <2>14 DEF Shows, n
<1>7. Late(t, k)
  <2>1. SUFFICES ASSUME NEW f, Matched(t, k, f), NEW j \in (f + 3)..Len(t) PROVE t[j] # ":"
    BY DEF Late
  <2>2. Len(t) \in Nat
    BY LenProperties
  <2>3. f + 2 = Len(t) /\ f \in 1..(Len(t) - 2)
    BY <1>6, <2>1 DEF Matched
  <2>4. QED BY <2>1, <2>2, <2>3
<1>8. ~Shows(e, k) => Quiet(t, k)
  BY <1>6 DEF Quiet
<1>9. QED BY <1>5, <1>7, <1>8

(* A concatenation, grown part by part.                                    *)
Grown(grown, o, ss) ==
  /\ grown[0] = o
  /\ \A i \in 1..Len(ss) : grown[i] = Joined(grown[i - 1], ss[i])

(* Concatenations can be grown.                                            *)
LEMMA GrownExists ==
  ASSUME NEW C, NEW ss \in Seq(Seq(C)), NEW o \in Seq(C)
  PROVE  \E grown \in [0..Len(ss) -> Seq(C)] :
           Grown(grown, o, ss) /\ Joined(o, FlattenSeq(ss)) = grown[Len(ss)]
<1> DEFINE n == Len(ss)
<1>1. n \in Nat /\ ss \in [1..n -> Seq(C)]
  BY LenProperties
<1>2. CASE n = 0
  <2>1. ss = <<>>
    BY <1>2, EmptySeq
  <2>2. Joined(o, FlattenSeq(ss)) = o
    BY <2>1, FlattenSeqEmpty, JoinedEmpty
  <2> DEFINE grown == [i \in 0..0 |-> o]
  <2>3. grown \in [0..0 -> Seq(C)] /\ grown[0] = o
    OBVIOUS
  <2> HIDE DEF grown
  <2>4. Grown(grown, o, ss)
    BY <1>2, <2>3 DEF Grown
  <2>5. QED BY <1>2, <2>2, <2>3, <2>4
<1>3. CASE n # 0
  <2> HIDE DEF n
  <2>1. PICK flat \in [1..n -> Seq(C)] : Flattened(flat, ss, n)
    BY <1>1, FlattenedExists
  <2>2. FlattenSeq(ss) = flat[n]
    BY <1>3, <2>1, FlattenSeqIs DEF n
  <2> DEFINE grown == [i \in 0..n |-> IF i = 0 THEN o ELSE Joined(o, flat[i])]
  <2>3. \A i \in 1..n : Joined(o, flat[i]) \in Seq(C)
    BY <2>1, JoinedType
  <2>4. grown \in [0..n -> Seq(C)]
    BY <1>1, <2>3
  <2>5. grown[0] = o /\ \A i \in 1..n : grown[i] = Joined(o, flat[i])
    BY <1>1
  <2> HIDE DEF grown
  <2>6. ASSUME NEW i \in 1..n PROVE grown[i] = Joined(grown[i - 1], ss[i])
    <3>1. CASE i = 1
      <4>1. flat[i] = ss[i] /\ i - 1 = 0
        BY <2>1, <3>1 DEF Flattened
      <4>2. QED BY <2>5, <4>1
    <3>2. CASE i # 1
      <4>1. i - 1 \in 1..n
        BY <1>1, <3>2
      <4>2. flat[i] = Joined(flat[i - 1], ss[i])
        BY <2>1, <3>2 DEF Flattened
      <4>3. flat[i - 1] \in Seq(C) /\ ss[i] \in Seq(C)
        BY <1>1, <2>1, <4>1
      <4>4. Joined(Joined(o, flat[i - 1]), ss[i]) = Joined(o, Joined(flat[i - 1], ss[i]))
        <5> DEFINE T == Seq(C)
                   x == flat[i - 1]
                   y == ss[i]
        <5>1. T = Seq(C) /\ o \in T /\ x \in T /\ y \in T
          BY <4>3
        <5> HIDE DEF T, x, y
        <5>2. Joined(Joined(o, x), y) = Joined(o, Joined(x, y))
          BY <5>1, JoinedAssociative
        <5>3. QED BY <5>2 DEF x, y
      <4>5. QED BY <2>5, <4>1, <4>2, <4>4
    <3>3. QED BY <3>1, <3>2
  <2>7. Grown(grown, o, ss)
    BY <2>5, <2>6 DEF Grown, n
  <2>8. n \in 1..n
    BY <1>1, <1>3
  <2>9. Joined(o, FlattenSeq(ss)) = grown[n]
    BY <2>2, <2>5, <2>8
  <2>10. QED BY <2>4, <2>7, <2>9 DEF n
<1>4. QED BY <1>2, <1>3

(* What is there stays there.                                              *)
Begins(s, t) == Len(s) <= Len(t) /\ \A j \in 1..Len(s) : t[j] = s[j]

(* A text begins what is joined to it.                                     *)
LEMMA BeginsJoined ==
  ASSUME NEW C, NEW s \in Seq(C), NEW t \in Seq(C), NEW u \in Seq(C), Begins(s, t)
  PROVE  Begins(s, Joined(t, u))
<1>1. Len(s) \in Nat /\ Len(t) \in Nat /\ Len(u) \in Nat /\ Len(s) <= Len(t)
      /\ \A j \in 1..Len(s) : t[j] = s[j]
  BY LenProperties DEF Begins
<1>2. At(t \o u, 0, t) /\ Len(t \o u) = Len(t) + Len(u)
  BY AtConcat
<1>3. \A j \in 1..Len(t) : (t \o u)[0 + j] = t[j]
  BY <1>2 DEF At
<1>4. ASSUME NEW j \in 1..Len(s) PROVE (t \o u)[j] = s[j]
  <2>1. j \in 1..Len(t) /\ 0 + j = j
    BY <1>1
  <2>2. QED BY <1>1, <1>3, <2>1
<1>5. QED BY <1>1, <1>2, <1>4 DEF Begins, Joined

(* Each stage begins the last.                                             *)
LEMMA GrownBegins ==
  ASSUME NEW C, NEW ss \in Seq(Seq(C)), NEW o, NEW grown \in [0..Len(ss) -> Seq(C)],
         Grown(grown, o, ss), NEW i \in 0..Len(ss)
  PROVE  Begins(grown[i], grown[Len(ss)])
<1> DEFINE n == Len(ss)
           Stays(m) == i + m <= n => Begins(grown[i], grown[i + m])
<1>1. n \in Nat /\ ss \in [1..n -> Seq(C)]
  BY LenProperties
<1>2. grown[i] \in Seq(C) /\ i \in Nat /\ i <= n
  <2>1. i \in 0..n
    OBVIOUS
  <2>2. grown[i] \in Seq(C)
    OBVIOUS
  <2> HIDE DEF n
  <2>3. QED BY <1>1, <2>1, <2>2
<1> HIDE DEF n
<1>3. Stays(0)
  <2>1. i + 0 = i /\ Len(grown[i]) \in Nat
    BY <1>2, LenProperties
  <2>2. QED BY <2>1 DEF Begins
<1>4. ASSUME NEW m \in Nat, Stays(m) PROVE Stays(m + 1)
  <2>1. SUFFICES ASSUME i + (m + 1) <= n PROVE Begins(grown[i], grown[i + (m + 1)])
    OBVIOUS
  <2>2. i + (m + 1) \in 1..n /\ (i + (m + 1)) - 1 = i + m /\ i + m \in 0..n /\ i + m <= n
    BY <1>1, <1>2, <2>1
  <2>3. grown[i + (m + 1)] = Joined(grown[i + m], ss[i + (m + 1)])
    BY <2>2 DEF Grown, n
  <2>4. grown[i + m] \in Seq(C) /\ ss[i + (m + 1)] \in Seq(C)
    BY <1>1, <2>2 DEF n
  <2>5. Begins(grown[i], grown[i + m])
    BY <1>4, <2>2
  <2>6. QED BY <1>2, <2>3, <2>4, <2>5, BeginsJoined
<1>5. \A m \in Nat : Stays(m)
  <2> DEFINE N == {m \in Nat : Stays(m)}
  <2> HIDE DEF Stays
  <2>1. N \in SUBSET Nat /\ 0 \in N /\ \A m \in N : m + 1 \in N
    BY <1>3, <1>4
  <2> HIDE DEF N
  <2>2. N = Nat
    BY <2>1, NatSet
  <2>3. QED BY <2>2 DEF N
<1>6. n - i \in Nat /\ i + (n - i) = n /\ i + (n - i) <= n
  BY <1>1, <1>2
<1>7. Begins(grown[i], grown[i + (n - i)])
  BY <1>5, <1>6
<1>8. QED BY <1>6, <1>7 DEF n

-----------------------------------------------------------------------------
(* The texts of objects.                                                   *)

(* The members of an object, as texts.                                     *)
PartsOf(keys, members, gap) ==
  [i \in DOMAIN keys |-> IF keys[i] \in DOMAIN members THEN Member(keys, members, gap, i) ELSE <<>>]

(* Keys that are words, each once, and values that are texts.              *)
Plain(C, keys, members) ==
  /\ Syntax \subseteq C
  /\ keys \in Seq(C \ Syntax) /\ \A i, j \in DOMAIN keys : keys[i] = keys[j] => i = j
  /\ \A k \in DOMAIN members : members[k] \in Seq(C)

(* Escapes add backslashes only.                                           *)
LEMMA EscapeStays ==
  ASSUME NEW C, Syntax \subseteq C, NEW v \in Seq(C) PROVE Escape(v) \in Seq(C)
<1>1. Wider(C) = C
  BY SyntaxIs DEF Wider
<1>2. QED BY <1>1, EscapeType

(* The text of a member, and how it is laid out after another text.        *)
LEMMA MemberType ==
  ASSUME NEW C, NEW keys, NEW members, Plain(C, keys, members), NEW gap \in Gaps,
         NEW i \in DOMAIN keys, keys[i] \in DOMAIN members
  PROVE  /\ Member(keys, members, gap, i) \in Seq(C)
         /\ Escape(members[keys[i]]) \in Seq(C) /\ Protected(Escape(members[keys[i]]))
         /\ \A s \in Seq(C) : \E c, g \in Nat :
              Laid(s, Joined(s, Member(keys, members, gap, i)), c, keys[i], g, Escape(members[keys[i]]))
<1> DEFINE w == keys[i]
           e == Escape(members[w])
           comma == IF \E j \in 1..(i - 1) : keys[j] \in DOMAIN members THEN <<Comma>> \o gap ELSE <<>>
<1>1. w \in C \ Syntax /\ members[w] \in Seq(C) /\ Syntax \subseteq C
  <2>1. keys \in Seq(C \ Syntax)
    BY DEF Plain
  <2>2. DOMAIN keys = 1..Len(keys)
    BY <2>1, LenProperties
  <2>3. keys[i] \in C \ Syntax
    BY <2>1, <2>2, ElementOfSeq
  <2>4. QED BY <2>3 DEF Plain
<1>2. Quote \in C /\ Comma \in C /\ Blank \in C /\ ":" \in C /\ w \notin {Quote, Backslash}
  BY <1>1, SyntaxIs
<1>3. e \in Seq(C) /\ Protected(e)
  BY <1>1, EscapeStays, EscapeProtected
<1>4. gap \in Seq({Blank}) /\ <<Comma>> \o gap \in Seq({Comma, Blank})
  <2>1. CASE gap = <<>>
    <3>1. <<Comma>> \o <<>> = <<Comma>>
      <4>1. <<Comma>> \in Seq({Comma})
        OBVIOUS
      <4>2. QED BY <4>1, ConcatEmptySeq
    <3>2. <<Comma>> \in Seq({Comma, Blank}) /\ <<>> \in Seq({Blank})
      BY EmptySeq
    <3>3. QED BY <2>1, <3>1, <3>2
  <2>2. CASE gap = <<Blank>>
    <3>1. <<Comma>> \o <<Blank>> = <<Comma, Blank>>
      BY OneOne
    <3>2. QED BY <2>2, <3>1
  <2>3. QED BY <2>1, <2>2 DEF Gaps, Empty
<1>5. comma \in Seq({Comma, Blank})
  BY <1>4, EmptySeq
<1>6. WriteString(<<w>>) = <<Quote, w, Quote>> /\ WriteString(members[w]) = <<Quote>> \o e \o <<Quote>>
  BY <1>2, WordIs DEF WriteString
<1> DEFINE all == comma \o (<<Quote, w, Quote>> \o (<<":">> \o (gap \o (<<Quote>> \o e \o <<Quote>>))))
<1>7. Member(keys, members, gap, i) = all
  BY <1>6 DEF Member
<1>8. ASSUME NEW s \in Seq(C)
      PROVE  Laid(s, s \o all, Len(comma), w, Len(gap), e)
  <2> HIDE DEF comma, e, w
  <2>1. QED BY <1>1, <1>2, <1>3, <1>4, <1>5, LaidOut
<1>9. all \in Seq(C)
  <2> DEFINE q == <<Quote>>
             d == <<":">>
             k == <<Quote, w, Quote>>
  <2>1. q \in Seq(C) /\ d \in Seq(C) /\ k \in Seq(C)
    BY <1>1, <1>2
  <2>2. comma \in Seq(C) /\ gap \in Seq(C)
    <3>1. {Comma, Blank} \subseteq C /\ {Blank} \subseteq C
      BY <1>2
    <3> HIDE DEF comma
    <3>2. QED BY <1>4, <1>5, <3>1, SeqWider
  <2> HIDE DEF q, d, k, comma, e
  <2>3. (q \o e) \o q \in Seq(C)
    BY <1>3, <2>1, ConcatProperties
  <2>4. gap \o ((q \o e) \o q) \in Seq(C)
    BY <2>2, <2>3, ConcatProperties
  <2>5. d \o (gap \o ((q \o e) \o q)) \in Seq(C)
    BY <2>1, <2>4, ConcatProperties
  <2>6. k \o (d \o (gap \o ((q \o e) \o q))) \in Seq(C)
    BY <2>1, <2>5, ConcatProperties
  <2>7. comma \o (k \o (d \o (gap \o ((q \o e) \o q)))) \in Seq(C)
    BY <2>2, <2>6, ConcatProperties
  <2>8. QED BY <2>7 DEF q, d, k
<1>10. Len(comma) \in Nat /\ Len(gap) \in Nat
  BY <1>4, <1>5, LenProperties
<1> HIDE DEF all, comma, e
<1>11. \A s \in Seq(C) : \E c, g \in Nat : Laid(s, Joined(s, all), c, w, g, e)
  BY <1>8, <1>10 DEF Joined
<1>12. QED BY <1>3, <1>7, <1>9, <1>11 DEF e

(* The text of an object grows member by member.                           *)
LEMMA ObjectGrows ==
  ASSUME NEW C, NEW keys, NEW members, Plain(C, keys, members), NEW gap \in Gaps
  PROVE  \E grown \in [0..Len(keys) -> Seq(C)] :
           /\ Grown(grown, <<Open>>, PartsOf(keys, members, gap))
           /\ WriteObject(keys, members, gap) = Joined(grown[Len(keys)], <<Close>>)
           /\ PartsOf(keys, members, gap) \in Seq(Seq(C)) /\ Len(PartsOf(keys, members, gap)) = Len(keys)
<1> DEFINE ss == PartsOf(keys, members, gap)
           n == Len(keys)
           S == Seq(C)
<1>1. n \in Nat /\ DOMAIN keys = 1..n /\ Syntax \subseteq C
  BY LenProperties DEF Plain
<1>2. <<>> \in S
  BY EmptySeq
<1>3. \A i \in 1..n : keys[i] \in DOMAIN members => Member(keys, members, gap, i) \in S
  BY <1>1, MemberType
<1> HIDE DEF S
<1>4. ss \in [1..n -> S]
  BY <1>1, <1>2, <1>3 DEF PartsOf
<1> HIDE DEF ss
<1>5. ss \in Seq(S) /\ Len(ss) = n
  BY <1>1, <1>4
<1>6. <<Open>> \in S
  BY <1>1, SyntaxIs DEF S
<1> DEFINE o == <<Open>>
<1> HIDE DEF o
<1>7. PICK grown \in [0..n -> S] : Grown(grown, o, ss) /\ Joined(o, FlattenSeq(ss)) = grown[n]
  BY <1>5, <1>6, GrownExists DEF S, o
<1>8. WriteObject(keys, members, gap) = Joined(Joined(o, FlattenSeq(ss)), <<Close>>)
  BY DEF WriteObject, Joined, ss, o, PartsOf
<1>9. QED BY <1>5, <1>7, <1>8 DEF S, o, ss

(* A member ends with a quote.                                             *)
LEMMA MemberEnds ==
  ASSUME NEW s, NEW t, NEW c \in Nat, NEW g \in Nat, NEW w, NEW e, Len(e) \in Nat, Ended(s),
         Laid(s, t, c, w, g, e)
  PROVE  Ended(t)
<1> DEFINE last == Len(s) + c + 1 + 4 + g + Len(e) + 1
<1>1. Len(s) \in Nat
  BY DEF Ended
<1>2. Len(t) = last /\ t[last] = Quote
  BY DEF Laid
<1>3. last \in Nat \ {0}
  BY <1>1
<1> HIDE DEF last
<1>4. QED BY <1>2, <1>3 DEF Ended

(* Which of the first n members are written, and what they show.           *)
Present(keys, members, n) == {j \in 1..n : keys[j] \in DOMAIN members}
NoneShows(keys, members, n, k) == \A j \in Present(keys, members, n) : ~Shows(members[keys[j]], k)
LastShows(keys, members, n, k) ==
  \A j, l \in Present(keys, members, n) : j < l => ~Shows(members[keys[j]], k)
NoneIs(keys, members, n, k) == \A j \in Present(keys, members, n) : keys[j] # k

(* One more member.                                                        *)
LEMMA WrittenMore ==
  ASSUME NEW keys, NEW members, NEW n \in Nat
  PROVE  Present(keys, members, n + 1)
           = Present(keys, members, n) \cup (IF keys[n + 1] \in DOMAIN members THEN {n + 1} ELSE {})
  BY DEF Present

(* What has been written before a member of that name: it does not hold    *)
(* the key, or in its last value only.                                     *)
LEMMA BeforeMember ==
  ASSUME NEW C, NEW keys, NEW members, Plain(C, keys, members), NEW gap \in Gaps,
         NEW grown \in [0..Len(keys) -> Seq(C)], Grown(grown, <<Open>>, PartsOf(keys, members, gap)),
         Len(PartsOf(keys, members, gap)) = Len(keys), NEW k, k \notin Syntax, NEW i \in 0..Len(keys)
  PROVE  /\ Ended(grown[i])
         /\ NoneIs(keys, members, i, k) /\ NoneShows(keys, members, i, k) => Quiet(grown[i], k)
         /\ NoneIs(keys, members, i, k) /\ LastShows(keys, members, i, k) => Late(grown[i], k)
<1> DEFINE n == Len(keys)
           Is(m) == NoneIs(keys, members, m, k)
           None(m) == NoneShows(keys, members, m, k)
           AllButLast(m) == LastShows(keys, members, m, k)
           Good(m) == m <= n => /\ Ended(grown[m])
                                /\ Is(m) /\ None(m) => Quiet(grown[m], k)
                                /\ Is(m) /\ AllButLast(m) => Late(grown[m], k)
<1>1. n \in Nat /\ DOMAIN keys = 1..n
  BY LenProperties DEF Plain
<1>2. grown[0] = <<Open>>
  BY DEF Grown
<1>3. Good(0)
  <2> DEFINE o == <<Open>>
  <2>1. Len(o) = 1 /\ o[1] = Open
    OBVIOUS
  <2> HIDE DEF o
  <2>2. Ended(o)
    BY <2>1 DEF Ended
  <2>3. \A f : ~Matched(o, k, f)
    BY <2>1 DEF Matched
  <2>4. Quiet(o, k) /\ Late(o, k)
    BY <2>3 DEF Quiet, Late
  <2>5. QED BY <1>2, <2>2, <2>4 DEF o
<1> HIDE DEF n
<1>4. ASSUME NEW m \in Nat, Good(m) PROVE Good(m + 1)
  <2> DEFINE i1 == m + 1
  <2>1. SUFFICES ASSUME i1 <= n
                 PROVE  /\ Ended(grown[i1])
                        /\ Is(i1) /\ None(i1) => Quiet(grown[i1], k)
                        /\ Is(i1) /\ AllButLast(i1) => Late(grown[i1], k)
    OBVIOUS
  <2>2. i1 \in 1..n /\ i1 - 1 = m /\ m \in 0..n /\ m <= n /\ i1 \in 0..n
    BY <1>1, <2>1
  <2>3. grown[m] \in Seq(C) /\ grown[i1] \in Seq(C)
    BY <2>2 DEF n
  <2>4. grown[i1] = Joined(grown[m], PartsOf(keys, members, gap)[i1])
    BY <2>2 DEF Grown, n
  <2>5. /\ Ended(grown[m])
        /\ Is(m) /\ None(m) => Quiet(grown[m], k)
        /\ Is(m) /\ AllButLast(m) => Late(grown[m], k)
    BY <1>4, <2>2
  <2>6. Present(keys, members, i1)
          = Present(keys, members, m) \cup (IF keys[i1] \in DOMAIN members THEN {i1} ELSE {})
    BY WrittenMore
  <2>7. \A j \in Present(keys, members, m) : j < i1
    BY DEF Present
  <2> HIDE DEF i1
  <2>8. CASE keys[i1] \notin DOMAIN members
    <3>1. PartsOf(keys, members, gap)[i1] = <<>>
      BY <1>1, <2>2, <2>8 DEF PartsOf
    <3>2. grown[i1] = grown[m]
      BY <2>3, <2>4, <3>1, JoinedEmpty
    <3>3. Present(keys, members, i1) = Present(keys, members, m)
      BY <2>6, <2>8
    <3>4. QED BY <2>5, <3>2, <3>3 DEF NoneIs, NoneShows, LastShows
  <2>9. CASE keys[i1] \in DOMAIN members
    <3> DEFINE e == Escape(members[keys[i1]])
               part == Member(keys, members, gap, i1)
    <3>1. PartsOf(keys, members, gap)[i1] = part
      BY <1>1, <2>2, <2>9 DEF PartsOf
    <3>2. i1 \in DOMAIN keys
      BY <1>1, <2>2
    <3>3. e \in Seq(C) /\ Protected(e)
      BY <2>9, <3>2, MemberType
    <3>4. PICK c \in Nat, g \in Nat : Laid(grown[m], Joined(grown[m], part), c, keys[i1], g, e)
      BY <2>3, <2>9, <3>2, MemberType
    <3> HIDE DEF part
    <3>5. Laid(grown[m], grown[i1], c, keys[i1], g, e)
      BY <2>4, <3>1, <3>4
    <3>6. members[keys[i1]] \in Seq(C)
      BY <2>9 DEF Plain
    <3>7. Shows(e, k) => Shows(members[keys[i1]], k)
      <4>1. k \notin {Quote, Backslash}
        BY SyntaxIs
      <4>2. QED BY <3>6, <4>1, ShowsEscaped
    <3> HIDE DEF e
    <3>8. Ended(grown[i1])
      <4>1. Len(e) \in Nat
        BY <3>3, LenProperties
      <4>2. QED BY <2>5, <3>5, <4>1, MemberEnds
    <3>9. Present(keys, members, i1) = Present(keys, members, m) \cup {i1}
      BY <2>6, <2>9
    <3>10. Is(i1) => Is(m) /\ keys[i1] # k
      BY <3>9 DEF NoneIs
    <3>11. None(i1) => None(m) /\ ~Shows(members[keys[i1]], k)
      BY <3>9 DEF NoneShows
    <3>12. AllButLast(i1) => None(m)
      BY <2>7, <3>9 DEF NoneShows, LastShows
    <3>13. ASSUME Is(i1), None(m) PROVE Late(grown[i1], k) /\ (~Shows(e, k) => Quiet(grown[i1], k))
      <4>1. Quiet(grown[m], k) /\ keys[i1] # k
        BY <2>5, <3>10, <3>13
      <4>2. QED BY <2>3, <2>5, <3>3, <3>5, <4>1, MemberStep
    <3>14. QED BY <3>7, <3>8, <3>11, <3>12, <3>13
  <2>10. QED BY <2>8, <2>9
<1>5. \A m \in Nat : Good(m)
  <2> DEFINE N == {m \in Nat : Good(m)}
  <2> HIDE DEF Good
  <2>1. N \in SUBSET Nat /\ 0 \in N /\ \A m \in N : m + 1 \in N
    BY <1>3, <1>4
  <2> HIDE DEF N
  <2>2. N = Nat
    BY <2>1, NatSet
  <2>3. QED BY <2>2 DEF N
<1>6. i \in Nat /\ i <= n
  BY <1>1 DEF n
<1>7. QED BY <1>5, <1>6

(* What is read of a member that is there.                                 *)
LEMMA ReadsMember ==
  ASSUME NEW C, NEW keys, NEW members, Plain(C, keys, members), NEW gap \in Gaps,
         NEW i \in DOMAIN keys, keys[i] \in DOMAIN members, Legible(keys, members, keys[i])
  PROVE  ExtractJsonString(WriteObject(keys, members, gap), keys[i]) = Escape(members[keys[i]])
<1> DEFINE n == Len(keys)
           k == keys[i]
           e == Escape(members[k])
           text == WriteObject(keys, members, gap)
<1>1. n \in Nat /\ DOMAIN keys = 1..n /\ keys \in Seq(C \ Syntax) /\ Syntax \subseteq C
  BY LenProperties DEF Plain
<1>2. k \notin Syntax
  BY <1>1, ElementOfSeq
<1>3. PICK grown \in [0..n -> Seq(C)] :
           /\ Grown(grown, <<Open>>, PartsOf(keys, members, gap))
           /\ text = Joined(grown[n], <<Close>>)
           /\ PartsOf(keys, members, gap) \in Seq(Seq(C)) /\ Len(PartsOf(keys, members, gap)) = n
  BY ObjectGrows
<1>4. i \in 1..n /\ i \in 0..n /\ i - 1 \in 0..n /\ n \in 0..n
  BY <1>1
<1> DEFINE s == grown[i - 1]
           t == grown[i]
           part == Member(keys, members, gap, i)
<1>5. s \in Seq(C) /\ t \in Seq(C) /\ grown[n] \in Seq(C)
  BY <1>3, <1>4
<1>6. t = Joined(s, part)
  <2>1. PartsOf(keys, members, gap)[i] = part
    BY DEF PartsOf
  <2>2. grown[i] = Joined(grown[i - 1], PartsOf(keys, members, gap)[i])
    BY <1>3, <1>4 DEF Grown
  <2>3. QED BY <2>1, <2>2
<1>7. e \in Seq(C) /\ Protected(e)
  BY MemberType
<1>8. PICK c \in Nat, g \in Nat : Laid(s, t, c, k, g, e)
  <2>1. \E c, g \in Nat : Laid(s, Joined(s, part), c, k, g, e)
    BY <1>5, MemberType
  <2>2. QED BY <1>6, <2>1
<1>9. NoneIs(keys, members, i - 1, k) /\ LastShows(keys, members, i - 1, k)
  <2>1. \A j \in 1..n : keys[j] = k => j = i
    BY <1>1, <1>4 DEF Plain
  <2>2. NoneIs(keys, members, i - 1, k)
    BY <1>1, <1>4, <2>1 DEF NoneIs, Present
  <2>3. ASSUME NEW j \in Present(keys, members, i - 1), NEW l \in Present(keys, members, i - 1), j < l
        PROVE  ~Shows(members[keys[j]], k)
    <3>1. j \in DOMAIN keys /\ l \in DOMAIN keys /\ l < i /\ l \in Nat
          /\ keys[j] \in DOMAIN members /\ keys[l] \in DOMAIN members
      BY <1>1, <1>4 DEF Present
    <3>2. \A m \in DOMAIN keys : m <= l => keys[m] # k
      BY <1>1, <1>4, <2>1, <3>1
    <3>3. QED BY <2>3, <3>1, <3>2 DEF Legible
  <2>4. QED BY <2>2, <2>3 DEF LastShows
<1>10. Ended(s) /\ Late(s, k)
  BY <1>2, <1>3, <1>4, <1>9, BeforeMember
<1>11. Begins(t, grown[n])
  <2> DEFINE ss == PartsOf(keys, members, gap)
  <2>1. ss \in Seq(Seq(C)) /\ grown \in [0..Len(ss) -> Seq(C)] /\ i \in 0..Len(ss) /\ Len(ss) = n
        /\ Grown(grown, <<Open>>, ss)
    BY <1>3, <1>4
  <2> HIDE DEF ss
  <2>2. Begins(grown[i], grown[Len(ss)])
    BY <2>1, GrownBegins
  <2>3. QED BY <2>1, <2>2
<1>12. <<Close>> \in Seq(C)
  BY <1>1, SyntaxIs
<1>13. text \in Seq(C) /\ Begins(t, text)
  BY <1>3, <1>5, <1>11, <1>12, BeginsJoined, JoinedType
<1>14. Len(text) \in Nat /\ Len(t) \in Nat /\ Len(t) <= Len(text) /\ \A j \in 1..Len(t) : text[j] = t[j]
  BY <1>5, <1>13, LenProperties DEF Begins
<1> HIDE DEF text, s, t, e, k, n
<1> DEFINE a == Len(s)
           p == a + c + 1
           b == p + 4 + g
           len == Len(e)
<1>15. a \in Nat \ {0} /\ len \in Nat /\ s[a] \in {Open, Quote}
  BY <1>7, <1>10, LenProperties DEF Ended
<1>16. /\ Len(t) = b + len + 1
       /\ \A j \in 1..a : t[j] = s[j]
       /\ \A j \in (a + 1)..(p - 1) : t[j] \in {Comma, Blank}
       /\ t[p] = Quote /\ t[p + 1] = k /\ t[p + 2] = Quote /\ t[p + 3] = ":"
       /\ \A j \in (p + 4)..(b - 1) : t[j] = Blank
       /\ t[b] = Quote /\ t[b + len + 1] = Quote
       /\ At(t, b, e)
  BY <1>8 DEF Laid
<1>17. /\ k # Quote /\ k # Comma /\ k # Blank /\ k # Open /\ k # ":"
  BY <1>2, SyntaxIs DEF k
<1> HIDE DEF a, len
<1>18. /\ p \in 1..Len(t) /\ p + 1 \in 1..Len(t) /\ p + 2 \in 1..Len(t) /\ p + 3 \in 1..Len(t)
       /\ b \in 1..Len(t) /\ b + len + 1 \in 1..Len(t) /\ a \in 1..a
  <2>1. c \in Nat /\ g \in Nat /\ a \in Nat \ {0} /\ len \in Nat /\ Len(t) = b + len + 1
    BY <1>15, <1>16
  <2>2. p \in Nat \ {0} /\ b \in Nat /\ p + 4 <= b
    BY <2>1
  <2> HIDE DEF p, b
  <2>3. b < Len(t) /\ Len(t) \in Nat
    BY <2>1, <2>2
  <2>4. p \in 1..Len(t) /\ p + 1 \in 1..Len(t)
    BY <2>2, <2>3
  <2>5. p + 2 \in 1..Len(t) /\ p + 3 \in 1..Len(t)
    BY <2>2, <2>3
  <2>6. b \in 1..Len(t) /\ b + len + 1 \in 1..Len(t)
    BY <2>1, <2>2, <2>3
  <2>7. QED BY <2>1, <2>4, <2>5, <2>6
<1>19. /\ text[p] = Quote /\ text[p + 1] = k /\ text[p + 2] = Quote /\ text[p + 3] = ":"
       /\ text[b] = Quote /\ text[b + len + 1] = Quote
  BY <1>14, <1>16, <1>18
<1>20. \A j \in (p + 4)..(p + 3 + g) : text[j] = Blank
  <2> SUFFICES ASSUME NEW j \in (p + 4)..(p + 3 + g) PROVE text[j] = Blank
    OBVIOUS
  <2>1. j \in (p + 4)..(b - 1) /\ j \in 1..Len(t)
    BY <1>15, <1>16
  <2>2. QED BY <1>14, <1>16, <2>1
<1>21. At(text, b, e)
  <2>1. b + len <= Len(text)
    BY <1>14, <1>15, <1>16
  <2>2. ASSUME NEW j \in 1..len PROVE text[b + j] = e[j]
    <3>1. b + j \in 1..Len(t)
      <4>1. b \in Nat \ {0} /\ len \in Nat /\ Len(t) = b + len + 1
        BY <1>15, <1>16
      <4> HIDE DEF b, len
      <4>2. j \in Nat /\ 1 <= j /\ j <= len
        BY <2>2, <4>1
      <4>3. b + j \in Nat /\ 1 <= b + j /\ b + j <= Len(t)
        BY <4>1, <4>2
      <4>4. QED BY <4>3, <4>1
    <3>2. t[b + j] = e[j]
      BY <1>16 DEF At, len
    <3>3. QED BY <1>14, <3>1, <3>2
  <2>3. QED BY <2>1, <2>2 DEF At, len
<1>place. p \in Nat /\ p <= Len(t) /\ Len(t) \in Nat
  <2> HIDE DEF p, b
  <2>1. p \in 1..Len(t) /\ Len(t) \in Nat
    BY <1>14, <1>18
  <2>2. QED BY <2>1
<1>22. ASSUME NEW f \in 1..(p - 1), Matched(text, k, f), NEW j \in (f + 3)..(p - 1)
       PROVE  text[j] # ":"
  <2>1. text[f] = Quote /\ text[f + 1] = k /\ text[f + 2] = Quote
    BY <1>22 DEF Matched
  <2>2. f \in Nat \ {0} /\ f <= p - 1
    <3> HIDE DEF p
    <3>1. QED BY <1>place
  <2>3. f + 1 \in 1..Len(t)
    <3> HIDE DEF p
    <3>1. QED BY <2>2, <1>place
  <2>4. f + 1 # p
    BY <1>17, <1>19, <2>1
  <2>5. ~(f + 1 \in (a + 1)..(p - 1))
    BY <1>14, <1>16, <1>17, <2>1, <2>3
  <2>6. f + 1 # a
    <3>1. s[a] # k
      BY <1>15, <1>17
    <3>2. QED BY <1>14, <1>16, <1>18, <2>1, <2>3, <3>1
  <2>7. f + 1 < a
    BY <1>15, <2>2, <2>4, <2>5, <2>6
  <2>8. f \in 1..a /\ f + 1 \in 1..a /\ f + 2 \in 1..a /\ f \in 1..(a - 2)
        /\ \A x \in 1..a : x \in 1..Len(t)
    BY <1>15, <1>16, <2>2, <2>7
  <2>9. Matched(s, k, f)
    BY <1>14, <1>16, <2>1, <2>8 DEF Matched, a
  <2>10. CASE j <= a
    <3>1. j \in (f + 3)..a /\ j \in 1..a
      BY <1>15, <2>2, <2>10
    <3>2. s[j] # ":"
      BY <1>10, <2>9, <3>1 DEF Late, a
    <3>3. QED BY <1>14, <1>16, <2>8, <3>1, <3>2
  <2>11. CASE ~(j <= a)
    <3>1. j \in (a + 1)..(p - 1) /\ j \in 1..Len(t)
      BY <1>15, <1>18, <2>2, <2>11
    <3>2. Comma # ":" /\ Blank # ":"
      BY Zenon DEF Comma, Blank
    <3>3. QED BY <1>14, <1>16, <3>1, <3>2
  <2>12. QED BY <2>10, <2>11
<1>23. p \in Nat \ {0} /\ b + len + 1 <= Len(text)
  BY <1>14, <1>15, <1>16
<1> HIDE DEF p
<1>24. ExtractJsonString(text, k) = e
  BY <1>7, <1>13, <1>17, <1>19, <1>20, <1>21, <1>22, <1>23, ReadsAt DEF len
<1>25. QED BY <1>24 DEF text, k, e

(* What is read of a member that is not there.                             *)
LEMMA ReadsAbsent ==
  ASSUME NEW C, NEW keys, NEW members, Plain(C, keys, members), NEW gap \in Gaps,
         NEW k, k \notin Syntax, \A i \in DOMAIN keys : keys[i] \in DOMAIN members => keys[i] # k,
         Legible(keys, members, k)
  PROVE  ExtractJsonString(WriteObject(keys, members, gap), k) = <<>>
<1> DEFINE n == Len(keys)
           text == WriteObject(keys, members, gap)
<1>1. n \in Nat /\ DOMAIN keys = 1..n /\ Syntax \subseteq C
  BY LenProperties DEF Plain
<1>2. PICK grown \in [0..n -> Seq(C)] :
           /\ Grown(grown, <<Open>>, PartsOf(keys, members, gap))
           /\ text = Joined(grown[n], <<Close>>)
           /\ PartsOf(keys, members, gap) \in Seq(Seq(C)) /\ Len(PartsOf(keys, members, gap)) = n
  BY ObjectGrows
<1> DEFINE s == grown[n]
<1>3. s \in Seq(C) /\ n \in 0..n
  BY <1>1, <1>2
<1>4. NoneIs(keys, members, n, k) /\ LastShows(keys, members, n, k)
  BY <1>1 DEF NoneIs, LastShows, Present, Legible
<1>5. Ended(s) /\ Late(s, k)
  BY <1>2, <1>3, <1>4, BeforeMember
<1> DEFINE z == <<Close>>
<1>6. z \in Seq(C) /\ Len(z) = 1 /\ z[1] = Close
  BY <1>1, SyntaxIs
<1> HIDE DEF z
<1>7. text = s \o z
  BY <1>2 DEF Joined, z
<1> HIDE DEF s, text
<1>8. text \in Seq(C) /\ Len(text) = Len(s) + 1 /\ At(text, 0, s) /\ At(text, Len(s), z)
  <2>1. text \in Seq(C)
    BY <1>3, <1>6, <1>7, ConcatProperties
  <2>2. QED BY <1>3, <1>6, <1>7, <2>1, AtConcat
<1> DEFINE a == Len(s)
<1>9. a \in Nat \ {0} /\ (\A j \in 1..a : text[j] = s[j]) /\ text[a + 1] = Close
  <2>1. a \in Nat \ {0}
    BY <1>5 DEF Ended
  <2>2. \A j \in 1..a : text[0 + j] = s[j]
    BY <1>8 DEF At
  <2>3. text[a + 1] = z[1]
    BY <1>6, <1>8 DEF At
  <2>4. QED BY <1>6, <2>1, <2>2, <2>3
<1> HIDE DEF a
<1>10. Len(text) = a + 1
  BY <1>8 DEF a
<1>11. Close # Quote /\ Close # ":"
  BY Zenon DEF Close, Quote
<1>12. ASSUME NEW f, Matched(text, k, f), NEW j \in (f + 3)..Len(text) PROVE text[j] # ":"
  <2>1. f \in 1..(a - 1) /\ text[f] = Quote /\ text[f + 1] = k /\ text[f + 2] = Quote
    <3>1. (a + 1) - 2 = a - 1
      BY <1>9
    <3>2. QED BY <1>10, <1>12, <3>1 DEF Matched
  <2>2. f + 2 # a + 1
    BY <1>9, <1>11, <2>1
  <2>3. f \in 1..(a - 2) /\ f \in 1..a /\ f + 1 \in 1..a /\ f + 2 \in 1..a
    BY <1>9, <2>1, <2>2
  <2>4. Matched(s, k, f)
    BY <1>9, <2>1, <2>3 DEF Matched, a
  <2>5. CASE j = a + 1
    BY <1>9, <1>11, <2>5
  <2>6. CASE j # a + 1
    <3>1. j \in (f + 3)..a /\ j \in 1..a
      BY <1>9, <1>10, <2>3, <2>6
    <3>2. s[j] # ":"
      BY <1>5, <2>4, <3>1 DEF Late, a
    <3>3. QED BY <1>9, <3>1, <3>2
  <2>7. QED BY <2>5, <2>6
<1>13. ExtractJsonString(text, k) = <<>>
  BY <1>8, <1>12, ReadsNone
<1>14. QED BY <1>13 DEF text

-----------------------------------------------------------------------------
(* What the scan reads of the clients' requests and messages.              *)

RequestKeys == {"cmd", "name", "identity"}

(* The clients' keys are no syntax.                                        *)
LEMMA KeysPlain ==
  /\ \A k \in RequestKeys \cup {"target"} : k \notin Syntax
  /\ \A x \in {Comma, ":", Open, Close, Blank} : x # Quote
<1>1. \A k \in RequestKeys \cup {"target"} :
        /\ k # Quote /\ k # Backslash /\ k # Comma /\ k # ":" /\ k # Open /\ k # Close
        /\ k # Blank /\ k # "\t" /\ k # "\n" /\ k # "\r"
  BY Zenon DEF RequestKeys, Quote, Backslash, Comma, Open, Close, Blank
<1>2. \A x \in {Comma, ":", Open, Close, Blank} : x # Quote
  BY Zenon DEF Quote, Comma, Open, Close, Blank
<1>3. \A k \in RequestKeys \cup {"target"} : k \notin Syntax
  BY <1>1, Zenon DEF Syntax, Blanks
<1>4. QED BY <1>2, <1>3

(* The scan (ExtractJsonString) finds in the text of a JSON object what a  *)
(* JSON parser would, whatever the values hold, escapes left in, as long   *)
(* as no value shows the key too early; of a member that is not there it   *)
(* finds nothing.                                                          *)
THEOREM Scanning ==
  ASSUME NEW C, NEW keys, NEW members, Plain(C, keys, members), NEW gap \in Gaps,
         DOMAIN members \subseteq Range(keys), NEW k, k \notin Syntax, Legible(keys, members, k)
  PROVE  ExtractJsonString(WriteObject(keys, members, gap), k) = Escape(Field(members, k))
<1>1. CASE k \in DOMAIN members
  <2>1. PICK i \in DOMAIN keys : keys[i] = k
    BY <1>1 DEF Range
  <2>2. QED BY <1>1, <2>1, ReadsMember DEF Field
<1>2. CASE k \notin DOMAIN members
  <2>1. \A i \in DOMAIN keys : keys[i] \in DOMAIN members => keys[i] # k
    BY <1>2
  <2>2. ExtractJsonString(WriteObject(keys, members, gap), k) = <<>>
    BY <2>1, ReadsAbsent
  <2>3. Escape(Field(members, k)) = <<>>
    BY <1>2, EscapeEmpty DEF Field, Empty
  <2>4. QED BY <2>2, <2>3
<1>3. QED BY <1>1, <1>2

(* A request that begins with its command is legible whatever the name and *)
(* the identity are: before each of these stands one other value besides   *)
(* the command at most.                                                    *)
THEOREM AnyValueLegible ==
  ASSUME NEW S, NEW keys \in Seq(S), IsInjective(keys), keys[1] = "cmd",
         NEW call, DOMAIN call \subseteq RequestKeys, "cmd" \in DOMAIN call,
         NEW k \in RequestKeys, ~Shows(call["cmd"], k)
  PROVE  Legible(keys, call, k)
<1> DEFINE written == {i \in DOMAIN keys : keys[i] \in DOMAIN call}
<1>1. DOMAIN keys = 1..Len(keys) /\ Len(keys) \in Nat
  BY LenProperties
<1>2. SUFFICES ASSUME NEW i \in written, NEW j \in written, i < j,
                      \A l \in written : l <= j => keys[l] # k
               PROVE  ~Shows(call[keys[i]], k)
  BY DEF Legible
<1>3. 1 \in written /\ i \in Nat /\ j \in Nat /\ i >= 1
  BY <1>1
<1>4. k # "cmd" /\ keys[i] # k /\ keys[j] # k
  BY <1>1, <1>2, <1>3
<1>5. keys[i] # keys[j] /\ keys[i] \in RequestKeys /\ keys[j] \in RequestKeys
  BY <1>2, <1>3 DEF IsInjective
<1>6. keys[i] = "cmd" \/ keys[j] = "cmd"
  BY <1>4, <1>5 DEF RequestKeys
<1>7. keys[j] # "cmd"
  BY <1>1, <1>2, <1>3 DEF IsInjective
<1>8. QED BY <1>6, <1>7

(* Everything the clients write, keys and syntax included.                 *)
Alphabet == Chars \cup Syntax \cup RequestKeys

(* The clients' objects are of that kind.                                  *)
LEMMA ClientsPlain ==
  ASSUME NEW keys \in KeyOrders, NEW members \in Calls \cup Posts
  PROVE  Plain(Alphabet, keys, members) /\ DOMAIN members \subseteq Range(keys)
<1>1. keys \in Seq(Chars \ Syntax) /\ IsInjective(keys) /\ DOMAIN members \subseteq Range(keys)
  BY KeysAssumption
<1>2. \A k \in DOMAIN members : members[k] \in Seq(Chars)
  BY TextsAssumption
<1>3. Chars \subseteq Alphabet /\ Chars \ Syntax \subseteq Alphabet \ Syntax /\ Syntax \subseteq Alphabet
  BY DEF Alphabet
<1>4. keys \in Seq(Alphabet \ Syntax) /\ \A k \in DOMAIN members : members[k] \in Seq(Alphabet)
  BY <1>1, <1>2, <1>3, SeqWider
<1>5. QED BY <1>1, <1>3, <1>4 DEF Plain, IsInjective

(* A request of the JSON client.                                           *)
LEMMA CallRead ==
  ASSUME NEW c \in Calls, NEW keys \in KeyOrders, NEW gap \in Gaps, NEW k \in RequestKeys
  PROVE  Request(c, keys, gap).found[k] = Escape(Request(c, keys, gap).meant[k])
<1>1. Plain(Alphabet, keys, c) /\ DOMAIN c \subseteq Range(keys)
  BY ClientsPlain
<1>2. k \notin Syntax
  BY KeysPlain
<1>3. Legible(keys, c, k)
  BY LegibleAssumption DEF RequestKeys
<1>4. ExtractJsonString(WriteObject(keys, c, gap), k) = Escape(Field(c, k))
  BY <1>1, <1>2, <1>3, Scanning
<1> DEFINE text == WriteObject(keys, c, gap)
<1> HIDE DEF text
<1>5. Fields(text)[k] = ExtractJsonString(text, k)
  BY DEF Fields, RequestKeys
<1>6. Request(c, keys, gap).found = Fields(text) /\ Request(c, keys, gap).meant[k] = Field(c, k)
  BY DEF Request, text, RequestKeys
<1>7. QED BY <1>4, <1>5, <1>6 DEF text

(* A message of the JSON client.                                           *)
LEMMA PostRead ==
  ASSUME NEW m \in Posts, NEW keys \in KeyOrders, NEW gap \in Gaps
  PROVE  ExtractJsonString(WriteObject(keys, m, gap), "target") = Escape(Field(m, "target"))
<1>1. Plain(Alphabet, keys, m) /\ DOMAIN m \subseteq Range(keys)
  BY ClientsPlain
<1>2. "target" \notin Syntax
  BY KeysPlain
<1>3. Legible(keys, m, "target")
  BY LegibleAssumption
<1>4. QED BY <1>1, <1>2, <1>3, Scanning

(* The registration of a stress test has no value that shows a key.        *)
LEMMA RegistrationMeant ==
  ASSUME NEW t \in Testers, NEW k \in RequestKeys
  PROVE  Registration(t).found[k] = Escape(Registration(t).meant[k])
<1> DEFINE keys == <<"cmd", "identity", "name">>
           word == <<"register">>
           call == [cmd |-> word, name |-> t, identity |-> t]
<1>1. keys \in Seq(RequestKeys) /\ Len(keys) = 3 /\ DOMAIN keys = 1..3
      /\ keys[1] = "cmd" /\ keys[2] = "identity" /\ keys[3] = "name"
  BY DEF RequestKeys
<1>2. DOMAIN call = RequestKeys /\ call["cmd"] = word /\ call["name"] = t /\ call["identity"] = t
  BY DEF RequestKeys
<1>3. word \in Seq(Chars) /\ t \in Seq(Chars)
  <2>1. Chars \ {Quote, Backslash} \subseteq Chars
    OBVIOUS
  <2>2. QED BY <2>1, TestersAssumption, SeqWider
<1>4. Len(word) = 1 /\ word[1] = "register"
  OBVIOUS
<1>5. Request(call, keys, Empty) = Registration(t)
  BY DEF Registration
<1> HIDE DEF keys, word, call
<1>6. Range(keys) = RequestKeys
  BY <1>1 DEF Range, RequestKeys
<1>7. Plain(Alphabet, keys, call)
  <2>1. RequestKeys \subseteq Alphabet \ Syntax /\ Chars \subseteq Alphabet /\ Syntax \subseteq Alphabet
    BY KeysPlain DEF Alphabet
  <2>2. keys \in Seq(Alphabet \ Syntax)
    BY <1>1, <2>1, SeqWider
  <2>3. \A i, j \in DOMAIN keys : keys[i] = keys[j] => i = j
    BY <1>1
  <2>4. \A x \in DOMAIN call : call[x] \in Seq(Alphabet)
    BY <1>2, <1>3, <2>1, SeqWider DEF RequestKeys
  <2>5. QED BY <2>1, <2>2, <2>3, <2>4 DEF Plain
<1>8. Legible(keys, call, k)
  <2>1. word[Len(word)] # k
    BY <1>4 DEF RequestKeys
  <2>2. ~Shows(call["cmd"], k)
    BY <1>2, <2>1 DEF Shows
  <2>3. keys \in Seq(RequestKeys) /\ IsInjective(keys) /\ "cmd" \in DOMAIN call
    BY <1>1, <1>2 DEF IsInjective, RequestKeys
  <2>4. QED BY <1>1, <1>2, <2>2, <2>3, AnyValueLegible
<1>9. k \notin Syntax /\ Empty \in Gaps
  BY KeysPlain DEF Gaps
<1>10. ExtractJsonString(WriteObject(keys, call, Empty), k) = Escape(Field(call, k))
  BY <1>2, <1>6, <1>7, <1>8, <1>9, Scanning
<1> DEFINE text == WriteObject(keys, call, Empty)
<1> HIDE DEF text
<1>11. Fields(text)[k] = ExtractJsonString(text, k)
  BY DEF Fields, RequestKeys
<1>12. Registration(t).found = Fields(text) /\ Registration(t).meant[k] = Field(call, k)
  BY <1>5 DEF Request, text, RequestKeys
<1>13. QED BY <1>10, <1>11, <1>12 DEF text

-----------------------------------------------------------------------------
(* The tables of the gateway and of one with a JSON parser.                *)

(* The scan finds in a request what it says, with the escapes left in.     *)
ReadAs(r) ==
  \A k \in RequestKeys : r.meant[k] \in Seq(Chars) /\ r.found[k] = Escape(r.meant[k])

(* The gateway's table is the book with its texts escaped.                 *)
Kept(table, kept) ==
  /\ DOMAIN kept \subseteq Seq(Chars) \ {Empty}
  /\ \A n \in DOMAIN kept : kept[n] \in Seq(Chars)
  /\ DOMAIN table = {Escape(n) : n \in DOMAIN kept}
  /\ \A n \in DOMAIN kept : table[Escape(n)] = Escape(kept[n])

(* Everything the gateway compares texts with.                             *)
Words == {"register", "unregister", "list", "stats"}

(* A word of the protocol needs no escapes.                                *)
LEMMA EscapeWord == ASSUME NEW w \in Words PROVE Escape(<<w>>) = <<w>>
<1>1. w \notin {Quote, Backslash}
  BY DEF Words, Quote, Backslash
<1>2. QED BY <1>1, EscapeSingle DEF Escaped

(* Two texts are escaped alike if they are one.                            *)
LEMMA EscapedAlike ==
  ASSUME NEW u \in Seq(Chars), NEW v \in Seq(Chars)
  PROVE  Escape(u) = Escape(v) <=> u = v
  BY EscapeInjective

(* A word is read where it was written and nowhere else,                   *)
LEMMA WordRead ==
  ASSUME NEW w \in Words, NEW v \in Seq(Chars)
  PROVE  Escape(v) = <<w>> <=> v = <<w>>
<1> DEFINE C == Chars \cup Words
<1>1. v \in Seq(C) /\ <<w>> \in Seq(C)
  <2>1. Chars \subseteq C /\ <<w>> \in Seq(C)
    OBVIOUS
  <2> HIDE DEF C
  <2>2. QED BY <2>1, SeqWider
<1> HIDE DEF C
<1>2. QED BY <1>1, EscapeInjective, EscapeWord

(* and so is nothing.                                                      *)
LEMMA EmptyRead ==
  ASSUME NEW v \in Seq(Chars) PROVE Escape(v) = Empty <=> v = Empty
<1>1. Empty \in Seq(Chars)
  BY EmptySeq DEF Empty
<1>2. QED BY <1>1, EscapeInjective, EscapeEmpty DEF Empty

(* A message that begins with a word.                                      *)
LEMMA MessageEscaped ==
  ASSUME NEW v \in Seq(Chars), NEW w, w \notin {Quote, Backslash}
  PROVE  Escape(<<w>> \o v) = <<w>> \o Escape(v)
<1> DEFINE C == Chars \cup {w}
<1>1. v \in Seq(C) /\ <<w>> \in Seq(C)
  <2>1. Chars \subseteq C /\ <<w>> \in Seq(C)
    OBVIOUS
  <2> HIDE DEF C
  <2>2. QED BY <2>1, SeqWider
<1>2. Escape(<<w>>) = <<w>>
  BY EscapeSingle DEF Escaped
<1> HIDE DEF C
<1>3. QED BY <1>1, <1>2, EscapeConcat

-----------------------------------------------------------------------------
(* Both tables are asked the same.                                         *)

(* A name is in both tables or in none.                                    *)
LEMMA KeptIn ==
  ASSUME NEW table, NEW kept, Kept(table, kept), NEW n \in Seq(Chars)
  PROVE  Escape(n) \in DOMAIN table <=> n \in DOMAIN kept
<1>1. DOMAIN kept \subseteq Seq(Chars) /\ DOMAIN table = {Escape(m) : m \in DOMAIN kept}
  BY DEF Kept
<1>2. ASSUME NEW m \in DOMAIN kept, Escape(n) = Escape(m) PROVE n = m
  BY <1>1, <1>2, EscapeInjective
<1>3. QED BY <1>1, <1>2

(* A registration at both tables.                                          *)
LEMMA KeptWith ==
  ASSUME NEW table, NEW kept, Kept(table, kept), NEW n \in Seq(Chars) \ {Empty}, NEW d \in Seq(Chars)
  PROVE  Kept(With(table, Escape(n), Escape(d)), With(kept, n, d))
<1> DEFINE new == With(table, Escape(n), Escape(d))
           now == With(kept, n, d)
<1>1. DOMAIN now = DOMAIN kept \cup {n} /\ DOMAIN new = DOMAIN table \cup {Escape(n)}
  BY DEF With
<1>2. \A m \in DOMAIN now : now[m] = IF m = n THEN d ELSE kept[m]
  BY DEF With
<1>3. \A x \in DOMAIN new : new[x] = IF x = Escape(n) THEN Escape(d) ELSE table[x]
  BY DEF With
<1>4. /\ DOMAIN kept \subseteq Seq(Chars) \ {Empty} /\ \A m \in DOMAIN kept : kept[m] \in Seq(Chars)
      /\ DOMAIN table = {Escape(m) : m \in DOMAIN kept}
      /\ \A m \in DOMAIN kept : table[Escape(m)] = Escape(kept[m])
  BY DEF Kept
<1> HIDE DEF new, now
<1>5. DOMAIN now \subseteq Seq(Chars) \ {Empty} /\ \A m \in DOMAIN now : now[m] \in Seq(Chars)
  BY <1>1, <1>2, <1>4
<1>6. DOMAIN new = {Escape(m) : m \in DOMAIN now}
  BY <1>1, <1>4
<1>7. ASSUME NEW m \in DOMAIN now PROVE new[Escape(m)] = Escape(now[m])
  <2>1. Escape(m) \in DOMAIN new
    BY <1>6
  <2>2. CASE m = n
    BY <1>2, <1>3, <2>1, <2>2
  <2>3. CASE m # n
    <3>1. m \in DOMAIN kept /\ m \in Seq(Chars)
      BY <1>1, <1>5, <2>3
    <3>2. Escape(m) # Escape(n)
      BY <2>3, <3>1, EscapeInjective
    <3>3. QED BY <1>2, <1>3, <1>4, <2>1, <2>3, <3>1, <3>2
  <2>4. QED BY <2>2, <2>3
<1>8. QED BY <1>5, <1>6, <1>7 DEF Kept, new, now

(* Its end at both.                                                        *)
LEMMA KeptWithout ==
  ASSUME NEW table, NEW kept, Kept(table, kept), NEW n \in Seq(Chars)
  PROVE  Kept(Restrict(table, DOMAIN table \ {Escape(n)}), Restrict(kept, DOMAIN kept \ {n}))
<1> DEFINE new == Restrict(table, DOMAIN table \ {Escape(n)})
           now == Restrict(kept, DOMAIN kept \ {n})
<1>1. DOMAIN now = DOMAIN kept \ {n} /\ DOMAIN new = DOMAIN table \ {Escape(n)}
  BY DEF Restrict
<1>2. (\A m \in DOMAIN now : now[m] = kept[m]) /\ \A x \in DOMAIN new : new[x] = table[x]
  BY DEF Restrict
<1>3. /\ DOMAIN kept \subseteq Seq(Chars) \ {Empty} /\ \A m \in DOMAIN kept : kept[m] \in Seq(Chars)
      /\ DOMAIN table = {Escape(m) : m \in DOMAIN kept}
      /\ \A m \in DOMAIN kept : table[Escape(m)] = Escape(kept[m])
  BY DEF Kept
<1> HIDE DEF new, now
<1>4. \A m \in DOMAIN kept : m # n => Escape(m) # Escape(n)
  BY <1>3, EscapeInjective
<1>5. DOMAIN new = {Escape(m) : m \in DOMAIN now}
  BY <1>1, <1>3, <1>4
<1>6. \A m \in DOMAIN now : new[Escape(m)] = Escape(now[m])
  BY <1>1, <1>2, <1>3, <1>5
<1>7. DOMAIN now \subseteq Seq(Chars) \ {Empty} /\ \A m \in DOMAIN now : now[m] \in Seq(Chars)
  BY <1>1, <1>2, <1>3
<1>8. QED BY <1>5, <1>6, <1>7 DEF Kept, new, now

-----------------------------------------------------------------------------
(* One request at both tables.                                             *)

(* Answers of which one has the texts of the other escaped.                *)
Alike(a, b) ==
  /\ a.success = b.success /\ a.message = Escape(b.message) /\ a.event = b.event
  /\ a.event \in {Empty, <<"register">>, <<"unregister">>}
  /\ a.listed = {Escape(n) : n \in b.listed}
  /\ Kept(a.table, b.table)

(* Alike in every part.                                                    *)
LEMMA AnswersAlike ==
  ASSUME NEW success, NEW message, NEW said, said = Escape(message),
         NEW event \in {Empty, <<"register">>, <<"unregister">>},
         NEW listed, NEW names, listed = {Escape(n) : n \in names},
         NEW table, NEW kept, Kept(table, kept)
  PROVE  Alike(Answer(success, said, event, listed, table), Answer(success, message, event, names, kept))
  BY DEF Alike, Answer

(* Refusals.                                                               *)
LEMMA RefusalsAlike ==
  ASSUME NEW message, NEW said, said = Escape(message), NEW table, NEW kept, Kept(table, kept)
  PROVE  Alike(Refused(said, table), Refused(message, kept))
<1>1. {} = {Escape(n) : n \in {}}
  OBVIOUS
<1>2. QED BY <1>1, AnswersAlike DEF Refused

(* A message that needs no escapes.                                        *)
LEMMA MessageIs ==
  ASSUME NEW w \in {"missing name", "missing identity", "missing cmd", "registered", "updated",
                    "unregistered", "ok"}
  PROVE  Escape(<<w>>) = <<w>>
<1>1. w \notin {Quote, Backslash}
  BY DEF Quote, Backslash
<1>2. QED BY <1>1, EscapeSingle DEF Escaped

(* Every request is handled alike at both tables.                          *)
LEMMA HandledAlike ==
  ASSUME NEW f, NEW m, NEW table, NEW kept, Kept(table, kept),
         \A k \in RequestKeys : m[k] \in Seq(Chars) /\ f[k] = Escape(m[k])
  PROVE  Alike(Handled(f, table), Handled(m, kept))
<1>1. /\ m.cmd \in Seq(Chars) /\ m.name \in Seq(Chars) /\ m.identity \in Seq(Chars)
      /\ f.cmd = Escape(m.cmd) /\ f.name = Escape(m.name) /\ f.identity = Escape(m.identity)
  BY DEF RequestKeys
<1>2. /\ f.name = Empty <=> m.name = Empty
      /\ f.identity = Empty <=> m.identity = Empty
      /\ f.cmd = Empty <=> m.cmd = Empty
  BY <1>1, EmptyRead
<1>3. /\ f.cmd = <<"register">> <=> m.cmd = <<"register">>
      /\ f.cmd = <<"unregister">> <=> m.cmd = <<"unregister">>
      /\ f.cmd = <<"list">> <=> m.cmd = <<"list">>
      /\ f.cmd = <<"stats">> <=> m.cmd = <<"stats">>
  BY <1>1, WordRead DEF Words
<1>4. /\ <<"register">> # <<"unregister">> /\ <<"register">> # <<"list">> /\ <<"register">> # <<"stats">>
      /\ <<"unregister">> # <<"list">> /\ <<"unregister">> # <<"stats">> /\ <<"list">> # <<"stats">>
      /\ <<"register">> # Empty /\ <<"unregister">> # Empty /\ <<"list">> # Empty /\ <<"stats">> # Empty
  BY DEF Empty
<1>5. CASE m.cmd = <<"register">> /\ m.name = Empty
  <2>1. Handled(f, table) = Refused(<<"missing name">>, table)
    BY <1>2, <1>3, <1>4, <1>5 DEF Handled
  <2>2. Handled(m, kept) = Refused(<<"missing name">>, kept)
    BY <1>4, <1>5 DEF Handled
  <2>3. QED BY <2>1, <2>2, RefusalsAlike, MessageIs
<1>6. CASE m.cmd = <<"register">> /\ m.name # Empty /\ m.identity = Empty
  <2>1. Handled(f, table) = Refused(<<"missing identity">>, table)
    BY <1>2, <1>3, <1>4, <1>6 DEF Handled
  <2>2. Handled(m, kept) = Refused(<<"missing identity">>, kept)
    BY <1>4, <1>6 DEF Handled
  <2>3. QED BY <2>1, <2>2, RefusalsAlike, MessageIs
<1>7. CASE m.cmd = <<"register">> /\ m.name # Empty /\ m.identity # Empty
  <2> DEFINE Done(g, t) ==
               Answer("true", IF g.name \notin DOMAIN t THEN <<"registered">> ELSE <<"updated">>,
                      IF g.name \notin DOMAIN t THEN <<"register">> ELSE Empty, {},
                      With(t, g.name, g.identity))
  <2>1. Handled(f, table) = Done(f, table)
    BY <1>2, <1>3, <1>4, <1>7 DEF Handled
  <2>2. Handled(m, kept) = Done(m, kept)
    BY <1>4, <1>7 DEF Handled
  <2>3. Kept(With(table, f.name, f.identity), With(kept, m.name, m.identity))
    BY <1>1, <1>7, KeptWith
  <2>4. f.name \in DOMAIN table <=> m.name \in DOMAIN kept
    BY <1>1, KeptIn
  <2>5. {} = {Escape(n) : n \in {}}
    OBVIOUS
  <2>6. <<"registered">> = Escape(<<"registered">>) /\ <<"updated">> = Escape(<<"updated">>)
    BY MessageIs
  <2>7. CASE m.name \in DOMAIN kept
    <3> DEFINE new == With(table, f.name, f.identity)
               now == With(kept, m.name, m.identity)
    <3>1. Done(f, table) = Answer("true", <<"updated">>, Empty, {}, new)
          /\ Done(m, kept) = Answer("true", <<"updated">>, Empty, {}, now)
      BY <2>4, <2>7
    <3> HIDE DEF Done, new, now
    <3>2. Alike(Answer("true", <<"updated">>, Empty, {}, new), Answer("true", <<"updated">>, Empty, {}, now))
      BY <2>3, <2>5, <2>6, AnswersAlike DEF new, now
    <3>3. QED BY <2>1, <2>2, <3>1, <3>2
  <2>8. CASE m.name \notin DOMAIN kept
    <3> DEFINE new == With(table, f.name, f.identity)
               now == With(kept, m.name, m.identity)
    <3>1. Done(f, table) = Answer("true", <<"registered">>, <<"register">>, {}, new)
          /\ Done(m, kept) = Answer("true", <<"registered">>, <<"register">>, {}, now)
      BY <2>4, <2>8
    <3> HIDE DEF Done, new, now
    <3>2. Alike(Answer("true", <<"registered">>, <<"register">>, {}, new),
                Answer("true", <<"registered">>, <<"register">>, {}, now))
      BY <2>3, <2>5, <2>6, AnswersAlike DEF new, now
    <3>3. QED BY <2>1, <2>2, <3>1, <3>2
  <2>9. QED BY <2>7, <2>8
<1>8. CASE m.cmd = <<"unregister">> /\ m.name = Empty
  <2>1. Handled(f, table) = Refused(<<"missing name">>, table)
    BY <1>2, <1>3, <1>4, <1>8 DEF Handled
  <2>2. Handled(m, kept) = Refused(<<"missing name">>, kept)
    BY <1>4, <1>8 DEF Handled
  <2>3. QED BY <2>1, <2>2, RefusalsAlike, MessageIs
<1>9. CASE m.cmd = <<"unregister">> /\ m.name # Empty
  <2>1. Handled(f, table) = Answer("true", <<"unregistered">>, <<"unregister">>, {},
                                   Restrict(table, DOMAIN table \ {f.name}))
    BY <1>2, <1>3, <1>4, <1>9 DEF Handled
  <2>2. Handled(m, kept) = Answer("true", <<"unregistered">>, <<"unregister">>, {},
                                  Restrict(kept, DOMAIN kept \ {m.name}))
    BY <1>4, <1>9 DEF Handled
  <2>3. Kept(Restrict(table, DOMAIN table \ {f.name}), Restrict(kept, DOMAIN kept \ {m.name}))
    BY <1>1, KeptWithout
  <2>4. {} = {Escape(n) : n \in {}}
    OBVIOUS
  <2>5. <<"unregistered">> = Escape(<<"unregistered">>)
    BY MessageIs
  <2>6. QED BY <2>1, <2>2, <2>3, <2>4, <2>5, AnswersAlike
<1>10. CASE m.cmd = <<"list">>
  <2>1. Handled(f, table) = Answer("true", <<"ok">>, Empty, DOMAIN table, table)
    BY <1>3, <1>4, <1>10 DEF Handled
  <2>2. Handled(m, kept) = Answer("true", <<"ok">>, Empty, DOMAIN kept, kept)
    BY <1>4, <1>10 DEF Handled
  <2>3. DOMAIN table = {Escape(n) : n \in DOMAIN kept}
    BY DEF Kept
  <2>4. <<"ok">> = Escape(<<"ok">>)
    BY MessageIs
  <2> DEFINE names == DOMAIN kept
             listed == DOMAIN table
  <2> HIDE DEF names, listed
  <2>5. Alike(Answer("true", <<"ok">>, Empty, listed, table), Answer("true", <<"ok">>, Empty, names, kept))
    BY <2>3, <2>4, AnswersAlike DEF names, listed
  <2>6. QED BY <2>1, <2>2, <2>5 DEF names, listed
<1>11. CASE m.cmd = <<"stats">>
  <2>1. Handled(f, table) = Answer("true", <<"ok">>, Empty, {}, table)
    BY <1>3, <1>4, <1>11 DEF Handled
  <2>2. Handled(m, kept) = Answer("true", <<"ok">>, Empty, {}, kept)
    BY <1>4, <1>11 DEF Handled
  <2>3. {} = {Escape(n) : n \in {}}
    OBVIOUS
  <2>4. <<"ok">> = Escape(<<"ok">>)
    BY MessageIs
  <2>5. QED BY <2>1, <2>2, <2>3, <2>4, AnswersAlike
<1>12. CASE m.cmd = Empty
  <2>1. Handled(f, table) = Refused(<<"missing cmd">>, table)
    BY <1>2, <1>4, <1>12 DEF Handled
  <2>2. Handled(m, kept) = Refused(<<"missing cmd">>, kept)
    BY <1>4, <1>12 DEF Handled
  <2>3. QED BY <2>1, <2>2, RefusalsAlike, MessageIs
<1>13. CASE m.cmd \notin {<<"register">>, <<"unregister">>, <<"list">>, <<"stats">>, Empty}
  <2>1. Handled(f, table) = Refused(<<"unknown command: ">> \o f.cmd, table)
    BY <1>2, <1>3, <1>13 DEF Handled
  <2>2. Handled(m, kept) = Refused(<<"unknown command: ">> \o m.cmd, kept)
    BY <1>13 DEF Handled
  <2>3. <<"unknown command: ">> \o f.cmd = Escape(<<"unknown command: ">> \o m.cmd)
    <3>1. "unknown command: " \notin {Quote, Backslash}
      BY DEF Quote, Backslash
    <3>2. QED BY <1>1, <3>1, MessageEscaped
  <2>4. QED BY <2>1, <2>2, <2>3, RefusalsAlike
<1>14. QED BY <1>5, <1>6, <1>7, <1>8, <1>9, <1>10, <1>11, <1>12, <1>13

(* What is written for alike answers is the same.                          *)
LEMMA WrittenAlike ==
  ASSUME NEW a, NEW b, Alike(a, b), NEW name \in Seq(Chars)
  PROVE  Written(a, Escape(name)) = Proper(b, name)
<1>1. BuildJsonResponse(a.success, a.message) = BuildJsonResponse(b.success, Escape(b.message))
  BY DEF Alike
<1>2. {<<Quote>> \o n \o <<Quote>> : n \in a.listed} = {WriteString(n) : n \in b.listed}
  <2>1. a.listed = {Escape(n) : n \in b.listed}
    BY DEF Alike
  <2> DEFINE Quoted(n) == <<Quote>> \o n \o <<Quote>>
  <2>2. \A n : WriteString(n) = Quoted(Escape(n))
    BY DEF WriteString
  <2> HIDE DEF Quoted
  <2>3. {Quoted(n) : n \in a.listed} = {WriteString(n) : n \in b.listed}
    BY <2>1, <2>2
  <2>4. QED BY <2>3 DEF Quoted
<1>3. ASSUME a.event # Empty
      PROVE  Event(a.event, Escape(name))
               = WriteObject(<<"event", "name">>, [event |-> b.event, name |-> name], Empty)
  <2>1. PICK w \in {"register", "unregister"} : b.event = <<w>> /\ a.event = <<w>>
    BY <1>3 DEF Alike
  <2>2. Escape(<<w>>) = <<w>>
    BY EscapeWord DEF Words
  <2> DEFINE C == Chars \cup {w}
  <2>3. name \in Seq(C) /\ b.event \in Seq(C)
    <3>1. Chars \subseteq C /\ <<w>> \in Seq(C)
      OBVIOUS
    <3> HIDE DEF C
    <3>2. QED BY <2>1, <3>1, SeqWider
  <2> HIDE DEF C
  <2>4. QED BY <2>1, <2>2, <2>3, EventIs
<1>4. a.event = b.event
  BY DEF Alike
<1>5. QED BY <1>1, <1>2, <1>3, <1>4 DEF Written, Proper, Event

-----------------------------------------------------------------------------
(* The gateway is right again.                                             *)

(* The inductive invariant: the tables agree, and so did the last replies. *)
RightInv == Kept(clients, book) /\ RepliesRight

(* A request that is read as it was meant keeps it.                        *)
LEMMA ServedRight ==
  ASSUME RightInv, NEW r, ReadAs(r), Served(r)
  PROVE  RightInv'
<1> DEFINE a == Handled(r.found, clients)
           b == Handled(r.meant, book)
<1>1. Alike(a, b)
  BY HandledAlike DEF RightInv, ReadAs
<1>2. r.meant["name"] \in Seq(Chars) /\ r.found["name"] = Escape(r.meant["name"])
  BY DEF ReadAs, RequestKeys
<1>3. Written(a, r.found.name) = Proper(b, r.meant.name)
  <2> HIDE DEF a, b
  <2>1. QED BY <1>1, <1>2, WrittenAlike
<1>4. clients' = a.table /\ book' = b.table /\ reply' = Written(a, r.found.name)
      /\ expected' = Proper(b, r.meant.name)
  BY DEF Served
<1> HIDE DEF a, b
<1>5. Kept(a.table, b.table)
  BY <1>1 DEF Alike
<1>6. QED BY <1>3, <1>4, <1>5 DEF RightInv, RepliesRight, Kept

(* It holds at first,                                                      *)
LEMMA RightInit == ASSUME Init PROVE RightInv
<1>1. DOMAIN clients = {} /\ DOMAIN book = {}
  BY DEF Init, Empty
<1>2. QED BY <1>1 DEF Init, RightInv, Kept, RepliesRight

(* the requests of the JSON client are read so,                            *)
LEMMA RequestRead == ASSUME NEW r \in Requests PROVE ReadAs(r)
<1>1. PICK c \in Calls, keys \in KeyOrders, gap \in Gaps : r = Request(c, keys, gap)
  BY DEF Requests
<1>2. \A k \in RequestKeys : r.meant[k] = Field(c, k)
  BY <1>1 DEF Request, RequestKeys
<1>3. \A k \in RequestKeys : Field(c, k) \in Seq(Chars)
  BY TextsAssumption, EmptySeq DEF Field, Empty
<1>4. QED BY <1>1, <1>2, <1>3, CallRead DEF ReadAs

(* those of the stress tests too,                                          *)
LEMMA RegistrationRead == ASSUME NEW t \in Testers PROVE ReadAs(Registration(t))
<1> DEFINE call == [cmd |-> <<"register">>, name |-> t, identity |-> t]
           r == Registration(t)
<1>1. \A k \in RequestKeys : r.meant[k] = Field(call, k)
  BY DEF Registration, Request, RequestKeys
<1>2. \A k \in RequestKeys : Field(call, k) \in Seq(Chars)
  <2>1. DOMAIN call = RequestKeys /\ call["cmd"] = <<"register">> /\ call["name"] = t
        /\ call["identity"] = t
    BY DEF RequestKeys
  <2>2. t \in Seq(Chars) /\ <<"register">> \in Seq(Chars)
    BY TestersAssumption
  <2> HIDE DEF call
  <2>3. QED BY <2>1, <2>2 DEF Field, RequestKeys
<1>3. QED BY <1>1, <1>2, RegistrationMeant DEF ReadAs

(* and it stays.                                                           *)
LEMMA RightNext ==
  ASSUME RightInv, [Next]_vars
  PROVE  RightInv'
<1>1. CASE UNCHANGED gatewayVars
  BY <1>1 DEF gatewayVars, RightInv, RepliesRight, Kept
<1>2. CASE ClientCalls
  BY <1>2, RequestRead, ServedRight DEF ClientCalls
<1>3. ASSUME NEW t \in Testers, StressRegisters(t) \/ StressUnanswered(t) PROVE RightInv'
  BY <1>1, <1>3, RegistrationRead, ServedRight DEF StressRegisters, StressUnanswered
<1>4. CASE HandleRouterMessage \/ ClientPosts
  BY <1>1, <1>4 DEF HandleRouterMessage, ClientPosts
<1>5. ASSUME NEW t \in Testers, StressLoop(t) PROVE RightInv'
  BY <1>1, <1>5 DEF StressLoop, StressDue, StressSends, StressWaits, StressPollsNothing,
                    StressReceives, StressChecks
<1>6. CASE UNCHANGED vars
  BY <1>1, <1>6 DEF vars, gatewayVars
<1>7. QED BY <1>2, <1>3, <1>4, <1>5, <1>6 DEF Next

(* The replies and announcements of the gateway (HandleRepRequest), whose  *)
(* texts are scanned and not escaped, are those of a gateway with a JSON   *)
(* library: RepliesRight.                                                  *)
THEOREM Replying == Spec => []RepliesRight
<1>1. Init => RightInv
  BY RightInit
<1>2. RightInv /\ [Next]_vars => RightInv'
  BY RightNext
<1>3. RightInv => RepliesRight
  BY DEF RightInv
<1>4. QED BY <1>1, <1>2, <1>3, PTL DEF Spec

-----------------------------------------------------------------------------
(* What is sent, and to whom.                                              *)

(* The messages of the stress tests.                                       *)
StressLetters ==
  {[from |-> {t}, to |-> name, frames |-> <<name, Empty, <<"stress">>>>] :
     t \in Testers, name \in Targets}

(* A letter of the JSON client is read as it is meant.                     *)
LEMMA LetterRead ==
  ASSUME NEW m \in Letters
  PROVE  m.from = {} /\ m.to \in Seq(Chars) /\ Target(m.frames) = Escape(m.to)
<1>1. PICK p \in Posts, keys \in KeyOrders, gap \in Gaps :
           m = [from |-> {}, to |-> Field(p, "target"), frames |-> <<WriteObject(keys, p, gap)>>]
  BY DEF Letters
<1> DEFINE text == WriteObject(keys, p, gap)
<1>2. ExtractJsonString(text, "target") = Escape(Field(p, "target"))
  BY PostRead
<1>3. Field(p, "target") \in Seq(Chars)
  BY TextsAssumption, EmptySeq DEF Field, Empty
<1>4. m.from = {} /\ m.to = Field(p, "target") /\ m.frames[1] = text
  BY <1>1
<1> HIDE DEF text
<1>5. QED BY <1>2, <1>3, <1>4 DEF Target

(* The name of a stress test needs no escapes.                             *)
LEMMA EscapeNothing ==
  ASSUME NEW C, NEW v \in Seq(C \ {Quote, Backslash}) PROVE Escape(v) = v
<1> DEFINE D == C \ {Quote, Backslash}
           P == {u \in Seq(D) : Escape(u) = u}
<1>1. <<>> \in P
  BY EmptySeq, EscapeEmpty
<1>2. ASSUME NEW u \in Seq(D), NEW c \in D, u \in P PROVE Append(u, c) \in P
  <2>1. Escape(Append(u, c)) = Escape(u) \o Escaped(c)
    BY EscapeAppend
  <2>2. Escaped(c) = <<c>> /\ Escape(u) = u
    BY <1>2 DEF Escaped
  <2> HIDE DEF D
  <2>3. u \o <<c>> = Append(u, c) /\ Append(u, c) \in Seq(D)
    BY AppendIsConcat, AppendProperties
  <2>4. QED BY <2>1, <2>2, <2>3
<1> HIDE DEF P
<1>3. Seq(D) \subseteq P
  BY <1>1, <1>2, SeqSet
<1>4. QED BY <1>3 DEF P

-----------------------------------------------------------------------------
(* The queue holds such messages only.                                     *)

QueueInv == queue \in Seq(Letters \cup StressLetters)

(* The queue is empty at first,                                            *)
LEMMA QueueInit == ASSUME Init PROVE QueueInv
  BY EmptySeq DEF Init, QueueInv, Empty

(* and only such messages are appended.                                    *)
LEMMA QueueNext == ASSUME QueueInv, [Next]_vars PROVE QueueInv'
<1> DEFINE S == Letters \cup StressLetters
<1>1. CASE UNCHANGED queue
  BY <1>1 DEF QueueInv
<1>2. CASE HandleRouterMessage
  <2>1. queue # <<>> /\ queue' = Tail(queue)
    BY <1>2 DEF HandleRouterMessage, Empty
  <2> HIDE DEF S
  <2>2. queue \in Seq(S) => queue' \in Seq(S)
    BY <2>1, HeadTailProperties
  <2>3. QED BY <2>2 DEF QueueInv, S, Letters, StressLetters
<1>3. ASSUME NEW m \in S, queue' = Append(queue, m) PROVE QueueInv'
  <2> HIDE DEF S
  <2>1. queue \in Seq(S) => queue' \in Seq(S)
    BY <1>3, AppendProperties
  <2>2. QED BY <2>1 DEF QueueInv, S
<1>4. CASE ClientPosts
  BY <1>3, <1>4 DEF ClientPosts
<1>5. CASE ClientCalls
  BY <1>1, <1>5 DEF ClientCalls
<1>6. ASSUME NEW t \in Testers, StressSends(t) PROVE QueueInv'
  BY <1>3, <1>6 DEF StressSends, StressLetters
<1>7. ASSUME NEW t \in Testers,
             \/ StressRegisters(t) \/ StressUnanswered(t) \/ StressDue(t) \/ StressWaits(t)
             \/ StressPollsNothing(t) \/ StressReceives(t) \/ StressChecks(t)
      PROVE  QueueInv'
  BY <1>1, <1>7 DEF StressRegisters, StressUnanswered, StressDue, StressWaits,
                    StressPollsNothing, StressReceives, StressChecks
<1>8. CASE UNCHANGED vars
  BY <1>1, <1>8 DEF vars
<1>9. QED BY <1>2, <1>4, <1>5, <1>6, <1>7, <1>8 DEF Next, StressLoop

-----------------------------------------------------------------------------
(* The router goes by the book.                                            *)

(* What the gateway looks up, and what the book says.                      *)
LEMMA LookedUp ==
  ASSUME Kept(clients, book), NEW m \in Letters
  PROVE  LET target == Target(m.frames)
         IN  /\ target \in DOMAIN clients <=> m.to \in DOMAIN book
             /\ \A t \in Testers : target \in DOMAIN clients /\ clients[target] = t => book[m.to] = t
<1> DEFINE target == Target(m.frames)
<1>1. m.to \in Seq(Chars) /\ target = Escape(m.to)
  BY LetterRead
<1> HIDE DEF target
<1>2. target \in DOMAIN clients <=> m.to \in DOMAIN book
  BY <1>1, KeptIn
<1>3. ASSUME NEW t \in Testers, target \in DOMAIN clients, clients[target] = t PROVE book[m.to] = t
  <2>1. book[m.to] \in Seq(Chars) /\ clients[target] = Escape(book[m.to])
    BY <1>1, <1>2, <1>3 DEF Kept
  <2>2. Escape(t) = t
    BY TestersAssumption, EscapeNothing
  <2>3. t \in Seq(Chars)
    <3>1. Chars \ {Quote, Backslash} \subseteq Chars
      OBVIOUS
    <3>2. QED BY <3>1, TestersAssumption, SeqWider
  <2>4. QED BY <1>3, <2>1, <2>2, <2>3, EscapeInjective
<1>4. QED BY <1>2, <1>3 DEF target

(* A step that takes a message from the queue is HandleRouterMessage.      *)
LEMMA TakenByRouter ==
  ASSUME QueueInv, [Next]_vars, queue # Empty, queue' = Tail(queue)
  PROVE  HandleRouterMessage
<1> DEFINE S == Letters \cup StressLetters
<1>1. queue \in Seq(S) /\ queue # <<>>
  BY DEF QueueInv, Empty
<1> HIDE DEF S
<1>2. Len(queue') = Len(queue) - 1 /\ Len(queue) \in Nat
  BY <1>1, HeadTailProperties, LenProperties
<1>3. \A m : queue' # Append(queue, m)
  <2> SUFFICES ASSUME NEW m, queue' = Append(queue, m) PROVE FALSE
    OBVIOUS
  <2> DEFINE T == S \cup {m}
  <2>1. queue \in Seq(T) /\ m \in T
    <3>1. S \subseteq T
      OBVIOUS
    <3> HIDE DEF T
    <3>2. queue \in Seq(T)
      BY <1>1, <3>1, SeqWider
    <3>3. QED BY <3>2 DEF T
  <2> HIDE DEF T
  <2>2. Len(Append(queue, m)) = Len(queue) + 1
    BY <2>1, AppendProperties
  <2>3. QED BY <1>2, <2>2
<1>4. queue' # queue
  BY <1>2
<1>5. ~ClientPosts /\ \A t \in Testers : ~StressSends(t)
  BY <1>3 DEF ClientPosts, StressSends
<1>6. ~ClientCalls /\ ~UNCHANGED vars
  BY <1>4 DEF ClientCalls, vars
<1>7. \A t \in Testers :
        /\ ~StressRegisters(t) /\ ~StressUnanswered(t) /\ ~StressDue(t) /\ ~StressWaits(t)
        /\ ~StressPollsNothing(t) /\ ~StressReceives(t) /\ ~StressChecks(t)
  BY <1>4 DEF StressRegisters, StressUnanswered, StressDue, StressWaits, StressPollsNothing,
              StressReceives, StressChecks
<1>8. QED BY <1>5, <1>6, <1>7 DEF Next, StressLoop

(* The inductive invariant of the routing.                                 *)
RouteInv == QueueInv /\ RightInv /\ Counts

(* One step of the router, against the book.                               *)
LEMMA RoutedByBook ==
  ASSUME RouteInv, [Next]_vars, queue # Empty, Head(queue).from = {}, queue' = Tail(queue)
  PROVE  LET to == Head(queue).to
             meant == to \in DOMAIN book
             failed == stats'.failures > stats.failures
         IN  /\ (stats'.messages_routed > stats.messages_routed) <=> (meant /\ ~failed)
             /\ (stats'.errors > stats.errors) <=> (~meant \/ failed)
             /\ \A t \in Testers : inbox'[t] > inbox[t] => meant /\ ~failed /\ book[to] = t
<1> DEFINE m == Head(queue)
           target == Target(m.frames)
           known == target \in DOMAIN clients
           routed == stats'.messages_routed > stats.messages_routed
           erred == stats'.errors > stats.errors
           failed == stats'.failures > stats.failures
<1>1. HandleRouterMessage
  BY TakenByRouter DEF RouteInv
<1>2. m \in Letters
  <2> DEFINE S == Letters \cup StressLetters
  <2>1. queue \in Seq(S) /\ queue # <<>>
    BY DEF RouteInv, QueueInv, Empty
  <2> HIDE DEF S
  <2>2. m \in S
    BY <2>1, HeadTailProperties
  <2>3. m \notin StressLetters
    <3>1. \A l \in StressLetters : l.from # {}
      BY DEF StressLetters
    <3>2. QED BY <3>1
  <2>4. QED BY <2>2, <2>3 DEF S
<1>3. /\ known <=> m.to \in DOMAIN book
      /\ \A t \in Testers : known /\ clients[target] = t => book[m.to] = t
  BY <1>2, LookedUp DEF RouteInv, RightInv
<1>4. IF known THEN Forwards(clients[target]) \/ Fails ELSE Errs
  BY <1>1 DEF HandleRouterMessage
<1> HIDE DEF m, target
<1>5. /\ stats \in [errors : Nat, messages_routed : Nat, failures : Nat]
      /\ inbox \in [Testers -> Nat]
  BY DEF RouteInv, Counts
<1>6. CASE known /\ Forwards(clients[target])
  <2>1. routed /\ ~erred /\ ~failed
    BY <1>5, <1>6 DEF Forwards
  <2>2. ASSUME NEW t \in Testers, inbox'[t] > inbox[t] PROVE clients[target] = t
    <3>1. inbox' # inbox
      BY <1>5, <2>2
    <3>2. PICK u \in Testers : clients[target] = u /\ inbox' = [inbox EXCEPT ![u] = @ + 1]
      BY <1>6, <3>1 DEF Forwards
    <3>3. t = u
      BY <1>5, <2>2, <3>2
    <3>4. QED BY <3>2, <3>3
  <2>3. QED BY <1>3, <1>6, <2>1, <2>2 DEF m
<1>7. CASE known /\ Fails
  <2>1. ~routed /\ erred /\ failed /\ inbox' = inbox
    BY <1>5, <1>7 DEF Fails
  <2>2. \A t \in Testers : ~(inbox'[t] > inbox[t])
    BY <1>5, <2>1
  <2>3. QED BY <1>3, <1>7, <2>1, <2>2 DEF m
<1>8. CASE ~known /\ Errs
  <2>1. ~routed /\ erred /\ ~failed /\ inbox' = inbox
    BY <1>5, <1>8 DEF Errs
  <2>2. \A t \in Testers : ~(inbox'[t] > inbox[t])
    BY <1>5, <2>1
  <2>3. QED BY <1>3, <1>8, <2>1, <2>2 DEF m
<1>9. QED BY <1>4, <1>6, <1>7, <1>8

(* What the gateway makes of a client's message (HandleRouterMessage) is   *)
(* what a gateway with a JSON parser would make of it: it goes to the      *)
(* identity that the target is registered under, or is counted as an error *)
(* when there is none or SendTo fails: RoutesByBook.                       *)
THEOREM Routing == Spec => RoutesByBook
<1> DEFINE to == Head(queue).to
           meant == to \in DOMAIN book
           failed == stats'.failures > stats.failures
           ByBook == queue # Empty /\ Head(queue).from = {} /\ queue' = Tail(queue) =>
             /\ (stats'.messages_routed > stats.messages_routed) <=> (meant /\ ~failed)
             /\ (stats'.errors > stats.errors) <=> (~meant \/ failed)
             /\ \A t \in Testers : inbox'[t] > inbox[t] => meant /\ ~failed /\ book[to] = t
<1>1. Init => RouteInv
  BY QueueInit, RightInit, CountsInit DEF RouteInv
<1>2. RouteInv /\ [Next]_vars => RouteInv'
  BY QueueNext, RightNext, CountsNext DEF RouteInv
<1>3. RouteInv /\ [Next]_vars => [ByBook]_vars
  BY RoutedByBook
<1>4. RoutesByBook <=> [][ByBook]_vars
  BY DEF RoutesByBook
<1>5. QED BY <1>1, <1>2, <1>3, <1>4, PTL DEF Spec
=============================================================================
