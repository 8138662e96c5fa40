--------------------------- MODULE MessageLemmas ---------------------------
(***************************************************************************)
(* Lemmas about queues of messages, records that have a number "id": what  *)
(* remains of a queue, whether its numbers ascend, and the sequence of its *)
(* numbers alone.                                                          *)
(***************************************************************************)
EXTENDS Naturals, Sequences, TLAPS, SequenceTheorems

Numbered(S) == \A m \in S : m.id \in Nat

(* The numbers ascend; they are above n.                                   *)
Ascending(s) == \A i, j \in 1..Len(s) : i < j => s[i].id < s[j].id
Above(n, s) == \A i \in 1..Len(s) : n < s[i].id

(* What is left when the end of a queue is dropped, or its head taken off. *)
LEMMA Cutting ==
  ASSUME NEW S, NEW s \in Seq(S), NEW n \in 0..Len(s)
  PROVE  /\ SubSeq(s, 1, n) \in Seq(S) /\ Len(SubSeq(s, 1, n)) = n
         /\ \A i \in 1..n : SubSeq(s, 1, n)[i] = s[i] /\ i \in 1..Len(s)
<1>1. Len(s) \in Nat /\ n \in Nat /\ n <= Len(s)
  BY LenProperties
<1>2. \A i \in 1..n : i \in 1..Len(s) /\ s[i] \in S
  BY <1>1, ElementOfSeq
<1>3. /\ SubSeq(s, 1, n) \in Seq(S)
      /\ Len(SubSeq(s, 1, n)) = IF 1 <= n THEN n - 1 + 1 ELSE 0
      /\ \A i \in 1..(n - 1 + 1) : SubSeq(s, 1, n)[i] = s[1 + i - 1]
  BY <1>1, <1>2, SubSeqProperties
<1>4. n - 1 + 1 = n /\ (IF 1 <= n THEN n ELSE 0) = n /\ \A i \in 1..n : 1 + i - 1 = i
  BY <1>1
<1> QED
  BY <1>2, <1>3, <1>4

LEMMA Heading ==
  ASSUME NEW S, NEW s \in Seq(S), s # <<>>
  PROVE  /\ Len(s) \in Nat /\ 1 \in 1..Len(s) /\ Head(s) = s[1] /\ s[1] \in S
         /\ Tail(s) \in Seq(S) /\ Len(Tail(s)) = Len(s) - 1
         /\ \A i \in 1..Len(Tail(s)) : i + 1 \in 1..Len(s) /\ Tail(s)[i] = s[i + 1]
<1>1. Len(s) \in Nat /\ Len(s) >= 1
  BY EmptySeq, LenProperties
<1>2. Head(s) = s[1] /\ s[1] \in S
  BY <1>1, ElementOfSeq
<1>3. /\ Tail(s) \in Seq(S) /\ Len(Tail(s)) = Len(s) - 1
      /\ \A i \in 1..(Len(s) - 1) : Tail(s)[i] = s[i + 1]
  BY <1>1, HeadTailProperties
<1> QED
  BY <1>1, <1>2, <1>3

(* Numbers that only grow.                                                 *)
LEMMA AscendingAppend ==
  ASSUME NEW S, NEW s \in Seq(S), NEW x \in S, Ascending(s), \A i \in 1..Len(s) : s[i].id < x.id
  PROVE  Ascending(Append(s, x))
<1> DEFINE a == Append(s, x)
<1>1. /\ Len(a) = Len(s) + 1 /\ a[Len(s) + 1] = x /\ Len(s) \in Nat
      /\ \A i \in 1..Len(s) : a[i] = s[i]
  BY AppendProperties, LenProperties
<1> HIDE DEF a
<1>2. ASSUME NEW i \in 1..Len(a), NEW j \in 1..Len(a), i < j PROVE a[i].id < a[j].id
  <2>1. i \in 1..Len(s)
    BY <1>1, <1>2
  <2>2. CASE j = Len(s) + 1
    BY <1>1, <2>1, <2>2
  <2>3. CASE j # Len(s) + 1
    <3>1. j \in 1..Len(s)
      BY <1>1, <2>3
    <3> QED
      BY <1>1, <1>2, <2>1, <3>1 DEF Ascending
  <2> QED
    BY <2>2, <2>3
<1>3. Ascending(a)
  BY <1>2 DEF Ascending
<1> QED
  BY <1>3 DEF a

LEMMA MoreAbove ==
  ASSUME NEW s, NEW a, Len(s) \in Nat, Len(a) = Len(s) + 1, \A i \in 1..Len(s) : a[i] = s[i],
         NEW k, Above(k, s), k < a[Len(s) + 1].id
  PROVE  Above(k, a)
<1>1. ASSUME NEW i \in 1..Len(a) PROVE k < a[i].id
  <2>1. CASE i = Len(s) + 1
    BY <2>1
  <2>2. CASE i # Len(s) + 1
    <3>1. i \in 1..Len(s)
      BY <2>2
    <3> QED
      BY <3>1 DEF Above
  <2> QED
    BY <2>1, <2>2
<1> QED
  BY <1>1 DEF Above

(* The numbers of a queue.                                                 *)
Ids(w) == [i \in 1..Len(w) |-> w[i].id]

LEMMA IdsType ==
  ASSUME NEW S, NEW w \in Seq(S), Numbered(S)
  PROVE  /\ Ids(w) \in Seq(Nat) /\ Len(Ids(w)) = Len(w) /\ Len(w) \in Nat
         /\ \A i \in 1..Len(w) : Ids(w)[i] = w[i].id /\ w[i].id \in Nat
<1>1. Len(w) \in Nat
  BY LenProperties
<1>2. \A i \in 1..Len(w) : w[i].id \in Nat
  <2> SUFFICES ASSUME NEW i \in 1..Len(w) PROVE w[i].id \in Nat
    OBVIOUS
  <2>1. w[i] \in S
    BY ElementOfSeq
  <2> QED
    BY <2>1 DEF Numbered
<1>3. Ids(w) \in [1..Len(w) -> Nat]
  BY <1>2 DEF Ids
<1>4. Ids(w) \in Seq(Nat)
  BY <1>1, <1>3, IsASeq
<1>5. Len(Ids(w)) = Len(w)
  BY <1>1, <1>3, <1>4, LenProperties
<1> QED
  BY <1>1, <1>2, <1>4, <1>5 DEF Ids

(* A concatenation, hidden from the provers.                               *)
Joined(s, t) == s \o t

LEMMA JoinedIs ==
  ASSUME NEW s \in Seq(Nat), NEW t \in Seq(Nat)
  PROVE  /\ Joined(s, t) \in Seq(Nat) /\ Len(Joined(s, t)) = Len(s) + Len(t)
         /\ Len(s) \in Nat /\ Len(t) \in Nat
         /\ \A i \in 1..Len(s) : Joined(s, t)[i] = s[i]
         /\ \A i \in 1..Len(t) : Joined(s, t)[Len(s) + i] = t[i]
<1>1. Len(s) \in Nat /\ Len(t) \in Nat
  BY LenProperties
<1>2. /\ s \o t \in Seq(Nat) /\ Len(s \o t) = Len(s) + Len(t)
      /\ \A i \in 1..(Len(s) + Len(t)) : (s \o t)[i] = IF i <= Len(s) THEN s[i] ELSE t[i - Len(s)]
  BY ConcatProperties
<1>3. \A i \in 1..Len(s) : (s \o t)[i] = s[i]
  BY <1>1, <1>2
<1>4. ASSUME NEW i \in 1..Len(t) PROVE (s \o t)[Len(s) + i] = t[i]
  <2>1. Len(s) + i \in 1..(Len(s) + Len(t)) /\ ~(Len(s) + i <= Len(s)) /\ Len(s) + i - Len(s) = i
    BY <1>1
  <2> QED
    BY <1>2, <2>1
<1> QED
  BY <1>1, <1>2, <1>3, <1>4 DEF Joined

(* The first of the numbers, and the others.                               *)
LEMMA JoinedOne ==
  ASSUME NEW n \in Nat, NEW t \in Seq(Nat)
  PROVE  /\ Joined(<<n>>, t) # <<>> /\ Head(Joined(<<n>>, t)) = n
         /\ Tail(Joined(<<n>>, t)) = t
<1> DEFINE h == <<n>>
           j == Joined(h, t)
<1>1. h \in Seq(Nat) /\ Len(h) = 1 /\ h[1] = n /\ Len(t) \in Nat
  BY LenProperties
<1> HIDE DEF h
<1>8. /\ j \in Seq(Nat) /\ Len(j) = Len(h) + Len(t)
      /\ \A i \in 1..Len(h) : j[i] = h[i]
      /\ \A i \in 1..Len(t) : j[Len(h) + i] = t[i]
  BY <1>1, JoinedIs
<1> HIDE DEF j
<1>2. /\ j \in Seq(Nat) /\ Len(j) = 1 + Len(t) /\ Len(t) \in Nat /\ j[1] = n
      /\ \A i \in 1..Len(t) : j[1 + i] = t[i]
  BY <1>1, <1>8
<1>3. j # <<>>
  BY <1>2
<1>4. /\ Tail(j) \in Seq(Nat) /\ Len(Tail(j)) = Len(j) - 1
      /\ \A i \in 1..Len(Tail(j)) : Tail(j)[i] = j[i + 1]
  BY <1>2, <1>3, HeadTailProperties
<1>5. Len(Tail(j)) = Len(t) /\ \A i \in 1..Len(t) : Tail(j)[i] = t[i]
  BY <1>2, <1>4
<1>6. Tail(j) = t
  BY <1>4, <1>5, SeqEqual
<1>7. Head(j) = n
  BY <1>2
<1> QED
  BY <1>3, <1>6, <1>7 DEF h, j

LEMMA JoinedNone ==
  ASSUME NEW t \in Seq(Nat)
  PROVE  Joined(<<>>, t) = t
  BY ConcatEmptySeq DEF Joined

(* Taking the first message off.                                           *)
LEMMA IdsHead ==
  ASSUME NEW S, NEW w \in Seq(S), Numbered(S), w # <<>>
  PROVE  Joined(<<Head(w).id>>, Ids(Tail(w))) = Ids(w)
<1> DEFINE h == <<Head(w).id>>
           t == Tail(w)
           j == Joined(h, Ids(t))
<1>1. /\ Tail(w) \in Seq(S) /\ Len(Tail(w)) = Len(w) - 1 /\ Head(w) \in S
      /\ \A i \in 1..Len(Tail(w)) : Tail(w)[i] = w[i + 1]
  BY Heading
<1>2. Len(w) \in Nat \ {0} /\ Head(w) = w[1]
  BY Heading
<1>3. h \in Seq(Nat) /\ Len(h) = 1 /\ h[1] = w[1].id
  <2>1. Head(w).id \in Nat
    BY <1>1 DEF Numbered
  <2> QED
    BY <1>2, <2>1
<1>4. /\ Ids(t) \in Seq(Nat) /\ Len(Ids(t)) = Len(w) - 1
      /\ \A i \in 1..(Len(w) - 1) : Ids(t)[i] = w[i + 1].id
  <2>1. \A i \in 1..Len(t) : Ids(t)[i] = t[i].id
    BY <1>1, IdsType
  <2> QED
    BY <1>1, <2>1, IdsType
<1> HIDE DEF h, t
<1>9. /\ j \in Seq(Nat) /\ Len(j) = Len(h) + Len(Ids(t))
      /\ \A i \in 1..Len(h) : j[i] = h[i]
      /\ \A i \in 1..Len(Ids(t)) : j[Len(h) + i] = Ids(t)[i]
  BY <1>3, <1>4, JoinedIs
<1> HIDE DEF j
<1>5. /\ j \in Seq(Nat) /\ Len(j) = Len(w) /\ j[1] = w[1].id
      /\ \A i \in 1..(Len(w) - 1) : j[1 + i] = w[i + 1].id
  <2>1. j \in Seq(Nat) /\ Len(j) = Len(w) /\ j[1] = w[1].id
    BY <1>2, <1>3, <1>4, <1>9
  <2>2. ASSUME NEW i \in 1..(Len(w) - 1) PROVE j[1 + i] = w[i + 1].id
    <3>1. i \in 1..Len(Ids(t)) /\ Ids(t)[i] = w[i + 1].id
      BY <1>4
    <3>2. j[Len(h) + i] = Ids(t)[i]
      BY <1>9, <3>1
    <3> QED
      BY <1>3, <3>1, <3>2
  <2> QED
    BY <2>1, <2>2
<1>6. \A i \in 1..Len(w) : j[i] = w[i].id
  <2> SUFFICES ASSUME NEW i \in 1..Len(w), i # 1 PROVE j[i] = w[i].id
    BY <1>5
  <2>1. i - 1 \in 1..(Len(w) - 1) /\ 1 + (i - 1) = i /\ (i - 1) + 1 = i
    BY <1>2
  <2>2. j[1 + (i - 1)] = w[(i - 1) + 1].id
    BY <1>5, <2>1
  <2> QED
    BY <2>1, <2>2
<1>7. /\ Ids(w) \in Seq(Nat) /\ Len(Ids(w)) = Len(w) /\ \A i \in 1..Len(w) : Ids(w)[i] = w[i].id
  BY IdsType
<1>8. j = Ids(w)
  BY <1>5, <1>6, <1>7, SeqEqual
<1> QED
  BY <1>8 DEF j, h, t

(* Losing the last messages.                                               *)
LEMMA IdsCut ==
  ASSUME NEW S, NEW w \in Seq(S), Numbered(S), NEW h \in Seq(Nat), NEW n \in 0..Len(w)
  PROVE  /\ Len(h) + n \in 0..Len(Joined(h, Ids(w)))
         /\ Joined(h, Ids(SubSeq(w, 1, n))) = SubSeq(Joined(h, Ids(w)), 1, Len(h) + n)
<1> DEFINE c == SubSeq(w, 1, n)
           k == Len(h) + n
           j == Joined(h, Ids(w))
           jc == Joined(h, Ids(c))
<1>1. Len(w) \in Nat /\ n \in Nat /\ n <= Len(w) /\ Len(h) \in Nat
  BY LenProperties
<1>2. c \in Seq(S) /\ Len(c) = n /\ \A i \in 1..n : c[i] = w[i]
  BY Cutting
<1> HIDE DEF c
<1>3. /\ Ids(w) \in Seq(Nat) /\ Len(Ids(w)) = Len(w) /\ \A i \in 1..Len(w) : Ids(w)[i] = w[i].id
      /\ Ids(c) \in Seq(Nat) /\ Len(Ids(c)) = n /\ \A i \in 1..n : Ids(c)[i] = c[i].id
  BY <1>2, IdsType
<1>4. /\ j \in Seq(Nat) /\ Len(j) = Len(h) + Len(w) /\ \A i \in 1..Len(h) : j[i] = h[i]
      /\ \A i \in 1..Len(w) : j[Len(h) + i] = w[i].id
  <2>1. /\ j \in Seq(Nat) /\ Len(j) = Len(h) + Len(Ids(w)) /\ \A i \in 1..Len(h) : j[i] = h[i]
        /\ \A i \in 1..Len(Ids(w)) : j[Len(h) + i] = Ids(w)[i]
    BY <1>3, JoinedIs
  <2> HIDE DEF j
  <2> QED
    BY <1>3, <2>1
<1>5. /\ jc \in Seq(Nat) /\ Len(jc) = k /\ \A i \in 1..Len(h) : jc[i] = h[i]
      /\ \A i \in 1..n : jc[Len(h) + i] = w[i].id
  <2>1. /\ jc \in Seq(Nat) /\ Len(jc) = Len(h) + Len(Ids(c)) /\ \A i \in 1..Len(h) : jc[i] = h[i]
        /\ \A i \in 1..Len(Ids(c)) : jc[Len(h) + i] = Ids(c)[i]
    BY <1>3, JoinedIs
  <2> HIDE DEF jc
  <2> QED
    BY <1>2, <1>3, <2>1
<1> HIDE DEF j, jc
<1>6. k \in Nat /\ k <= Len(j) /\ Len(j) \in Nat
  BY <1>1, <1>4
<1> HIDE DEF k
<1>7. SubSeq(j, 1, k) \in Seq(Nat) /\ Len(SubSeq(j, 1, k)) = k /\ \A i \in 1..k : SubSeq(j, 1, k)[i] = j[i]
  <2>1. k \in 0..Len(j)
    BY <1>6
  <2> QED
    BY <1>4, <2>1, Cutting
<1>8. ASSUME NEW i \in 1..k PROVE jc[i] = j[i]
  <2>1. CASE i <= Len(h)
    BY <1>1, <1>4, <1>5, <2>1
  <2>2. CASE ~(i <= Len(h))
    <3>1. i - Len(h) \in 1..n /\ Len(h) + (i - Len(h)) = i /\ i - Len(h) \in 1..Len(w)
      BY <1>1, <2>2 DEF k
    <3>2. jc[Len(h) + (i - Len(h))] = w[i - Len(h)].id /\ j[Len(h) + (i - Len(h))] = w[i - Len(h)].id
      BY <1>4, <1>5, <3>1
    <3> QED
      BY <3>1, <3>2
  <2> QED
    BY <2>1, <2>2
<1>9. jc = SubSeq(j, 1, k)
  BY <1>5, <1>7, <1>8, SeqEqual
<1> QED
  BY <1>6, <1>9 DEF c, j, jc, k

(* Another message.                                                        *)
LEMMA IdsAppend ==
  ASSUME NEW S, NEW w \in Seq(S), Numbered(S), NEW m \in S, NEW h \in Seq(Nat)
  PROVE  Joined(h, Ids(Append(w, m))) = Append(Joined(h, Ids(w)), m.id)
<1> DEFINE a == Append(w, m)
           j == Joined(h, Ids(w))
           ja == Joined(h, Ids(a))
           n == Len(h) + Len(w)
<1>1. /\ a \in Seq(S) /\ Len(a) = Len(w) + 1 /\ a[Len(w) + 1] = m /\ Len(w) \in Nat /\ Len(h) \in Nat
      /\ \A i \in 1..Len(w) : a[i] = w[i]
  BY AppendProperties, LenProperties
<1> HIDE DEF a
<1>2. /\ Ids(w) \in Seq(Nat) /\ Len(Ids(w)) = Len(w) /\ \A i \in 1..Len(w) : Ids(w)[i] = w[i].id
      /\ Ids(a) \in Seq(Nat) /\ Len(Ids(a)) = Len(a) /\ \A i \in 1..Len(a) : Ids(a)[i] = a[i].id
  BY <1>1, IdsType
<1>3. /\ j \in Seq(Nat) /\ Len(j) = n /\ \A i \in 1..Len(h) : j[i] = h[i]
      /\ \A i \in 1..Len(w) : j[Len(h) + i] = w[i].id
  <2>1. /\ j \in Seq(Nat) /\ Len(j) = Len(h) + Len(Ids(w)) /\ \A i \in 1..Len(h) : j[i] = h[i]
        /\ \A i \in 1..Len(Ids(w)) : j[Len(h) + i] = Ids(w)[i]
    BY <1>2, JoinedIs
  <2> HIDE DEF j
  <2> QED
    BY <1>2, <2>1
<1>4. /\ ja \in Seq(Nat) /\ Len(ja) = n + 1 /\ \A i \in 1..Len(h) : ja[i] = h[i]
      /\ \A i \in 1..(Len(w) + 1) : ja[Len(h) + i] = a[i].id
  <2>1. /\ ja \in Seq(Nat) /\ Len(ja) = Len(h) + Len(Ids(a)) /\ \A i \in 1..Len(h) : ja[i] = h[i]
        /\ \A i \in 1..Len(Ids(a)) : ja[Len(h) + i] = Ids(a)[i]
    BY <1>2, JoinedIs
  <2> HIDE DEF ja
  <2> QED
    BY <1>1, <1>2, <2>1
<1>5. m.id \in Nat
  BY DEF Numbered
<1> HIDE DEF j, ja
<1>6. n \in Nat
  BY <1>1
<1>7. /\ Append(j, m.id) \in Seq(Nat) /\ Len(Append(j, m.id)) = n + 1 /\ Append(j, m.id)[n + 1] = m.id
      /\ \A i \in 1..n : Append(j, m.id)[i] = j[i]
  BY <1>3, <1>5, AppendProperties
<1>8. ASSUME NEW i \in 1..(n + 1) PROVE ja[i] = Append(j, m.id)[i]
  <2>1. CASE i <= Len(h)
    <3>1. i \in 1..Len(h) /\ i \in 1..n
      BY <1>1, <2>1
    <3> QED
      BY <1>3, <1>4, <1>7, <3>1
  <2>2. CASE ~(i <= Len(h))
    <3> DEFINE o == i - Len(h)
    <3>1. o \in 1..(Len(w) + 1) /\ Len(h) + o = i
      BY <1>1, <2>2
    <3> HIDE DEF o
    <3>2. ja[i] = a[o].id
      BY <1>4, <3>1
    <3>3. CASE o = Len(w) + 1
      <4>1. i = n + 1
        BY <1>1, <3>1, <3>3
      <4> QED
        BY <1>1, <1>7, <3>2, <3>3, <4>1
    <3>4. CASE o # Len(w) + 1
      <4>1. o \in 1..Len(w) /\ i \in 1..n
        BY <1>1, <3>1, <3>4
      <4>2. j[i] = w[o].id
        BY <1>3, <3>1, <4>1
      <4> QED
        BY <1>1, <1>7, <3>2, <4>1, <4>2
    <3> QED
      BY <3>3, <3>4
  <2> QED
    BY <2>1, <2>2
<1>9. ja = Append(j, m.id)
  BY <1>4, <1>6, <1>7, <1>8, SeqEqual
<1> QED
  BY <1>9 DEF a, j, ja
=============================================================================
