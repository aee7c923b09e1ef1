-------------------------- MODULE SimEventsProofs --------------------------
(***************************************************************************)
(* Proofs about the event queue of the simulators, for any number of       *)
(* watchpoints and timers, any delays and any bounds.                      *)
(*                                                                         *)
(* The operations of sim-events.c are first described by what they do to   *)
(* the sets of events in the lists; the invariants are then proved from    *)
(* these descriptions, without looking into the lists again.               *)
(***************************************************************************)
EXTENDS SimEvents, FiniteSetTheorems, SequenceTheorems, WellFoundedInduction, TLAPS

-----------------------------------------------------------------------------
(* Sequences of events.                                                    *)

DistinctIds(s) == \A i, j \in DOMAIN s : s[i].ev = s[j].ev => i = j
Distinct(s) == \A i, j \in DOMAIN s : s[i] = s[j] => i = j
Ordered(s) == \A i, j \in DOMAIN s : i <= j => s[i].time <= s[j].time

Timed == [ev : Nat, what : Kinds, time : Nat]
Watched == [ev : Nat, what : Points]

\* A set of numbers that is not empty has a least member.
LEMMA LeastNat ==
  ASSUME NEW N, N \subseteq Nat, N # {}
  PROVE  \E x \in N : \A y \in N : x <= y
<1>1. PICK x \in N : \A y \in N : ~(<<y, x>> \in OpToRel(<, Nat))
  BY NatLessThanWellFounded, WFMin
<1>2. \A y \in N : ~(y < x)
  BY <1>1 DEF OpToRel
<1> QED BY <1>2

\* What Min is for a set of numbers.
LEMMA MinIsLeast ==
  ASSUME NEW N, N \subseteq Nat, N # {}
  PROVE  Min(N) \in N /\ \A y \in N : Min(N) <= y
BY LeastNat DEF Min

\* What InsertAt does to each place of a sequence.
LEMMA InsertedAt ==
  ASSUME NEW S, NEW s \in Seq(S), NEW x \in S, NEW k \in 1..Len(s)
  PROVE  /\ InsertAt(s, k, x) \in Seq(S)
         /\ Len(InsertAt(s, k, x)) = Len(s) + 1
         /\ \A i \in 1..(Len(s) + 1) :
              InsertAt(s, k, x)[i] = IF i < k THEN s[i] ELSE IF i = k THEN x ELSE s[i - 1]
<1> DEFINE a == SubSeq(s, 1, k - 1)
           b == SubSeq(s, k, Len(s))
           c == a \o <<x>>
<1>0. Len(s) \in Nat /\ k \in Int /\ 1 <= k /\ k <= Len(s)
  OBVIOUS
<1>1. a \in Seq(S) /\ Len(a) = k - 1 /\ \A i \in 1..(k - 1) : a[i] = s[i]
  BY <1>0, SubSeqProperties
<1>2. b \in Seq(S) /\ Len(b) = Len(s) - k + 1 /\ \A i \in 1..(Len(s) - k + 1) : b[i] = s[k + i - 1]
  BY <1>0, SubSeqProperties
<1>3. InsertAt(s, k, x) = c \o b
  BY DEF InsertAt
<1> HIDE DEF a, b
<1>4. c \in Seq(S) /\ Len(c) = k /\ c[k] = x /\ \A i \in 1..(k - 1) : c[i] = a[i]
  BY <1>0, <1>1
<1> HIDE DEF c
<1>5. c \o b \in Seq(S) /\ Len(c \o b) = Len(c) + Len(b)
  BY <1>2, <1>4
<1>6. \A i \in 1..(Len(c) + Len(b)) : (c \o b)[i] = IF i <= Len(c) THEN c[i] ELSE b[i - Len(c)]
  BY <1>2, <1>4, ConcatProperties
<1>7. ASSUME NEW i \in 1..(Len(s) + 1)
      PROVE  (c \o b)[i] = IF i < k THEN s[i] ELSE IF i = k THEN x ELSE s[i - 1]
  <2>0. i \in Int /\ i \in 1..(Len(c) + Len(b))
    BY <1>0, <1>2, <1>4
  <2>1. CASE i < k
    <3>1. i \in 1..(k - 1) /\ i <= Len(c)
      BY <1>0, <1>4, <2>0, <2>1
    <3> QED BY <1>1, <1>4, <1>6, <2>0, <2>1, <3>1
  <2>2. CASE i = k
    BY <1>0, <1>4, <1>6, <2>0, <2>2
  <2>3. CASE i > k
    <3>1. i - k \in 1..(Len(s) - k + 1) /\ k + (i - k) - 1 = i - 1
      BY <1>0, <2>0, <2>3
    <3>2. (c \o b)[i] = b[i - k]
      BY <1>0, <1>4, <1>6, <2>0, <2>3
    <3> QED BY <1>0, <1>2, <2>0, <2>3, <3>1, <3>2
  <2> QED BY <1>0, <2>0, <2>1, <2>2, <2>3
<1>8. Len(c \o b) = Len(s) + 1
  BY <1>0, <1>2, <1>4, <1>5
<1> QED BY <1>3, <1>5, <1>7, <1>8

\* What RemoveAt does to each place of a sequence.
LEMMA RemovedAt ==
  ASSUME NEW S, NEW s \in Seq(S), NEW k \in 1..Len(s)
  PROVE  /\ RemoveAt(s, k) \in Seq(S)
         /\ Len(RemoveAt(s, k)) = Len(s) - 1
         /\ \A i \in 1..(Len(s) - 1) :
              RemoveAt(s, k)[i] = IF i < k THEN s[i] ELSE s[i + 1]
<1> DEFINE a == SubSeq(s, 1, k - 1)  b == SubSeq(s, k + 1, Len(s))
<1>1. /\ a \in Seq(S) /\ Len(a) = k - 1 /\ \A i \in 1..(k - 1) : a[i] = s[i]
  BY SubSeqProperties
<1>2. /\ b \in Seq(S) /\ Len(b) = Len(s) - k /\ \A i \in 1..(Len(s) - k) : b[i] = s[k + i]
  BY SubSeqProperties
<1>3. RemoveAt(s, k) = a \o b
  BY DEF RemoveAt
<1> HIDE DEF a, b
<1>4. /\ a \o b \in Seq(S) /\ Len(a \o b) = Len(s) - 1
      /\ \A i \in 1..(Len(s) - 1) : (a \o b)[i] = IF i <= k - 1 THEN a[i] ELSE b[i - (k - 1)]
  <2>0. a \in Seq(S) /\ b \in Seq(S)
    BY <1>1, <1>2
  <2>1. a \o b \in Seq(S) /\ Len(a \o b) = Len(a) + Len(b)
    BY <2>0
  <2>2. \A i \in 1..(Len(a) + Len(b)) : (a \o b)[i] = IF i <= Len(a) THEN a[i] ELSE b[i - Len(a)]
    BY <1>1, <1>2, ConcatProperties
  <2>3. Len(s) \in Nat /\ k \in Int /\ Len(a) + Len(b) = Len(s) - 1
    BY <1>1, <1>2
  <2> QED BY <1>1, <2>1, <2>2, <2>3
<1>5. ASSUME NEW i \in 1..(Len(s) - 1)
      PROVE  RemoveAt(s, k)[i] = IF i < k THEN s[i] ELSE s[i + 1]
  <2>1. CASE i < k
    BY <1>1, <1>3, <1>4, <2>1
  <2>2. CASE i >= k
    <3>1. i - (k - 1) \in 1..(Len(s) - k) /\ k + (i - (k - 1)) = i + 1
      BY <2>2
    <3> QED BY <1>2, <1>3, <1>4, <2>2, <3>1
  <2> QED BY <2>1, <2>2
<1> QED BY <1>3, <1>4, <1>5

\* An event put between the earlier ones and the later ones.
LEMMA InsertBetween ==
  ASSUME NEW s \in Seq(Timed), NEW x \in Timed, Ordered(s), DistinctIds(s), x.ev \notin Ids(s),
         NEW k \in 1..Len(s), x.time < s[k].time, \A i \in 1..(k - 1) : s[i].time <= x.time,
         NEW t, t = InsertAt(s, k, x)
  PROVE  t \in Seq(Timed) /\ t # <<>> /\ Ordered(t) /\ DistinctIds(t) /\ ToSet(t) = ToSet(s) \cup {x}
<1>0. /\ Len(s) \in Nat /\ DOMAIN s = 1..Len(s) /\ k \in Int /\ 1 <= k /\ k <= Len(s) /\ x.time \in Nat
      /\ \A i \in DOMAIN s : s[i].time \in Nat /\ s[i].ev # x.ev
  <2>1. Len(s) \in Nat /\ DOMAIN s = 1..Len(s) /\ \A i \in DOMAIN s : s[i] \in Timed
    OBVIOUS
  <2>2. \A i \in DOMAIN s : s[i].ev \in Ids(s)
    BY DEF Ids
  <2>3. x.time \in Nat /\ \A i \in DOMAIN s : s[i].time \in Nat
    BY <2>1 DEF Timed
  <2> QED BY <2>1, <2>2, <2>3
<1>1. /\ t \in Seq(Timed) /\ Len(t) = Len(s) + 1
      /\ \A i \in 1..(Len(s) + 1) : t[i] = IF i < k THEN s[i] ELSE IF i = k THEN x ELSE s[i - 1]
  BY InsertedAt
<1>2. DOMAIN t = 1..(Len(s) + 1) /\ t # <<>>
  BY <1>0, <1>1
<1>3. \A i \in DOMAIN t : \/ i < k /\ i \in DOMAIN s /\ t[i] = s[i]
                          \/ i = k /\ t[i] = x
                          \/ i > k /\ i - 1 \in DOMAIN s /\ t[i] = s[i - 1]
  BY <1>0, <1>1, <1>2
<1>4. \A i \in DOMAIN s : (i < k => s[i].time <= x.time) /\ (i >= k => x.time <= s[i].time)
  <2>1. \A i \in DOMAIN s : i >= k => s[k].time <= s[i].time
    BY <1>0 DEF Ordered
  <2> QED BY <1>0, <2>1
<1>5. Ordered(t)
  <2> SUFFICES ASSUME NEW i \in DOMAIN t, NEW j \in DOMAIN t, i <= j PROVE t[i].time <= t[j].time
    BY DEF Ordered
  <2>0. i \in Int /\ j \in Int
    BY <1>0, <1>2
  <2>1. CASE i < k /\ j < k
    BY <1>3, <2>0, <2>1 DEF Ordered
  <2>2. CASE i < k /\ j = k
    BY <1>0, <1>3, <1>4, <2>0, <2>2
  <2>3. CASE i < k /\ j > k
    <3>1. t[i] = s[i] /\ t[j] = s[j - 1] /\ i \in DOMAIN s /\ j - 1 \in DOMAIN s /\ i <= j - 1
      BY <1>0, <1>3, <2>0, <2>3
    <3> QED BY <3>1 DEF Ordered
  <2>4. CASE i = k /\ j = k
    BY <1>0, <1>3, <2>0, <2>4
  <2>5. CASE i = k /\ j > k
    <3>1. t[i] = x /\ t[j] = s[j - 1] /\ j - 1 \in DOMAIN s /\ j - 1 >= k
      BY <1>0, <1>3, <2>0, <2>5
    <3> QED BY <1>4, <3>1
  <2>6. CASE i > k
    <3>1. t[i] = s[i - 1] /\ t[j] = s[j - 1] /\ i - 1 \in DOMAIN s /\ j - 1 \in DOMAIN s /\ i - 1 <= j - 1
      BY <1>0, <1>3, <2>0, <2>6
    <3> QED BY <3>1 DEF Ordered
  <2> QED BY <1>0, <2>0, <2>1, <2>2, <2>3, <2>4, <2>5, <2>6
<1>6. DistinctIds(t)
  <2> SUFFICES ASSUME NEW i \in DOMAIN t, NEW j \in DOMAIN t, t[i].ev = t[j].ev PROVE i = j
    BY DEF DistinctIds
  <2>0. i \in Int /\ j \in Int
    BY <1>0, <1>2
  <2>1. \A a, b \in DOMAIN s : s[a].ev = s[b].ev => a = b
    BY DEF DistinctIds
  <2> QED BY <1>0, <1>3, <2>0, <2>1
<1>7. ToSet(t) = ToSet(s) \cup {x}
  <2>1. ASSUME NEW i \in DOMAIN s PROVE \E j \in DOMAIN t : t[j] = s[i]
    <3>1. CASE i < k
      BY <1>0, <1>1, <1>2, <3>1
    <3>2. CASE i >= k
      <4>1. i + 1 \in 1..(Len(s) + 1) /\ (i + 1) - 1 = i /\ ~(i + 1 < k) /\ i + 1 # k
        BY <1>0, <3>2
      <4>2. t[i + 1] = s[(i + 1) - 1]
        BY <1>1, <4>1
      <4> QED BY <1>2, <4>1, <4>2
    <3> QED BY <1>0, <3>1, <3>2
  <2>2. \E j \in DOMAIN t : t[j] = x
    BY <1>0, <1>1, <1>2
  <2> QED BY <1>3, <2>1, <2>2 DEF ToSet
<1> QED BY <1>1, <1>2, <1>5, <1>6, <1>7

\* An event put after those of its time or earlier.
LEMMA AppendLast ==
  ASSUME NEW s \in Seq(Timed), NEW x \in Timed, Ordered(s), DistinctIds(s), x.ev \notin Ids(s),
         \A i \in 1..Len(s) : s[i].time <= x.time,
         NEW t, t = Append(s, x)
  PROVE  t \in Seq(Timed) /\ t # <<>> /\ Ordered(t) /\ DistinctIds(t) /\ ToSet(t) = ToSet(s) \cup {x}
<1>0. /\ Len(s) \in Nat /\ DOMAIN s = 1..Len(s) /\ x.time \in Nat
      /\ \A i \in DOMAIN s : s[i].time \in Nat /\ s[i].ev # x.ev
  <2>1. Len(s) \in Nat /\ DOMAIN s = 1..Len(s) /\ \A i \in DOMAIN s : s[i] \in Timed
    OBVIOUS
  <2>2. \A i \in DOMAIN s : s[i].ev \in Ids(s)
    BY DEF Ids
  <2>3. x.time \in Nat /\ \A i \in DOMAIN s : s[i].time \in Nat
    BY <2>1 DEF Timed
  <2> QED BY <2>1, <2>2, <2>3
<1>1. /\ t \in Seq(Timed) /\ Len(t) = Len(s) + 1 /\ DOMAIN t = 1..(Len(s) + 1) /\ t # <<>>
      /\ t[Len(s) + 1] = x /\ \A i \in DOMAIN s : t[i] = s[i]
  BY <1>0
<1>2. \A i \in DOMAIN t : (i \in DOMAIN s /\ t[i] = s[i]) \/ (i = Len(s) + 1 /\ t[i] = x)
  BY <1>0, <1>1
<1>3. Ordered(t)
  <2> SUFFICES ASSUME NEW i \in DOMAIN t, NEW j \in DOMAIN t, i <= j PROVE t[i].time <= t[j].time
    BY DEF Ordered
  <2> QED BY <1>0, <1>1, <1>2 DEF Ordered
<1>4. DistinctIds(t)
  <2> SUFFICES ASSUME NEW i \in DOMAIN t, NEW j \in DOMAIN t, t[i].ev = t[j].ev PROVE i = j
    BY DEF DistinctIds
  <2> QED BY <1>0, <1>1, <1>2 DEF DistinctIds
<1>5. ToSet(t) = ToSet(s) \cup {x}
  BY <1>0, <1>1, <1>2 DEF ToSet
<1> QED BY <1>1, <1>3, <1>4, <1>5

\* The place that insert_sim_event finds: before the first later event, or 0.
LEMMA PlaceFound ==
  ASSUME NEW s \in Seq(Timed), NEW time \in Nat
  PROVE  LET I == {i \in 1..Len(s) : time < s[i].time}
             k == IF I # {} THEN Min(I) ELSE 0
         IN \/ k = 0 /\ \A i \in 1..Len(s) : s[i].time <= time
            \/ k \in 1..Len(s) /\ time < s[k].time /\ \A i \in 1..(k - 1) : s[i].time <= time
<1> DEFINE I == {i \in 1..Len(s) : time < s[i].time}
           k == IF I # {} THEN Min(I) ELSE 0
<1>0. Len(s) \in Nat /\ \A i \in 1..Len(s) : s[i].time \in Nat
  <2>1. Len(s) \in Nat /\ \A i \in 1..Len(s) : s[i] \in Timed
    OBVIOUS
  <2> QED BY <2>1 DEF Timed
<1>1. I \subseteq Nat /\ \A i \in 1..Len(s) : i \notin I => s[i].time <= time
  BY <1>0
<1>2. CASE I = {}
  BY <1>1, <1>2
<1>3. CASE I # {}
  <2>1. k \in I /\ \A y \in I : k <= y
    BY <1>1, <1>3, MinIsLeast
  <2> HIDE DEF k
  <2>2. k \in 1..Len(s) /\ time < s[k].time /\ k \in Int
    BY <1>0, <2>1
  <2>3. ASSUME NEW i \in 1..(k - 1) PROVE s[i].time <= time
    <3>1. i \in 1..Len(s) /\ ~(k <= i)
      BY <1>0, <2>2
    <3> HIDE DEF I
    <3> QED BY <1>1, <2>1, <3>1
  <2> QED BY <2>2, <2>3 DEF k
<1> QED BY <1>2, <1>3

\* The ids of a list are those of its members.
LEMMA IdsOfSet == \A s : Ids(s) = {x.ev : x \in ToSet(s)}
BY DEF Ids, ToSet

\* A list without the event of one id.
LEMMA WithoutFacts ==
  ASSUME NEW S, NEW s \in Seq(S), DistinctIds(s), NEW id, NEW t, t = Without(s, id)
  PROVE  /\ t \in Seq(S) /\ DistinctIds(t) /\ (Ordered(s) => Ordered(t))
         /\ ToSet(t) = {x \in ToSet(s) : x.ev # id}
<1>0. Len(s) \in Nat /\ DOMAIN s = 1..Len(s)
  OBVIOUS
<1>1. CASE \A i \in 1..Len(s) : s[i].ev # id
  <2>1. t = s
    BY <1>1 DEF Without, RemoveFirstMatch
  <2> QED BY <1>0, <1>1, <2>1 DEF ToSet
<1>2. CASE \E i \in 1..Len(s) : s[i].ev = id
  <2> DEFINE I == {i \in 1..Len(s) : s[i].ev = id}
  <2>1. PICK k \in 1..Len(s) : s[k].ev = id
    BY <1>2
  <2>2. I = {k}
    BY <1>0, <2>1 DEF DistinctIds
  <2>3. k \in Int /\ 1 <= k /\ k <= Len(s)
    BY <1>0
  <2>4. Min(I) = k
    <3> HIDE DEF I
    <3> QED BY <2>2, <2>3 DEF Min
  <2>5. t = RemoveAt(s, k)
    BY <1>2, <2>2, <2>4 DEF Without, RemoveFirstMatch, SelectInSeq
  <2>6. /\ t \in Seq(S) /\ Len(t) = Len(s) - 1
        /\ \A i \in 1..(Len(s) - 1) : t[i] = IF i < k THEN s[i] ELSE s[i + 1]
    BY <2>5, RemovedAt
  <2>7. DOMAIN t = 1..(Len(s) - 1)
    BY <2>6
  <2>8. \A i \in DOMAIN t : \/ i < k /\ i \in DOMAIN s /\ t[i] = s[i]
                            \/ i >= k /\ i + 1 \in DOMAIN s /\ t[i] = s[i + 1]
    BY <1>0, <2>3, <2>6, <2>7
  <2>9. DistinctIds(t)
    <3> SUFFICES ASSUME NEW i \in DOMAIN t, NEW j \in DOMAIN t, t[i].ev = t[j].ev PROVE i = j
      BY DEF DistinctIds
    <3>0. i \in Int /\ j \in Int
      BY <1>0, <2>7
    <3> QED BY <2>3, <2>8, <3>0 DEF DistinctIds
  <2>10. ASSUME Ordered(s) PROVE Ordered(t)
    <3> SUFFICES ASSUME NEW i \in DOMAIN t, NEW j \in DOMAIN t, i <= j PROVE t[i].time <= t[j].time
      BY DEF Ordered
    <3>0. i \in Int /\ j \in Int
      BY <1>0, <2>7
    <3> QED BY <2>3, <2>8, <2>10, <3>0 DEF Ordered
  <2>11. ToSet(t) = {x \in ToSet(s) : x.ev # id}
    <3>1. ASSUME NEW i \in DOMAIN t PROVE t[i] \in ToSet(s) /\ t[i].ev # id
      <4>1. PICK j \in DOMAIN s : j # k /\ t[i] = s[j]
        BY <1>0, <2>3, <2>7, <2>8
      <4> QED BY <1>0, <2>1, <4>1 DEF DistinctIds, ToSet
    <3>2. ASSUME NEW j \in DOMAIN s, s[j].ev # id PROVE \E i \in DOMAIN t : t[i] = s[j]
      <4>1. CASE j < k
        BY <1>0, <2>3, <2>6, <2>7, <4>1
      <4>2. CASE j > k
        <5>1. j - 1 \in 1..(Len(s) - 1) /\ ~(j - 1 < k) /\ (j - 1) + 1 = j
          BY <1>0, <2>3, <4>2
        <5>2. t[j - 1] = s[(j - 1) + 1]
          BY <2>6, <5>1
        <5> QED BY <2>7, <5>1, <5>2
      <4> QED BY <1>0, <2>1, <2>3, <3>2, <4>1, <4>2
    <3> QED BY <3>1, <3>2 DEF ToSet
  <2> QED BY <2>6, <2>9, <2>10, <2>11
<1> QED BY <1>1, <1>2

\* A list without its first event.
LEMMA TailFacts ==
  ASSUME NEW S, NEW s \in Seq(S), s # <<>>, DistinctIds(s)
  PROVE  /\ Tail(s) \in Seq(S) /\ DistinctIds(Tail(s)) /\ (Ordered(s) => Ordered(Tail(s)))
         /\ Head(s) \in S /\ Head(s) \in ToSet(s) /\ Head(s) = s[1]
         /\ ToSet(Tail(s)) = {x \in ToSet(s) : x.ev # Head(s).ev}
         /\ Ordered(s) => \A x \in ToSet(s) : Head(s).time <= x.time
<1> DEFINE t == Tail(s)
<1>0. /\ Len(s) \in Nat /\ Len(s) >= 1 /\ DOMAIN s = 1..Len(s) /\ t \in Seq(S)
      /\ DOMAIN t = 1..(Len(s) - 1) /\ Head(s) = s[1] /\ Head(s) \in S
      /\ \A i \in 1..(Len(s) - 1) : t[i] = s[i + 1]
  OBVIOUS
<1> HIDE DEF t
<1>1. 1 \in DOMAIN s /\ \A i \in DOMAIN t : i + 1 \in DOMAIN s /\ t[i] = s[i + 1] /\ i \in Int /\ i + 1 # 1
  BY <1>0
<1>2. DistinctIds(t)
  <2> SUFFICES ASSUME NEW i \in DOMAIN t, NEW j \in DOMAIN t, t[i].ev = t[j].ev PROVE i = j
    BY DEF DistinctIds
  <2>1. i + 1 = j + 1
    BY <1>1 DEF DistinctIds
  <2> QED BY <1>1, <2>1
<1>3. ASSUME Ordered(s) PROVE Ordered(t)
  <2> SUFFICES ASSUME NEW i \in DOMAIN t, NEW j \in DOMAIN t, i <= j PROVE t[i].time <= t[j].time
    BY DEF Ordered
  <2>1. i + 1 <= j + 1
    BY <1>1
  <2> QED BY <1>1, <1>3, <2>1 DEF Ordered
<1>4. ToSet(t) = {x \in ToSet(s) : x.ev # Head(s).ev}
  <2>1. ASSUME NEW i \in DOMAIN t PROVE t[i] \in ToSet(s) /\ t[i].ev # Head(s).ev
    BY <1>0, <1>1 DEF ToSet, DistinctIds
  <2>2. ASSUME NEW j \in DOMAIN s, s[j].ev # Head(s).ev PROVE \E i \in DOMAIN t : t[i] = s[j]
    <3>1. j # 1
      BY <1>0, <2>2
    <3>2. j - 1 \in 1..(Len(s) - 1) /\ (j - 1) + 1 = j
      BY <1>0, <3>1
    <3>3. t[j - 1] = s[(j - 1) + 1]
      BY <1>0, <3>2
    <3> QED BY <1>0, <3>2, <3>3
  <2> QED BY <2>1, <2>2 DEF ToSet
<1>5. ASSUME Ordered(s) PROVE \A x \in ToSet(s) : Head(s).time <= x.time
  <2>1. \A i \in DOMAIN s : s[1].time <= s[i].time
    BY <1>0, <1>1, <1>5 DEF Ordered
  <2> QED BY <1>0, <2>1 DEF ToSet
<1> QED BY <1>0, <1>1, <1>2, <1>3, <1>4, <1>5 DEF ToSet, t

\* A list with one more event in front.
LEMMA ConsFacts ==
  ASSUME NEW S, NEW s \in Seq(S), NEW x \in S
  PROVE  /\ <<x>> \o s \in Seq(S) /\ <<x>> \o s # <<>> /\ ToSet(<<x>> \o s) = {x} \cup ToSet(s)
         /\ (DistinctIds(s) /\ x.ev \notin Ids(s)) => DistinctIds(<<x>> \o s)
         /\ (Distinct(s) /\ x \notin ToSet(s)) => Distinct(<<x>> \o s)
<1> DEFINE t == <<x>> \o s
<1>0. /\ Len(s) \in Nat /\ DOMAIN s = 1..Len(s) /\ t \in Seq(S) /\ t # <<>>
      /\ DOMAIN t = 1..(Len(s) + 1) /\ t[1] = x
      /\ \A i \in 1..Len(s) : t[i + 1] = s[i]
      /\ \A i \in 2..(Len(s) + 1) : t[i] = s[i - 1]
  OBVIOUS
<1> HIDE DEF t
<1>1. \A i \in DOMAIN t : i \in Int /\ ((i = 1 /\ t[i] = x) \/ (i - 1 \in DOMAIN s /\ t[i] = s[i - 1]))
  BY <1>0
<1>2. ToSet(t) = {x} \cup ToSet(s)
  <2>1. ASSUME NEW i \in DOMAIN s PROVE \E j \in DOMAIN t : t[j] = s[i]
    <3>1. i + 1 \in DOMAIN t /\ t[i + 1] = s[i]
      BY <1>0
    <3> QED BY <3>1
  <2>2. \E j \in DOMAIN t : t[j] = x
    BY <1>0
  <2> QED BY <1>1, <2>1, <2>2 DEF ToSet
<1>3. ASSUME DistinctIds(s), x.ev \notin Ids(s) PROVE DistinctIds(t)
  <2>1. \A i \in DOMAIN s : s[i].ev # x.ev
    BY <1>3 DEF Ids
  <2> QED BY <1>1, <1>3, <2>1 DEF DistinctIds
<1>4. ASSUME Distinct(s), x \notin ToSet(s) PROVE Distinct(t)
  <2>1. \A i \in DOMAIN s : s[i] # x
    BY <1>4 DEF ToSet
  <2> QED BY <1>1, <1>4, <2>1 DEF Distinct
<1> QED BY <1>0, <1>2, <1>3, <1>4 DEF t

\* A free list without its first structure.
LEMMA TailDistinct ==
  ASSUME NEW S, NEW s \in Seq(S), s # <<>>, Distinct(s)
  PROVE  /\ Tail(s) \in Seq(S) /\ Distinct(Tail(s)) /\ Head(s) \in ToSet(s)
         /\ ToSet(Tail(s)) = ToSet(s) \ {Head(s)}
<1> DEFINE t == Tail(s)
<1>0. /\ Len(s) \in Nat /\ Len(s) >= 1 /\ DOMAIN s = 1..Len(s) /\ t \in Seq(S)
      /\ DOMAIN t = 1..(Len(s) - 1) /\ Head(s) = s[1]
      /\ \A i \in 1..(Len(s) - 1) : t[i] = s[i + 1]
  OBVIOUS
<1> HIDE DEF t
<1>1. 1 \in DOMAIN s /\ \A i \in DOMAIN t : i + 1 \in DOMAIN s /\ t[i] = s[i + 1] /\ i \in Int /\ i + 1 # 1
  BY <1>0
<1>2. Distinct(t)
  <2> SUFFICES ASSUME NEW i \in DOMAIN t, NEW j \in DOMAIN t, t[i] = t[j] PROVE i = j
    BY DEF Distinct
  <2>1. i + 1 = j + 1
    BY <1>1 DEF Distinct
  <2> QED BY <1>1, <2>1
<1>3. ToSet(t) = ToSet(s) \ {Head(s)}
  <2>1. ASSUME NEW i \in DOMAIN t PROVE t[i] \in ToSet(s) /\ t[i] # Head(s)
    BY <1>0, <1>1 DEF ToSet, Distinct
  <2>2. ASSUME NEW j \in DOMAIN s, s[j] # Head(s) PROVE \E i \in DOMAIN t : t[i] = s[j]
    <3>1. j # 1
      BY <1>0, <2>2
    <3>2. j - 1 \in 1..(Len(s) - 1) /\ (j - 1) + 1 = j
      BY <1>0, <3>1
    <3>3. t[j - 1] = s[(j - 1) + 1]
      BY <1>0, <3>2
    <3> QED BY <1>0, <3>2, <3>3
  <2> QED BY <2>1, <2>2 DEF ToSet
<1> QED BY <1>0, <1>1, <1>2, <1>3 DEF ToSet, t

-----------------------------------------------------------------------------
(* The operations of sim-events.c.                                         *)

EventsType ==
  [nr_ticks_to_process : Nat, queue : Seq(Timed), watchpoints : Seq(Watched),
   watchedpoints : Seq(Watched), free_list : Seq(Nat), held : Seq({0}), work_pending : BOOLEAN,
   time_of_event : Int, time_from_event : Int, structs : Nat]

\* Every structure is in one place of one list.
Placed(e) ==
  /\ DistinctIds(e.queue) /\ DistinctIds(e.watchpoints) /\ DistinctIds(e.watchedpoints)
  /\ Distinct(e.free_list)
  /\ Ids(e.queue) \cap Ids(e.watchpoints) = {} /\ Ids(e.queue) \cap Ids(e.watchedpoints) = {}
  /\ Ids(e.watchpoints) \cap Ids(e.watchedpoints) = {}
  /\ ToSet(e.free_list) \cap (Ids(e.queue) \cup Ids(e.watchpoints) \cup Ids(e.watchedpoints)) = {}
  /\ ToSet(e.free_list) \cup Ids(e.queue) \cup Ids(e.watchpoints) \cup Ids(e.watchedpoints) = 1..e.structs

\* The queue is in order and the clock is relative to its first event.
Clocked(e) ==
  /\ Ordered(e.queue)
  /\ e.queue # <<>> => e.time_of_event = Head(e.queue).time
  /\ sim_events_time(e) \in Nat

Whole(e) == e \in EventsType /\ Placed(e) /\ Clocked(e)

\* The fields that the operations on the lists leave alone.
SameRest(e, f) ==
  /\ f.nr_ticks_to_process = e.nr_ticks_to_process /\ f.held = e.held
  /\ sim_events_time(f) = sim_events_time(e)

\* The clock is set relative to the first event, and does not move.
LEMMA UpdateTime ==
  ASSUME NEW e \in EventsType, sim_events_time(e) \in Nat, NEW f, f = update_time_from_event(e)
  PROVE  /\ f \in EventsType /\ SameRest(e, f) /\ f.work_pending = e.work_pending
         /\ f.queue = e.queue /\ f.watchpoints = e.watchpoints /\ f.watchedpoints = e.watchedpoints
         /\ f.free_list = e.free_list /\ f.structs = e.structs
         /\ e.queue # <<>> => f.time_of_event = Head(f.queue).time
         /\ f.time_from_event = IF e.queue = <<>> THEN -1 ELSE Head(e.queue).time - sim_events_time(e)
<1> DEFINE due == IF e.queue = <<>> THEN sim_events_time(e) - 1 ELSE Head(e.queue).time
<1>1. due \in Int
  <2>1. CASE e.queue # <<>>
    <3>1. e.queue \in Seq(Timed)
      BY DEF EventsType
    <3>2. Head(e.queue) \in Timed
      BY <2>1, <3>1
    <3> QED BY <2>1, <3>2 DEF Timed
  <2> QED BY <2>1
<1>2. f = [e EXCEPT !.time_of_event = due, !.time_from_event = due - sim_events_time(e)]
  BY DEF update_time_from_event
<1> HIDE DEF due
<1>3. f \in EventsType
  <2>1. due - sim_events_time(e) \in Int
    BY <1>1
  <2> QED BY <1>1, <1>2, <2>1 DEF EventsType
<1>4. /\ f.nr_ticks_to_process = e.nr_ticks_to_process /\ f.held = e.held
      /\ f.work_pending = e.work_pending
      /\ f.queue = e.queue /\ f.watchpoints = e.watchpoints /\ f.watchedpoints = e.watchedpoints
      /\ f.free_list = e.free_list /\ f.structs = e.structs
      /\ f.time_of_event = due /\ f.time_from_event = due - sim_events_time(e)
  BY <1>2 DEF EventsType
<1>5. sim_events_time(f) = sim_events_time(e)
  BY <1>1, <1>4 DEF sim_events_time
<1>6. f.time_from_event = IF e.queue = <<>> THEN -1 ELSE Head(e.queue).time - sim_events_time(e)
  BY <1>4 DEF due
<1>7. e.queue # <<>> => f.time_of_event = Head(f.queue).time
  BY <1>4 DEF due
<1> QED BY <1>3, <1>4, <1>5, <1>6, <1>7 DEF SameRest

\* A structure is taken that is in none of the lists of events.
LEMMA Zalloc ==
  ASSUME NEW e, Whole(e), NEW f, f = sim_events_zalloc(e), NEW id, id = zalloc_id(e)
  PROVE  /\ f \in EventsType /\ SameRest(e, f) /\ f.work_pending = e.work_pending
         /\ f.queue = e.queue /\ f.watchpoints = e.watchpoints /\ f.watchedpoints = e.watchedpoints
         /\ f.time_of_event = e.time_of_event /\ f.time_from_event = e.time_from_event
         /\ Distinct(f.free_list) /\ id \notin ToSet(f.free_list)
         /\ ToSet(f.free_list) \cap (Ids(e.queue) \cup Ids(e.watchpoints) \cup Ids(e.watchedpoints)) = {}
         /\ id \notin Ids(e.queue) \cup Ids(e.watchpoints) \cup Ids(e.watchedpoints)
         /\ {id} \cup ToSet(f.free_list) \cup Ids(e.queue) \cup Ids(e.watchpoints) \cup Ids(e.watchedpoints)
              = 1..f.structs
         /\ id \in Nat /\ id # NULL /\ e.structs <= f.structs
<1> DEFINE ids == Ids(e.queue) \cup Ids(e.watchpoints) \cup Ids(e.watchedpoints)
<1>0. /\ e \in EventsType /\ Distinct(e.free_list) /\ ToSet(e.free_list) \cap ids = {}
      /\ ToSet(e.free_list) \cup ids = 1..e.structs /\ e.structs \in Nat /\ e.free_list \in Seq(Nat)
  BY DEF Whole, Placed, EventsType
<1> HIDE DEF ids
<1>1. CASE e.free_list = <<>>
  <2>1. f = [e EXCEPT !.structs = e.structs + 1] /\ id = e.structs + 1
    BY <1>1 DEF sim_events_zalloc, zalloc_id
  <2>2. /\ f \in EventsType /\ f.structs = e.structs + 1 /\ f.free_list = <<>>
        /\ f.nr_ticks_to_process = e.nr_ticks_to_process /\ f.held = e.held
        /\ f.work_pending = e.work_pending
        /\ f.queue = e.queue /\ f.watchpoints = e.watchpoints /\ f.watchedpoints = e.watchedpoints
        /\ f.time_of_event = e.time_of_event /\ f.time_from_event = e.time_from_event
    <3>1. e.structs + 1 \in Nat
      BY <1>0
    <3> QED BY <1>0, <1>1, <2>1, <3>1 DEF EventsType
  <2>3. ToSet(f.free_list) = {} /\ ToSet(e.free_list) = {} /\ Distinct(f.free_list)
    BY <1>1, <2>2 DEF ToSet, Distinct
  <2>4. id \notin ids /\ {id} \cup ToSet(f.free_list) \cup ids = 1..f.structs
    BY <1>0, <2>1, <2>2, <2>3
  <2> QED BY <1>0, <2>1, <2>2, <2>3, <2>4 DEF SameRest, sim_events_time, ids, NULL
<1>2. CASE e.free_list # <<>>
  <2>1. f = [e EXCEPT !.free_list = Tail(e.free_list)] /\ id = Head(e.free_list)
    BY <1>2 DEF sim_events_zalloc, zalloc_id
  <2>2. /\ Tail(e.free_list) \in Seq(Nat) /\ Distinct(Tail(e.free_list)) /\ id \in ToSet(e.free_list)
        /\ ToSet(Tail(e.free_list)) = ToSet(e.free_list) \ {id}
    BY <1>0, <1>2, <2>1, TailDistinct
  <2>3. /\ f \in EventsType /\ f.structs = e.structs /\ f.free_list = Tail(e.free_list)
        /\ f.nr_ticks_to_process = e.nr_ticks_to_process /\ f.held = e.held
        /\ f.work_pending = e.work_pending
        /\ f.queue = e.queue /\ f.watchpoints = e.watchpoints /\ f.watchedpoints = e.watchedpoints
        /\ f.time_of_event = e.time_of_event /\ f.time_from_event = e.time_from_event
    BY <1>0, <2>1, <2>2 DEF EventsType
  <2>4. id \notin ids /\ {id} \cup ToSet(f.free_list) \cup ids = 1..f.structs /\ id \in 1..e.structs
    BY <1>0, <2>2, <2>3
  <2>5. id \in Nat /\ id # 0 /\ e.structs <= f.structs
    BY <1>0, <2>3, <2>4
  <2>6. ToSet(f.free_list) \cap ids = {} /\ id \notin ToSet(f.free_list)
    BY <1>0, <2>2, <2>3
  <2> QED BY <1>0, <2>2, <2>3, <2>4, <2>5, <2>6 DEF SameRest, sim_events_time, ids, NULL
<1> QED BY <1>1, <1>2

\* sim_events_schedule adds one event to the queue, with a structure that no event has.
Adds(e, f, id, what, delta) ==
  /\ Whole(f) /\ f.nr_ticks_to_process = e.nr_ticks_to_process
  /\ sim_events_time(f) = sim_events_time(e)
  /\ f.watchpoints = e.watchpoints /\ f.watchedpoints = e.watchedpoints /\ f.queue # <<>>
  /\ ToSet(f.queue) = ToSet(e.queue) \cup {[ev |-> id, what |-> what, time |-> sim_events_time(e) + delta]}
  /\ id \in 1..f.structs /\ e.structs <= f.structs
  /\ id \notin Ids(e.queue) \cup Ids(e.watchpoints) \cup Ids(e.watchedpoints)

Scheduled(e, f, id, what, delta) ==
  Adds(e, f, id, what, delta) /\ f.held = e.held /\ f.work_pending = e.work_pending

\* sim_events_schedule does that.
LEMMA Schedules ==
  ASSUME NEW e, Whole(e), NEW delta \in Nat, NEW what \in Kinds
  PROVE  Scheduled(e, sim_events_schedule(e, delta, what), zalloc_id(e), what, delta)
<1> DEFINE id == zalloc_id(e)
           g == sim_events_zalloc(e)
           now == sim_events_time(e)
           x == [ev |-> id, what |-> what, time |-> now + delta]
           I == {i \in 1..Len(e.queue) : x.time < e.queue[i].time}
           k == SelectInSeq(e.queue, LAMBDA q : x.time < q.time)
           t == IF k = 0 THEN Append(e.queue, x) ELSE InsertAt(e.queue, k, x)
           h == [g EXCEPT !.queue = t]
           f == sim_events_schedule(e, delta, what)
<1>0. /\ e.queue \in Seq(Timed) /\ Ordered(e.queue) /\ DistinctIds(e.queue) /\ now \in Nat
      /\ DistinctIds(e.watchpoints) /\ DistinctIds(e.watchedpoints)
      /\ Ids(e.queue) \cap Ids(e.watchpoints) = {} /\ Ids(e.queue) \cap Ids(e.watchedpoints) = {}
      /\ Ids(e.watchpoints) \cap Ids(e.watchedpoints) = {}
  BY DEF Whole, EventsType, Placed, Clocked
<1>1. /\ g \in EventsType /\ SameRest(e, g) /\ g.work_pending = e.work_pending
      /\ g.queue = e.queue /\ g.watchpoints = e.watchpoints /\ g.watchedpoints = e.watchedpoints
      /\ Distinct(g.free_list) /\ id \notin ToSet(g.free_list)
      /\ ToSet(g.free_list) \cap (Ids(e.queue) \cup Ids(e.watchpoints) \cup Ids(e.watchedpoints)) = {}
      /\ id \notin Ids(e.queue) \cup Ids(e.watchpoints) \cup Ids(e.watchedpoints)
      /\ {id} \cup ToSet(g.free_list) \cup Ids(e.queue) \cup Ids(e.watchpoints) \cup Ids(e.watchedpoints)
           = 1..g.structs
      /\ id \in Nat /\ e.structs <= g.structs
  BY Zalloc
<1>2. sim_events_time(g) = now
  BY <1>1 DEF SameRest
<1>3. f = update_time_from_event(h)
  BY <1>1, <1>2 DEF sim_events_schedule, insert_sim_event
<1>4. x \in Timed /\ x.ev = id
  BY <1>0, <1>1 DEF Timed
<1>5. t \in Seq(Timed) /\ t # <<>> /\ Ordered(t) /\ DistinctIds(t) /\ ToSet(t) = ToSet(e.queue) \cup {x}
  <2>1. k = IF I # {} THEN Min(I) ELSE 0
    BY DEF SelectInSeq
  <2>2. x.ev \notin Ids(e.queue) /\ x.time \in Nat
    BY <1>0, <1>1, <1>4
  <2> HIDE DEF k, x, id
  <2>3. \/ k = 0 /\ \A i \in 1..Len(e.queue) : e.queue[i].time <= x.time
        \/ k \in 1..Len(e.queue) /\ x.time < e.queue[k].time /\ \A i \in 1..(k - 1) : e.queue[i].time <= x.time
    BY <1>0, <2>1, <2>2, PlaceFound
  <2>4. CASE k = 0
    <3>1. t = Append(e.queue, x)
      BY <2>4
    <3>2. \A i \in 1..Len(e.queue) : e.queue[i].time <= x.time
      BY <1>0, <2>3, <2>4
    <3> HIDE DEF t
    <3> QED BY <1>0, <1>4, <2>2, <3>1, <3>2, AppendLast
  <2>5. CASE k # 0
    <3>1. t = InsertAt(e.queue, k, x)
      BY <2>5
    <3> HIDE DEF t
    <3> QED BY <1>0, <1>4, <2>2, <2>3, <2>5, <3>1, InsertBetween
  <2> QED BY <2>4, <2>5
<1> HIDE DEF t, g, f, id
<1>6. /\ h \in EventsType /\ h.queue = t /\ h.watchpoints = g.watchpoints
      /\ h.watchedpoints = g.watchedpoints /\ h.free_list = g.free_list /\ h.structs = g.structs
      /\ h.nr_ticks_to_process = g.nr_ticks_to_process /\ h.held = g.held
      /\ h.work_pending = g.work_pending /\ sim_events_time(h) = now
  BY <1>1, <1>2, <1>5 DEF EventsType, sim_events_time
<1> HIDE DEF h, now
<1>7. /\ f \in EventsType /\ SameRest(h, f) /\ f.work_pending = h.work_pending
      /\ f.queue = h.queue /\ f.watchpoints = h.watchpoints /\ f.watchedpoints = h.watchedpoints
      /\ f.free_list = h.free_list /\ f.structs = h.structs
      /\ h.queue # <<>> => f.time_of_event = Head(f.queue).time
  BY <1>0, <1>3, <1>6, UpdateTime
<1>8. Ids(t) = Ids(e.queue) \cup {id}
  BY <1>4, <1>5, IdsOfSet
<1>9. Placed(f)
  BY <1>0, <1>1, <1>5, <1>6, <1>7, <1>8 DEF Placed
<1>10. Clocked(f)
  BY <1>0, <1>5, <1>6, <1>7 DEF Clocked, SameRest
<1>11. SameRest(e, f) /\ id \in 1..f.structs
  BY <1>1, <1>6, <1>7 DEF SameRest, now
<1> QED BY <1>1, <1>5, <1>6, <1>7, <1>9, <1>10, <1>11 DEF Scheduled, Adds, SameRest, Whole, now, f, id

\* sim_events_watch adds one watchpoint, with a structure that no event has, and flags it.
Watches(e, f, id, what) ==
  /\ Whole(f) /\ SameRest(e, f) /\ f.work_pending
  /\ f.queue = e.queue /\ f.watchedpoints = e.watchedpoints
  /\ ToSet(f.watchpoints) = {[ev |-> id, what |-> what]} \cup ToSet(e.watchpoints)
  /\ id \in 1..f.structs /\ e.structs <= f.structs
  /\ id \notin Ids(e.queue) \cup Ids(e.watchpoints) \cup Ids(e.watchedpoints)

\* sim_events_watch_sim and sim_events_watch_clock do that.
LEMMA WatchAdds ==
  ASSUME NEW e, Whole(e), NEW what \in Points
  PROVE  Watches(e, sim_events_watch(e, what), zalloc_id(e), what)
<1> DEFINE id == zalloc_id(e)
           g == sim_events_zalloc(e)
           x == [ev |-> id, what |-> what]
           t == <<x>> \o g.watchpoints
           f == sim_events_watch(e, what)
<1>0. /\ e.watchpoints \in Seq(Watched) /\ Ordered(e.queue) /\ DistinctIds(e.queue)
      /\ DistinctIds(e.watchpoints) /\ DistinctIds(e.watchedpoints)
      /\ Ids(e.queue) \cap Ids(e.watchpoints) = {} /\ Ids(e.queue) \cap Ids(e.watchedpoints) = {}
      /\ Ids(e.watchpoints) \cap Ids(e.watchedpoints) = {}
      /\ e.queue # <<>> => e.time_of_event = Head(e.queue).time
      /\ sim_events_time(e) \in Nat
  BY DEF Whole, EventsType, Placed, Clocked
<1>1. /\ g \in EventsType /\ SameRest(e, g) /\ g.work_pending = e.work_pending
      /\ g.queue = e.queue /\ g.watchpoints = e.watchpoints /\ g.watchedpoints = e.watchedpoints
      /\ g.time_of_event = e.time_of_event /\ g.time_from_event = e.time_from_event
      /\ Distinct(g.free_list) /\ id \notin ToSet(g.free_list)
      /\ ToSet(g.free_list) \cap (Ids(e.queue) \cup Ids(e.watchpoints) \cup Ids(e.watchedpoints)) = {}
      /\ id \notin Ids(e.queue) \cup Ids(e.watchpoints) \cup Ids(e.watchedpoints)
      /\ {id} \cup ToSet(g.free_list) \cup Ids(e.queue) \cup Ids(e.watchpoints) \cup Ids(e.watchedpoints)
           = 1..g.structs
      /\ id \in Nat /\ e.structs <= g.structs
  BY Zalloc
<1>2. x \in Watched /\ x.ev = id
  BY <1>1 DEF Watched
<1>3. t \in Seq(Watched) /\ ToSet(t) = {x} \cup ToSet(e.watchpoints) /\ DistinctIds(t)
  <2>1. x.ev \notin Ids(e.watchpoints) /\ t = <<x>> \o e.watchpoints
    BY <1>1, <1>2
  <2> HIDE DEF x, id, t
  <2> QED BY <1>0, <1>2, <2>1, ConsFacts
<1>4. f = [g EXCEPT !.watchpoints = t, !.work_pending = TRUE]
  BY DEF sim_events_watch
<1> HIDE DEF t, g, f, id
<1>5. /\ f \in EventsType /\ f.queue = g.queue /\ f.watchpoints = t /\ f.work_pending
      /\ f.watchedpoints = g.watchedpoints /\ f.free_list = g.free_list /\ f.structs = g.structs
      /\ f.nr_ticks_to_process = g.nr_ticks_to_process /\ f.held = g.held
      /\ f.time_of_event = g.time_of_event /\ f.time_from_event = g.time_from_event
  BY <1>1, <1>3, <1>4 DEF EventsType
<1>6. Ids(t) = Ids(e.watchpoints) \cup {id}
  BY <1>2, <1>3, IdsOfSet
<1>7. Placed(f)
  BY <1>0, <1>1, <1>3, <1>5, <1>6 DEF Placed
<1>8. sim_events_time(f) = sim_events_time(e)
  BY <1>1, <1>5 DEF sim_events_time
<1>9. Clocked(f)
  BY <1>0, <1>1, <1>5, <1>8 DEF Clocked
<1>10. SameRest(e, f) /\ id \in 1..f.structs
  BY <1>1, <1>5, <1>8 DEF SameRest
<1> QED BY <1>1, <1>3, <1>5, <1>7, <1>9, <1>10 DEF Watches, Whole, f, id

\* One event is taken out of the lists, and its structure is free.
Descheduled(e, f, id) ==
  /\ Whole(f) /\ SameRest(e, f) /\ f.work_pending = e.work_pending /\ f.structs = e.structs
  /\ ToSet(f.queue) = {x \in ToSet(e.queue) : x.ev # id}
  /\ ToSet(f.watchpoints) = {x \in ToSet(e.watchpoints) : x.ev # id}
  /\ ToSet(f.watchedpoints) = {x \in ToSet(e.watchedpoints) : x.ev # id}

\* The lists without an event, and its structure on the free list, are whole.
LEMMA TakenOut ==
  ASSUME NEW e, Whole(e), NEW id, Queued(e, id),
         NEW f \in EventsType, SameRest(e, f), f.structs = e.structs,
         f.free_list = <<id>> \o e.free_list,
         DistinctIds(f.queue), DistinctIds(f.watchpoints), DistinctIds(f.watchedpoints),
         Ordered(f.queue),
         f.queue # <<>> => f.time_of_event = Head(f.queue).time,
         ToSet(f.queue) = {x \in ToSet(e.queue) : x.ev # id},
         ToSet(f.watchpoints) = {x \in ToSet(e.watchpoints) : x.ev # id},
         ToSet(f.watchedpoints) = {x \in ToSet(e.watchedpoints) : x.ev # id}
  PROVE  Whole(f)
<1>1. /\ e.free_list \in Seq(Nat) /\ Distinct(e.free_list)
      /\ Ids(e.queue) \cap Ids(e.watchpoints) = {} /\ Ids(e.queue) \cap Ids(e.watchedpoints) = {}
      /\ Ids(e.watchpoints) \cap Ids(e.watchedpoints) = {}
      /\ ToSet(e.free_list) \cap (Ids(e.queue) \cup Ids(e.watchpoints) \cup Ids(e.watchedpoints)) = {}
      /\ ToSet(e.free_list) \cup Ids(e.queue) \cup Ids(e.watchpoints) \cup Ids(e.watchedpoints) = 1..e.structs
      /\ sim_events_time(e) \in Nat
  BY DEF Whole, EventsType, Placed, Clocked
<1>2. id \in Ids(e.queue) \cup Ids(e.watchpoints) \cup Ids(e.watchedpoints)
  BY DEF Queued
<1>3. id \in Nat /\ id \notin ToSet(e.free_list)
  BY <1>1, <1>2
<1>4. Distinct(f.free_list) /\ ToSet(f.free_list) = {id} \cup ToSet(e.free_list)
  <2> DEFINE l == e.free_list
             m == f.free_list
  <2>1. l \in Seq(Nat) /\ Distinct(l) /\ id \in Nat /\ id \notin ToSet(l) /\ m = <<id>> \o l
    BY <1>1, <1>3
  <2> HIDE DEF l, m
  <2>2. Distinct(m) /\ ToSet(m) = {id} \cup ToSet(l)
    BY <2>1, ConsFacts
  <2> QED BY <2>2 DEF l, m
<1>5. /\ Ids(f.queue) = Ids(e.queue) \ {id} /\ Ids(f.watchpoints) = Ids(e.watchpoints) \ {id}
      /\ Ids(f.watchedpoints) = Ids(e.watchedpoints) \ {id}
  BY IdsOfSet
<1>6. Placed(f)
  BY <1>1, <1>2, <1>4, <1>5 DEF Placed
<1>7. Clocked(f)
  BY <1>1 DEF Clocked, SameRest
<1> QED BY <1>6, <1>7 DEF Whole

\* sim_events_deschedule does that, and its SIM_ASSERT holds when nothing is overdue.
LEMMA Deschedules ==
  ASSUME NEW e, Whole(e), NEW id
  PROVE  /\ Descheduled(e, sim_events_deschedule(e, id), id)
         /\ (\A x \in ToSet(e.queue) : x.time >= sim_events_time(e)) => DescheduleAsserts(e, id)
<1>0. /\ e \in EventsType /\ e.free_list \in Seq(Nat) /\ e.queue \in Seq(Timed)
      /\ e.watchpoints \in Seq(Watched) /\ e.watchedpoints \in Seq(Watched)
      /\ DistinctIds(e.queue) /\ DistinctIds(e.watchpoints) /\ DistinctIds(e.watchedpoints)
      /\ Ordered(e.queue) /\ sim_events_time(e) \in Nat
  BY DEF Whole, EventsType, Placed, Clocked
<1>1. CASE ~Queued(e, id)
  <2>1. sim_events_deschedule(e, id) = e
    BY <1>1 DEF sim_events_deschedule
  <2>2. id \notin Ids(e.queue) /\ id \notin Ids(e.watchpoints) /\ id \notin Ids(e.watchedpoints)
    BY <1>1 DEF Queued
  <2>3. /\ ToSet(e.queue) = {x \in ToSet(e.queue) : x.ev # id}
        /\ ToSet(e.watchpoints) = {x \in ToSet(e.watchpoints) : x.ev # id}
        /\ ToSet(e.watchedpoints) = {x \in ToSet(e.watchedpoints) : x.ev # id}
    BY <2>2, IdsOfSet
  <2> QED BY <1>1, <2>1, <2>3 DEF Descheduled, SameRest, DescheduleAsserts
<1>2. CASE Queued(e, id)
  <2> DEFINE q == Without(e.queue, id)
             w == Without(e.watchpoints, id)
             d == Without(e.watchedpoints, id)
             h == [e EXCEPT !.queue = q, !.watchpoints = w, !.watchedpoints = d,
                            !.free_list = <<id>> \o e.free_list]
             f == sim_events_deschedule(e, id)
  <2>1. /\ q \in Seq(Timed) /\ DistinctIds(q) /\ Ordered(q) /\ ToSet(q) = {x \in ToSet(e.queue) : x.ev # id}
        /\ w \in Seq(Watched) /\ DistinctIds(w) /\ ToSet(w) = {x \in ToSet(e.watchpoints) : x.ev # id}
        /\ d \in Seq(Watched) /\ DistinctIds(d) /\ ToSet(d) = {x \in ToSet(e.watchedpoints) : x.ev # id}
    BY <1>0, WithoutFacts
  <2>2. id \in Nat
    <3>1. id \in 1..e.structs
      BY <1>2 DEF Queued, Whole, Placed
    <3> QED BY <1>0, <3>1 DEF EventsType
  <2>3. <<id>> \o e.free_list \in Seq(Nat)
    BY <1>0, <2>2
  <2>4. f = update_time_from_event(h)
    BY <1>0, <1>2 DEF sim_events_deschedule, sim_events_free, EventsType
  <2> HIDE DEF q, w, d, f
  <2>5. /\ h \in EventsType /\ h.queue = q /\ h.watchpoints = w /\ h.watchedpoints = d
        /\ h.free_list = <<id>> \o e.free_list /\ h.structs = e.structs
        /\ h.nr_ticks_to_process = e.nr_ticks_to_process /\ h.held = e.held
        /\ h.work_pending = e.work_pending /\ sim_events_time(h) = sim_events_time(e)
    BY <1>0, <2>1, <2>3 DEF EventsType, sim_events_time
  <2> HIDE DEF h
  <2>6. /\ f \in EventsType /\ SameRest(h, f) /\ f.work_pending = h.work_pending
        /\ f.queue = h.queue /\ f.watchpoints = h.watchpoints /\ f.watchedpoints = h.watchedpoints
        /\ f.free_list = h.free_list /\ f.structs = h.structs
        /\ h.queue # <<>> => f.time_of_event = Head(f.queue).time
        /\ f.time_from_event = IF h.queue = <<>> THEN -1 ELSE Head(h.queue).time - sim_events_time(h)
    BY <1>0, <2>4, <2>5, UpdateTime
  <2>7. SameRest(e, f)
    BY <2>5, <2>6 DEF SameRest
  <2>8. Whole(f)
    BY <1>2, <2>1, <2>5, <2>6, <2>7, TakenOut
  <2>9. Descheduled(e, f, id)
    BY <2>1, <2>5, <2>6, <2>7, <2>8 DEF Descheduled
  <2>10. ASSUME \A x \in ToSet(e.queue) : x.time >= sim_events_time(e) PROVE DescheduleAsserts(e, id)
    <3>1. CASE q = <<>>
      BY <2>5, <2>6, <3>1 DEF DescheduleAsserts, f
    <3>2. CASE q # <<>>
      <4>1. Head(q) \in ToSet(q) /\ Head(q) \in Timed
        BY <2>1, <3>2, TailFacts
      <4>2. Head(q).time >= sim_events_time(e) /\ Head(q).time \in Nat
        BY <2>1, <2>10, <4>1 DEF Timed
      <4>3. f.time_from_event >= 0
        BY <1>0, <2>5, <2>6, <3>2, <4>2
      <4> QED BY <2>5, <2>6, <3>2, <4>3 DEF DescheduleAsserts, f
    <3> QED BY <3>1, <3>2
  <2> QED BY <2>9, <2>10 DEF f
<1> QED BY <1>1, <1>2

\* A list is empty if no event is in it.
LEMMA EmptyList == \A S : \A s \in Seq(S) : s = <<>> <=> ToSet(s) = {}
<1> SUFFICES ASSUME NEW S, NEW s \in Seq(S) PROVE s = <<>> <=> ToSet(s) = {}
  OBVIOUS
<1>1. ASSUME s # <<>> PROVE ToSet(s) # {}
  <2>1. 1 \in DOMAIN s
    BY <1>1
  <2> QED BY <2>1 DEF ToSet
<1>2. ASSUME s = <<>> PROVE ToSet(s) = {}
  <2>1. DOMAIN s = {}
    BY <1>2
  <2> QED BY <2>1 DEF ToSet
<1> QED BY <1>1, <1>2

\* The first event of the queue is taken out to be handled.
LEMMA QueueTakes ==
  ASSUME NEW e, Whole(e), e.queue # <<>>,
         NEW f, f = sim_events_free(update_time_from_event([e EXCEPT !.queue = Tail(@)]), Head(e.queue).ev)
  PROVE  /\ Descheduled(e, f, Head(e.queue).ev)
         /\ Head(e.queue) \in ToSet(e.queue) /\ Head(e.queue) \in Timed
         /\ \A y \in ToSet(e.queue) : Head(e.queue).time <= y.time
<1> DEFINE x == Head(e.queue)
           id == Head(e.queue).ev
           t == Tail(e.queue)
           h == [e EXCEPT !.queue = t]
           g == update_time_from_event(h)
<1>0. /\ e \in EventsType /\ e.free_list \in Seq(Nat) /\ e.queue \in Seq(Timed)
      /\ DistinctIds(e.queue) /\ DistinctIds(e.watchpoints) /\ DistinctIds(e.watchedpoints)
      /\ Ordered(e.queue) /\ sim_events_time(e) \in Nat
      /\ Ids(e.queue) \cap Ids(e.watchpoints) = {} /\ Ids(e.queue) \cap Ids(e.watchedpoints) = {}
  BY DEF Whole, EventsType, Placed, Clocked
<1>1. /\ t \in Seq(Timed) /\ DistinctIds(t) /\ Ordered(t) /\ x \in ToSet(e.queue) /\ x \in Timed
      /\ ToSet(t) = {y \in ToSet(e.queue) : y.ev # id}
      /\ \A y \in ToSet(e.queue) : x.time <= y.time
  BY <1>0, TailFacts
<1>2. id \in Nat /\ id \in Ids(e.queue) /\ Queued(e, id)
  BY <1>1, IdsOfSet DEF Timed, Queued
<1>3. <<id>> \o e.free_list \in Seq(Nat)
  BY <1>0, <1>2
<1>4. f = [g EXCEPT !.free_list = <<id>> \o @]
  BY DEF sim_events_free
<1> HIDE DEF x, id, t, g
<1>5. /\ h \in EventsType /\ h.queue = t /\ h.watchpoints = e.watchpoints
      /\ h.watchedpoints = e.watchedpoints /\ h.free_list = e.free_list /\ h.structs = e.structs
      /\ h.nr_ticks_to_process = e.nr_ticks_to_process /\ h.held = e.held
      /\ h.work_pending = e.work_pending /\ sim_events_time(h) = sim_events_time(e)
  BY <1>0, <1>1 DEF EventsType, sim_events_time
<1>6. g = update_time_from_event(h)
  BY DEF g
<1> HIDE DEF h
<1>7. /\ g \in EventsType /\ SameRest(h, g) /\ g.work_pending = h.work_pending
      /\ g.queue = h.queue /\ g.watchpoints = h.watchpoints /\ g.watchedpoints = h.watchedpoints
      /\ g.free_list = h.free_list /\ g.structs = h.structs
      /\ h.queue # <<>> => g.time_of_event = Head(g.queue).time
  BY <1>0, <1>5, <1>6, UpdateTime
<1>8. /\ f \in EventsType /\ f.queue = g.queue /\ f.watchpoints = g.watchpoints
      /\ f.watchedpoints = g.watchedpoints /\ f.free_list = <<id>> \o e.free_list /\ f.structs = g.structs
      /\ f.nr_ticks_to_process = g.nr_ticks_to_process /\ f.held = g.held
      /\ f.work_pending = g.work_pending /\ sim_events_time(f) = sim_events_time(g)
      /\ f.time_of_event = g.time_of_event
  BY <1>3, <1>4, <1>5, <1>7 DEF EventsType, sim_events_time
<1>9. SameRest(e, f)
  BY <1>5, <1>7, <1>8 DEF SameRest
<1>10. /\ ToSet(e.watchpoints) = {y \in ToSet(e.watchpoints) : y.ev # id}
       /\ ToSet(e.watchedpoints) = {y \in ToSet(e.watchedpoints) : y.ev # id}
  BY <1>0, <1>2, IdsOfSet
<1>11. /\ ToSet(f.queue) = {y \in ToSet(e.queue) : y.ev # id} /\ DistinctIds(f.queue) /\ Ordered(f.queue)
       /\ ToSet(f.watchpoints) = {y \in ToSet(e.watchpoints) : y.ev # id} /\ DistinctIds(f.watchpoints)
       /\ ToSet(f.watchedpoints) = {y \in ToSet(e.watchedpoints) : y.ev # id}
       /\ DistinctIds(f.watchedpoints) /\ f.structs = e.structs /\ f.work_pending = e.work_pending
       /\ f.queue # <<>> => f.time_of_event = Head(f.queue).time
  BY <1>0, <1>1, <1>5, <1>7, <1>8, <1>10
<1>12. Whole(f)
  BY <1>2, <1>8, <1>9, <1>11, TakenOut
<1>13. Descheduled(e, f, id)
  BY <1>9, <1>11, <1>12 DEF Descheduled
<1> QED BY <1>1, <1>13 DEF x, id

\* The first watchpoint is taken out to be handled.
LEMMA WatchTakes ==
  ASSUME NEW e, Whole(e), e.watchpoints # <<>>,
         NEW f, f = sim_events_free([e EXCEPT !.watchpoints = Tail(@)], Head(e.watchpoints).ev)
  PROVE  /\ Descheduled(e, f, Head(e.watchpoints).ev)
         /\ Head(e.watchpoints) \in ToSet(e.watchpoints) /\ Head(e.watchpoints) \in Watched
<1> DEFINE x == Head(e.watchpoints)
           id == Head(e.watchpoints).ev
           t == Tail(e.watchpoints)
<1>0. /\ e \in EventsType /\ e.free_list \in Seq(Nat) /\ e.watchpoints \in Seq(Watched)
      /\ DistinctIds(e.queue) /\ DistinctIds(e.watchpoints) /\ DistinctIds(e.watchedpoints)
      /\ Ordered(e.queue)
      /\ e.queue # <<>> => e.time_of_event = Head(e.queue).time
      /\ Ids(e.queue) \cap Ids(e.watchpoints) = {} /\ Ids(e.watchpoints) \cap Ids(e.watchedpoints) = {}
  BY DEF Whole, EventsType, Placed, Clocked
<1>1. /\ t \in Seq(Watched) /\ DistinctIds(t) /\ x \in ToSet(e.watchpoints) /\ x \in Watched
      /\ ToSet(t) = {y \in ToSet(e.watchpoints) : y.ev # id}
  BY <1>0, TailFacts
<1>2. id \in Nat /\ id \in Ids(e.watchpoints) /\ Queued(e, id)
  BY <1>1, IdsOfSet DEF Watched, Queued
<1>3. <<id>> \o e.free_list \in Seq(Nat)
  BY <1>0, <1>2
<1>4. f = [e EXCEPT !.watchpoints = t, !.free_list = <<id>> \o @]
  BY <1>0 DEF sim_events_free, EventsType
<1> HIDE DEF x, id, t
<1>5. /\ f \in EventsType /\ f.queue = e.queue /\ f.watchpoints = t
      /\ f.watchedpoints = e.watchedpoints /\ f.free_list = <<id>> \o e.free_list /\ f.structs = e.structs
      /\ f.nr_ticks_to_process = e.nr_ticks_to_process /\ f.held = e.held
      /\ f.work_pending = e.work_pending /\ sim_events_time(f) = sim_events_time(e)
      /\ f.time_of_event = e.time_of_event
  BY <1>0, <1>1, <1>3, <1>4 DEF EventsType, sim_events_time
<1>6. SameRest(e, f)
  BY <1>5 DEF SameRest
<1>7. /\ ToSet(e.queue) = {y \in ToSet(e.queue) : y.ev # id}
      /\ ToSet(e.watchedpoints) = {y \in ToSet(e.watchedpoints) : y.ev # id}
  BY <1>0, <1>2, IdsOfSet
<1>a. /\ ToSet(f.queue) = {y \in ToSet(e.queue) : y.ev # id} /\ DistinctIds(f.queue) /\ Ordered(f.queue)
      /\ ToSet(f.watchpoints) = {y \in ToSet(e.watchpoints) : y.ev # id} /\ DistinctIds(f.watchpoints)
      /\ ToSet(f.watchedpoints) = {y \in ToSet(e.watchedpoints) : y.ev # id}
      /\ DistinctIds(f.watchedpoints) /\ f.structs = e.structs /\ f.work_pending = e.work_pending
      /\ f.queue # <<>> => f.time_of_event = Head(f.queue).time
  BY <1>0, <1>1, <1>5, <1>7
<1>8. Whole(f)
  BY <1>2, <1>5, <1>6, <1>a, TakenOut
<1>9. Descheduled(e, f, id)
  BY <1>6, <1>8, <1>a DEF Descheduled
<1> QED BY <1>1, <1>9 DEF x, id

\* The first watchpoint waits on the watched list.
LEMMA WatchMoves ==
  ASSUME NEW e, Whole(e), e.watchpoints # <<>>,
         NEW f, f = [[e EXCEPT !.watchpoints = Tail(@)] EXCEPT !.watchedpoints = <<Head(e.watchpoints)>> \o @]
  PROVE  /\ Whole(f) /\ SameRest(e, f) /\ f.work_pending = e.work_pending /\ f.structs = e.structs
         /\ f.queue = e.queue
         /\ ToSet(f.watchpoints) \cup ToSet(f.watchedpoints) = ToSet(e.watchpoints) \cup ToSet(e.watchedpoints)
<1> DEFINE x == Head(e.watchpoints)
           t == Tail(e.watchpoints)
           u == <<x>> \o e.watchedpoints
<1>0. /\ e \in EventsType /\ e.watchpoints \in Seq(Watched) /\ e.watchedpoints \in Seq(Watched)
      /\ DistinctIds(e.queue) /\ DistinctIds(e.watchpoints) /\ DistinctIds(e.watchedpoints)
      /\ Distinct(e.free_list)
      /\ Ids(e.queue) \cap Ids(e.watchpoints) = {} /\ Ids(e.queue) \cap Ids(e.watchedpoints) = {}
      /\ Ids(e.watchpoints) \cap Ids(e.watchedpoints) = {}
      /\ ToSet(e.free_list) \cap (Ids(e.queue) \cup Ids(e.watchpoints) \cup Ids(e.watchedpoints)) = {}
      /\ ToSet(e.free_list) \cup Ids(e.queue) \cup Ids(e.watchpoints) \cup Ids(e.watchedpoints) = 1..e.structs
  BY DEF Whole, EventsType, Placed, Clocked
<1>1. /\ t \in Seq(Watched) /\ DistinctIds(t) /\ x \in ToSet(e.watchpoints) /\ x \in Watched
      /\ ToSet(t) = {y \in ToSet(e.watchpoints) : y.ev # x.ev}
  BY <1>0, TailFacts
<1>2. x.ev \in Ids(e.watchpoints) /\ x.ev \notin Ids(e.watchedpoints)
  BY <1>0, <1>1, IdsOfSet
<1>3. u \in Seq(Watched) /\ DistinctIds(u) /\ ToSet(u) = {x} \cup ToSet(e.watchedpoints)
  <2> HIDE DEF x
  <2> QED BY <1>0, <1>1, <1>2, ConsFacts
<1>4. f = [e EXCEPT !.watchpoints = t, !.watchedpoints = u]
  BY <1>0 DEF EventsType
<1>a. \A y \in ToSet(e.watchpoints) : y.ev = x.ev => y = x
  <2>1. \A i, j \in DOMAIN e.watchpoints : e.watchpoints[i].ev = e.watchpoints[j].ev => i = j
    BY <1>0 DEF DistinctIds
  <2> HIDE DEF x
  <2> QED BY <1>1, <2>1 DEF ToSet
<1> HIDE DEF x, t, u
<1>5. /\ f \in EventsType /\ f.queue = e.queue /\ f.watchpoints = t /\ f.watchedpoints = u
      /\ f.free_list = e.free_list /\ f.structs = e.structs
      /\ f.nr_ticks_to_process = e.nr_ticks_to_process /\ f.held = e.held
      /\ f.work_pending = e.work_pending /\ sim_events_time(f) = sim_events_time(e)
      /\ f.time_of_event = e.time_of_event
  BY <1>0, <1>1, <1>3, <1>4 DEF EventsType, sim_events_time
<1>6. ToSet(t) \cup ToSet(u) = ToSet(e.watchpoints) \cup ToSet(e.watchedpoints)
  BY <1>1, <1>3, <1>a
<1>7. Ids(t) = Ids(e.watchpoints) \ {x.ev} /\ Ids(u) = {x.ev} \cup Ids(e.watchedpoints)
  BY <1>1, <1>3, IdsOfSet
<1>8. Placed(f)
  <2>1. /\ Ids(f.queue) \cap Ids(f.watchpoints) = {} /\ Ids(f.queue) \cap Ids(f.watchedpoints) = {}
        /\ Ids(f.watchpoints) \cap Ids(f.watchedpoints) = {}
    <3>1. /\ Ids(e.queue) \cap Ids(e.watchpoints) = {} /\ Ids(e.queue) \cap Ids(e.watchedpoints) = {}
          /\ Ids(e.watchpoints) \cap Ids(e.watchedpoints) = {}
      BY <1>0
    <3>2. /\ Ids(f.queue) = Ids(e.queue) /\ Ids(f.watchpoints) = Ids(e.watchpoints) \ {x.ev}
          /\ Ids(f.watchedpoints) = {x.ev} \cup Ids(e.watchedpoints)
      BY <1>5, <1>7
    <3> QED BY <1>2, <3>1, <3>2
  <2>2. Ids(f.watchpoints) \cup Ids(f.watchedpoints) = Ids(e.watchpoints) \cup Ids(e.watchedpoints)
    BY <1>2, <1>5, <1>7
  <2>3. /\ ToSet(f.free_list) \cap (Ids(f.queue) \cup Ids(f.watchpoints) \cup Ids(f.watchedpoints)) = {}
        /\ ToSet(f.free_list) \cup Ids(f.queue) \cup Ids(f.watchpoints) \cup Ids(f.watchedpoints) = 1..f.structs
    BY <1>0, <1>5, <2>2
  <2> QED BY <1>0, <1>1, <1>3, <1>5, <2>1, <2>3 DEF Placed
<1>9. Clocked(f)
  BY <1>5 DEF Clocked, Whole
<1> QED BY <1>5, <1>6, <1>8, <1>9 DEF Whole, SameRest

\* At the end of a round the watched list becomes the list of watchpoints, and time goes on.
LEMMA RoundEnds ==
  ASSUME Whole(events), events.watchpoints = <<>>, Finish
  PROVE  /\ Whole(events') /\ events'.structs = events.structs /\ events'.queue = events.queue
         /\ events'.held = events.held /\ events'.nr_ticks_to_process = 0
         /\ events'.watchpoints = events.watchedpoints /\ events'.watchedpoints = <<>>
         /\ events'.work_pending = (events.work_pending \/ events.watchedpoints # <<>>)
         /\ Now' = Now + events.nr_ticks_to_process
<1>0. /\ events \in EventsType /\ events.watchedpoints \in Seq(Watched) /\ events.nr_ticks_to_process \in Nat
      /\ events.time_from_event \in Int /\ events.time_of_event \in Int /\ sim_events_time(events) \in Nat
      /\ events.work_pending \in BOOLEAN /\ DistinctIds(events.watchpoints)
  BY DEF Whole, EventsType, Placed, Clocked
<1> DEFINE flag == events.work_pending \/ events.watchedpoints # <<>>
           rest == events.time_from_event - events.nr_ticks_to_process
<1>1. <<>> \in Seq(Watched) /\ rest \in Int /\ flag \in BOOLEAN
  BY <1>0
<1>a. events' = [events EXCEPT !.watchpoints = events.watchedpoints, !.watchedpoints = <<>>,
                               !.work_pending = flag, !.time_from_event = rest, !.nr_ticks_to_process = 0]
  BY DEF Finish
<1> HIDE DEF flag, rest
<1>2. /\ events' \in EventsType /\ events'.queue = events.queue
      /\ events'.watchpoints = events.watchedpoints /\ events'.watchedpoints = <<>>
      /\ events'.free_list = events.free_list /\ events'.structs = events.structs
      /\ events'.nr_ticks_to_process = 0 /\ events'.held = events.held /\ events'.work_pending = flag
      /\ events'.time_of_event = events.time_of_event /\ events'.time_from_event = rest
  BY <1>0, <1>1, <1>a DEF EventsType
<1>3. sim_events_time(events') = sim_events_time(events) + events.nr_ticks_to_process
  BY <1>0, <1>2 DEF sim_events_time, rest
<1>4. Ids(events.watchpoints) = {} /\ Ids(events'.watchedpoints) = {} /\ DistinctIds(events'.watchedpoints)
  BY <1>0, <1>2 DEF Ids, DistinctIds
<1>5. Placed(events')
  BY <1>2, <1>4 DEF Placed, Whole
<1>6. Clocked(events')
  BY <1>0, <1>2, <1>3 DEF Clocked, Whole
<1>7. Now' = Now + events.nr_ticks_to_process
  BY <1>3 DEF Now
<1> QED BY <1>2, <1>5, <1>6, <1>7 DEF Whole, flag

\* A step that leaves the lists alone: only the flag, the clock, the ticks and the held events
\* may change.
Ticks(e, f, d) ==
  /\ Whole(f) /\ f.structs = e.structs /\ f.queue = e.queue
  /\ f.watchpoints = e.watchpoints /\ f.watchedpoints = e.watchedpoints
  /\ sim_events_time(f) = sim_events_time(e) + d

\* The fields that have to be the same in such a step.
LEMMA OnlyTicks ==
  ASSUME NEW e, Whole(e), NEW f \in EventsType, NEW d \in Nat,
         f.queue = e.queue, f.watchpoints = e.watchpoints, f.watchedpoints = e.watchedpoints,
         f.free_list = e.free_list, f.structs = e.structs, f.time_of_event = e.time_of_event,
         f.time_from_event = e.time_from_event - d
  PROVE  Ticks(e, f, d)
<1>0. /\ e \in EventsType /\ e.time_from_event \in Int /\ e.time_of_event \in Int
      /\ sim_events_time(e) \in Nat
  BY DEF Whole, EventsType, Placed, Clocked
<1>1. sim_events_time(f) = sim_events_time(e) + d
  BY <1>0 DEF sim_events_time
<1>2. Placed(f)
  BY DEF Placed, Whole
<1>3. Clocked(f)
  BY <1>0, <1>1 DEF Clocked, Whole
<1> QED BY <1>1, <1>2, <1>3 DEF Whole, Ticks

\* An event is added, and the held events or the flag change.
LEMMA AddsAndTicks ==
  ASSUME NEW e, NEW f, NEW g, NEW id, NEW what, NEW delta,
         Adds(e, g, id, what, delta), Ticks(g, f, 0), f.nr_ticks_to_process = g.nr_ticks_to_process
  PROVE  Adds(e, f, id, what, delta)
<1>1. sim_events_time(g) \in Nat /\ sim_events_time(f) = sim_events_time(g) + 0
  BY DEF Adds, Ticks, Whole, Clocked
<1>2. sim_events_time(f) = sim_events_time(g)
  BY <1>1
<1> QED BY <1>2 DEF Adds, Ticks

\* An id tells the events in the lists apart.
LEMMA UniqueIds ==
  ASSUME NEW e, Whole(e),
         NEW x \in ToSet(e.queue) \cup ToSet(e.watchpoints) \cup ToSet(e.watchedpoints),
         NEW y \in ToSet(e.queue) \cup ToSet(e.watchpoints) \cup ToSet(e.watchedpoints)
  PROVE  /\ x.ev = y.ev => x = y
         /\ x.ev \in 1..e.structs /\ x.ev # NULL
         /\ x \in ToSet(e.queue) => x \in Timed
         /\ x \in ToSet(e.watchpoints) \cup ToSet(e.watchedpoints) => x \in Watched
<1>1. /\ \A a, b \in ToSet(e.queue) : a.ev = b.ev => a = b
      /\ \A a, b \in ToSet(e.watchpoints) : a.ev = b.ev => a = b
      /\ \A a, b \in ToSet(e.watchedpoints) : a.ev = b.ev => a = b
  BY DEF Whole, Placed, DistinctIds, ToSet
<1>2. /\ \A a \in ToSet(e.queue) : a.ev \in Ids(e.queue)
      /\ \A a \in ToSet(e.watchpoints) : a.ev \in Ids(e.watchpoints)
      /\ \A a \in ToSet(e.watchedpoints) : a.ev \in Ids(e.watchedpoints)
  BY IdsOfSet
<1>3. /\ Ids(e.queue) \cap Ids(e.watchpoints) = {} /\ Ids(e.queue) \cap Ids(e.watchedpoints) = {}
      /\ Ids(e.watchpoints) \cap Ids(e.watchedpoints) = {}
      /\ ToSet(e.free_list) \cup Ids(e.queue) \cup Ids(e.watchpoints) \cup Ids(e.watchedpoints) = 1..e.structs
  BY DEF Whole, Placed
<1>4. x.ev = y.ev => x = y
  BY <1>1, <1>2, <1>3
<1>5. x.ev \in 1..e.structs
  BY <1>2, <1>3
<1>6. e.queue \in Seq(Timed) /\ e.watchpoints \in Seq(Watched) /\ e.watchedpoints \in Seq(Watched) /\ e.structs \in Nat
  BY DEF Whole, EventsType
<1>7. x.ev # NULL
  BY <1>5, <1>6 DEF NULL
<1>8. \A S : \A s \in Seq(S) : \A a \in ToSet(s) : a \in S
  BY DEF ToSet
<1> QED BY <1>4, <1>5, <1>6, <1>7, <1>8

-----------------------------------------------------------------------------
(* The lists and their owners.                                             *)

Listed == ToSet(events.queue) \cup ToSet(events.watchpoints) \cup ToSet(events.watchedpoints)

SeenType == [insns : Nat, step : BOOLEAN, watched : SUBSET (Points \cup Timers), again : BOOLEAN,
             calls : Nat, signals : Nat]

\* The types, with the lists whole.
Types ==
  /\ Whole(events) /\ Len(events.held) <= MAX_NR_SIGNAL_SIM_EVENTS
  /\ engine \in [stepper : {NULL} \cup Structs, last : {"events", "cpu"}]
  /\ pc \in {"halted", "preprocess", "cpu", "process", "held", "moving", "watch", "queue",
             "handler", "callback"}
  /\ run \in [time : Nat, place : {"watch", "queue", "none"}, what : Kinds \cup {"none"},
              at : [ev : Nat, time : Nat]]
  /\ points \in [Points -> [ev : {NULL} \cup Structs, type : {"pc", "clock", "cycles"},
                            periodic : BOOLEAN, arg0 : Nat]]
  /\ hw \in [Timers -> {NULL} \cup Structs]
  /\ aborted \in {"no", "assert", "overflow"}
  /\ style \in [slip : BOOLEAN, n : Nat \ {0}]
  /\ seen \in SeenType

\* An event of a timer or of a watchpoint is the one that its owner points to; a watchpoint is
\* in the queue exactly if it counts cycles.
Owned ==
  /\ \A x \in ToSet(events.queue) :
       /\ x.what \in Timers => hw[x.what] = x.ev
       /\ x.what \in Points => points[x.what].ev = x.ev /\ points[x.what].type = "cycles"
  /\ \A x \in ToSet(events.watchpoints) \cup ToSet(events.watchedpoints) :
       points[x.what].ev = x.ev /\ points[x.what].type # "cycles"

\* What is known of the handler being called; what it is called for has left the lists.  All
\* the watchpoints have been looked at when the queue is.
Calling ==
  /\ ~InCall => run.what = "none" /\ run.place = "none" /\ run.at = NoEvent
  /\ InCall => run.what # "none" /\ run.place # "none"
  /\ pc = "callback" => run.what \in Timers /\ run.place = "queue"
  /\ run.place = "watch" => run.what \in Points
  /\ pc = "handler" =>
       /\ \A x \in Listed : run.what \in Points \cup Timers => x.what # run.what
       /\ run.what \in Points => (run.place = "queue" <=> points[run.what].type = "cycles")
  /\ (pc = "queue" \/ run.place = "queue") => events.watchpoints = <<>>

ListsInv == Types /\ Owned /\ Calling

\* What the kinds of events are.
LEMMA KindsApart ==
  /\ \A p \in Points : p \notin Timers /\ p \notin {"poll", "step", "stop", "none"} /\ p \in Kinds
  /\ \A h \in Timers : h \notin Points /\ h \notin {"poll", "step", "stop", "none"} /\ h \in Kinds
  /\ \A s \in {"poll", "step", "stop", "none"} : s \notin Points /\ s \notin Timers
  /\ {"poll", "step", "stop"} \subseteq Kinds /\ "none" \notin Kinds
BY SimAssumption DEF Kinds

\* The types of the fields of the events structure.
LEMMA FieldTypes ==
  ASSUME NEW e, Whole(e)
  PROVE  /\ e \in EventsType /\ e.queue \in Seq(Timed) /\ e.watchpoints \in Seq(Watched)
         /\ e.watchedpoints \in Seq(Watched) /\ e.free_list \in Seq(Nat) /\ e.held \in Seq({0})
         /\ e.nr_ticks_to_process \in Nat /\ e.work_pending \in BOOLEAN /\ e.structs \in Nat
         /\ e.time_of_event \in Int /\ e.time_from_event \in Int /\ sim_events_time(e) \in Nat
         /\ \A x \in ToSet(e.queue) : x \in Timed /\ x.what \in Kinds /\ x.time \in Nat
         /\ \A x \in ToSet(e.watchpoints) \cup ToSet(e.watchedpoints) : x \in Watched /\ x.what \in Points
<1>1. /\ e \in EventsType /\ e.queue \in Seq(Timed) /\ e.watchpoints \in Seq(Watched)
      /\ e.watchedpoints \in Seq(Watched) /\ e.free_list \in Seq(Nat) /\ e.held \in Seq({0})
      /\ e.nr_ticks_to_process \in Nat /\ e.work_pending \in BOOLEAN /\ e.structs \in Nat
      /\ e.time_of_event \in Int /\ e.time_from_event \in Int /\ sim_events_time(e) \in Nat
  BY DEF Whole, EventsType, Clocked
<1>2. /\ \A x \in ToSet(e.queue) : x \in Timed
      /\ \A x \in ToSet(e.watchpoints) \cup ToSet(e.watchedpoints) : x \in Watched
  BY UniqueIds
<1>3. /\ \A x \in Timed : x.what \in Kinds /\ x.time \in Nat
      /\ \A x \in Watched : x.what \in Points
  BY DEF Timed, Watched
<1> QED BY <1>1, <1>2, <1>3

\* sim_events_tick and sim_events_tickn: the ticks are left to a round, or they pass.
LEMMA TickEffect ==
  ASSUME Whole(events), NEW due, NEW n \in Nat, Tick(due, n)
  PROVE  /\ events'.held = events.held /\ events'.work_pending = events.work_pending
         /\ \/ /\ pc' = "process" /\ Ticks(events, events', 0) /\ (events.work_pending \/ due)
               /\ events'.nr_ticks_to_process = events.nr_ticks_to_process + n
            \/ /\ pc' = "cpu" /\ Ticks(events, events', n) /\ ~events.work_pending /\ ~due
               /\ events'.nr_ticks_to_process = events.nr_ticks_to_process
<1>0. /\ events \in EventsType /\ events.nr_ticks_to_process \in Nat /\ events.held \in Seq({0})
      /\ events.work_pending \in BOOLEAN /\ events.time_from_event \in Int
  BY FieldTypes
<1> DEFINE nr == events.nr_ticks_to_process
<1>1. CASE events.work_pending \/ due
  <2>1. pc' = "process" /\ events' = [events EXCEPT !.nr_ticks_to_process = nr + n]
    BY <1>1 DEF Tick
  <2>2. nr + n \in Nat /\ events.time_from_event - 0 = events.time_from_event
    BY <1>0
  <2> HIDE DEF nr
  <2>3. /\ events' \in EventsType /\ events'.nr_ticks_to_process = nr + n
        /\ events'.held = events.held /\ events'.work_pending = events.work_pending
        /\ events'.queue = events.queue /\ events'.watchpoints = events.watchpoints
        /\ events'.watchedpoints = events.watchedpoints /\ events'.free_list = events.free_list
        /\ events'.structs = events.structs /\ events'.time_of_event = events.time_of_event
        /\ events'.time_from_event = events.time_from_event - 0
    BY <1>0, <2>1, <2>2 DEF EventsType
  <2>4. Ticks(events, events', 0)
    BY <2>3, OnlyTicks
  <2> QED BY <1>1, <2>1, <2>3, <2>4 DEF nr
<1>2. CASE ~(events.work_pending \/ due)
  <2>1. pc' = "cpu" /\ events' = [events EXCEPT !.time_from_event = @ - n]
    BY <1>2 DEF Tick
  <2>2. events.time_from_event - n \in Int
    BY <1>0
  <2>3. /\ events' \in EventsType /\ events'.nr_ticks_to_process = nr
        /\ events'.held = events.held /\ events'.work_pending = events.work_pending
        /\ events'.queue = events.queue /\ events'.watchpoints = events.watchpoints
        /\ events'.watchedpoints = events.watchedpoints /\ events'.free_list = events.free_list
        /\ events'.structs = events.structs /\ events'.time_of_event = events.time_of_event
        /\ events'.time_from_event = events.time_from_event - n
    BY <1>0, <2>1, <2>2 DEF EventsType
  <2>4. Ticks(events, events', n)
    BY <2>3, OnlyTicks
  <2> QED BY <1>2, <2>1, <2>3, <2>4
<1> QED BY <1>1, <1>2

\* A step that leaves the lists and their owners alone.
LEMMA SameLists ==
  ASSUME ListsInv, NEW d, Ticks(events, events', d), points' = points, hw' = hw
  PROVE  Owned' /\ Listed' = Listed /\ Structs' = Structs /\ Whole(events')
<1>1. /\ events'.queue = events.queue /\ events'.watchpoints = events.watchpoints
      /\ events'.watchedpoints = events.watchedpoints /\ events'.structs = events.structs
      /\ Whole(events')
  BY DEF Ticks
<1>2. Listed' = Listed /\ Structs' = Structs
  BY <1>1 DEF Listed, Structs
<1>3. Owned'
  BY <1>1 DEF ListsInv, Owned
<1> QED BY <1>1, <1>2, <1>3

\* A step that does not touch the events structure.
LEMMA Untouched == ASSUME NEW e, Whole(e) PROVE Ticks(e, e, 0)
<1>1. e \in EventsType /\ e.time_from_event \in Int
  BY FieldTypes
<1>2. e.time_from_event = e.time_from_event - 0
  BY <1>1
<1> QED BY <1>1, <1>2, OnlyTicks

\* sim_stop holds an event and flags it.
LEMMA StopEffect ==
  ASSUME NEW e, Whole(e), Len(e.held) < MAX_NR_SIGNAL_SIM_EVENTS
  PROVE  /\ Ticks(e, sim_stop(e), 0) /\ sim_stop(e).nr_ticks_to_process = e.nr_ticks_to_process
         /\ Len(sim_stop(e).held) <= MAX_NR_SIGNAL_SIM_EVENTS /\ sim_stop(e).work_pending
<1> DEFINE f == sim_stop(e)
           q == Append(e.held, 0)
<1>0. e \in EventsType /\ e.held \in Seq({0}) /\ e.time_from_event \in Int
  BY FieldTypes
<1>1. q \in Seq({0}) /\ Len(q) = Len(e.held) + 1 /\ Len(e.held) \in Nat
  BY <1>0
<1>2. f = [e EXCEPT !.held = q, !.work_pending = TRUE]
  BY DEF sim_stop
<1> HIDE DEF f, q
<1>3. /\ f \in EventsType /\ f.nr_ticks_to_process = e.nr_ticks_to_process /\ f.held = q /\ f.work_pending
      /\ f.queue = e.queue /\ f.watchpoints = e.watchpoints /\ f.watchedpoints = e.watchedpoints
      /\ f.free_list = e.free_list /\ f.structs = e.structs /\ f.time_of_event = e.time_of_event
      /\ f.time_from_event = e.time_from_event
  BY <1>0, <1>1, <1>2 DEF EventsType
<1>4. f.time_from_event = e.time_from_event - 0
  BY <1>0, <1>3
<1>5. Ticks(e, f, 0)
  BY <1>3, <1>4, OnlyTicks
<1>6. Len(q) <= MAX_NR_SIGNAL_SIM_EVENTS
  BY <1>1, SimAssumption
<1> QED BY <1>3, <1>5, <1>6 DEF f

\* One of the ticks after an instruction.
LEMMA InsnTicks ==
  ASSUME ListsInv, Insn
  PROVE  \E n \in 1..style.n :
           \/ style.n = 1 /\ n = 1 /\ Tick(events.time_from_event = 0, n)
           \/ style.n > 1 /\ Tick(events.time_from_event < n, n)
<1>1. style.n \in Nat \ {0}
  BY DEF ListsInv, Types
<1>2. CASE style.n = 1 /\ sim_events_tick
  BY <1>2 DEF sim_events_tick
<1>3. CASE style.n > 1 /\ \E n \in 1..style.n : sim_events_tickn(n)
  BY <1>3 DEF sim_events_tickn
<1> QED BY <1>2, <1>3 DEF Insn

\* An instruction keeps the lists.
LEMMA InsnLists == ASSUME ListsInv, Insn PROVE ListsInv'
<1>1. style.n \in Nat \ {0} /\ Whole(events)
  BY DEF ListsInv, Types
<1>2. PICK n \in 1..style.n : \E due : Tick(due, n)
  BY InsnTicks
<1>3. n \in Nat
  BY <1>1
<1>4. /\ events'.held = events.held /\ pc' \in {"process", "cpu"}
      /\ Ticks(events, events', 0) \/ Ticks(events, events', n)
  BY <1>1, <1>2, <1>3, TickEffect
<1>5. Owned' /\ Listed' = Listed /\ Structs' = Structs /\ Whole(events')
  BY <1>4, SameLists DEF Insn
<1>6. pc = "cpu" /\ pc' \in {"process", "cpu"} /\ run' = run /\ engine' = engine /\ points' = points /\ hw' = hw
      /\ aborted' = aborted /\ style' = style /\ seen' = [seen EXCEPT !.insns = IF seen.step THEN @ + 1 ELSE @]
  BY <1>4 DEF Insn
<1>7. seen' \in SeenType
  <2> DEFINE k == IF seen.step THEN seen.insns + 1 ELSE seen.insns
  <2>1. seen \in SeenType
    BY DEF ListsInv, Types
  <2>2. k \in Nat
    BY <2>1 DEF SeenType
  <2>3. seen' = [seen EXCEPT !.insns = k]
    BY <1>6
  <2> HIDE DEF k
  <2> QED BY <2>1, <2>2, <2>3 DEF SeenType
<1>8. Types'
  BY <1>4, <1>5, <1>6, <1>7 DEF ListsInv, Types
<1>9. Calling'
  BY <1>5, <1>6 DEF ListsInv, Calling, InCall
<1> QED BY <1>5, <1>8, <1>9 DEF ListsInv

\* sim_events_preprocess keeps the lists.
LEMMA PreprocessLists == ASSUME ListsInv, sim_events_preprocess PROVE ListsInv'
<1>1. Whole(events)
  BY DEF ListsInv, Types
<1>2. /\ pc = "preprocess" /\ run' = run /\ engine' = engine /\ points' = points /\ hw' = hw
      /\ style' = style /\ seen' = seen /\ aborted' \in {aborted, "no", "assert"}
  BY DEF sim_events_preprocess
<1>3. /\ events'.held = events.held /\ pc' \in {"process", "cpu"}
      /\ Ticks(events, events', 0) \/ Ticks(events, events', 1)
  <2>1. CASE engine.last = "events"
    BY <1>1, <2>1, Untouched DEF sim_events_preprocess
  <2>2. CASE engine.last # "events"
    <3>1. Tick(events.time_from_event = 0, 1)
      BY <2>2 DEF sim_events_preprocess, sim_events_tick
    <3> QED BY <1>1, <3>1, TickEffect
  <2> QED BY <2>1, <2>2
<1>4. Owned' /\ Listed' = Listed /\ Structs' = Structs /\ Whole(events')
  BY <1>2, <1>3, SameLists
<1>5. Types'
  BY <1>2, <1>3, <1>4 DEF ListsInv, Types
<1>6. Calling'
  BY <1>2, <1>3, <1>4 DEF ListsInv, Calling, InCall
<1> QED BY <1>4, <1>5, <1>6 DEF ListsInv

\* sim_events_slip: time passes, and the flag is set if it passes the first event.
LEMMA SlipEffect ==
  ASSUME Whole(events), sim_events_slip
  PROVE  /\ Ticks(events, events', 1) /\ events'.held = events.held
         /\ events'.nr_ticks_to_process = events.nr_ticks_to_process
         /\ events'.work_pending = (events.work_pending \/ events.time_from_event < 1)
<1>0. /\ events \in EventsType /\ events.time_from_event \in Int /\ events.work_pending \in BOOLEAN
  BY FieldTypes
<1> DEFINE flag == events.work_pending \/ events.time_from_event < 1
<1>1. events' = [events EXCEPT !.time_from_event = @ - 1, !.work_pending = flag]
  BY DEF sim_events_slip
<1>2. events.time_from_event - 1 \in Int /\ flag \in BOOLEAN
  BY <1>0
<1> HIDE DEF flag
<1>3. /\ events' \in EventsType /\ events'.nr_ticks_to_process = events.nr_ticks_to_process
      /\ events'.held = events.held /\ events'.work_pending = flag
      /\ events'.queue = events.queue /\ events'.watchpoints = events.watchpoints
      /\ events'.watchedpoints = events.watchedpoints /\ events'.free_list = events.free_list
      /\ events'.structs = events.structs /\ events'.time_of_event = events.time_of_event
      /\ events'.time_from_event = events.time_from_event - 1
  BY <1>0, <1>1, <1>2 DEF EventsType
<1>4. Ticks(events, events', 1)
  BY <1>3, OnlyTicks
<1> QED BY <1>3, <1>4 DEF flag

\* Process clears the flag.
LEMMA ProcessEffect ==
  ASSUME Whole(events), Process
  PROVE  /\ Ticks(events, events', 0) /\ events'.held = events.held
         /\ events'.nr_ticks_to_process = events.nr_ticks_to_process
<1>0. /\ events \in EventsType /\ events.time_from_event \in Int
  BY FieldTypes
<1>1. events' = [events EXCEPT !.work_pending = FALSE]
  BY DEF Process
<1>3. /\ events' \in EventsType /\ events'.nr_ticks_to_process = events.nr_ticks_to_process
      /\ events'.held = events.held
      /\ events'.queue = events.queue /\ events'.watchpoints = events.watchpoints
      /\ events'.watchedpoints = events.watchedpoints /\ events'.free_list = events.free_list
      /\ events'.structs = events.structs /\ events'.time_of_event = events.time_of_event
      /\ events'.time_from_event = events.time_from_event
  BY <1>0, <1>1 DEF EventsType
<1>4. events'.time_from_event = events.time_from_event - 0
  BY <1>0, <1>3
<1>5. Ticks(events, events', 0)
  BY <1>3, <1>4, OnlyTicks
<1> QED BY <1>3, <1>5

\* sim_events_slip keeps the lists.
LEMMA SlipLists == ASSUME ListsInv, sim_events_slip PROVE ListsInv'
<1>1. Whole(events)
  BY DEF ListsInv, Types
<1>2. /\ pc' = pc /\ run' = run /\ engine' = engine /\ points' = points /\ hw' = hw
      /\ style' = style /\ seen' = seen /\ aborted' = aborted
  BY DEF sim_events_slip
<1>3. Ticks(events, events', 1) /\ events'.held = events.held
  BY <1>1, SlipEffect
<1>4. Owned' /\ Listed' = Listed /\ Structs' = Structs /\ Whole(events') /\ events'.watchpoints = events.watchpoints
  BY <1>2, <1>3, SameLists DEF Ticks
<1>5. Types'
  BY <1>2, <1>3, <1>4 DEF ListsInv, Types
<1>6. Calling'
  BY <1>2, <1>3, <1>4 DEF ListsInv, Calling, InCall
<1> QED BY <1>4, <1>5, <1>6 DEF ListsInv

\* Process keeps the lists.
LEMMA ProcessLists == ASSUME ListsInv, Process PROVE ListsInv'
<1>1. Whole(events) /\ Now \in Nat
  BY FieldTypes DEF ListsInv, Types, Now
<1>2. /\ pc = "process" /\ pc' = "held" /\ run' = [run EXCEPT !.time = Now] /\ engine' = engine
      /\ points' = points /\ hw' = hw /\ style' = style /\ seen' = seen /\ aborted' = aborted
  BY DEF Process, Now
<1>3. Ticks(events, events', 0) /\ events'.held = events.held
  BY <1>1, ProcessEffect
<1>4. Owned' /\ Listed' = Listed /\ Structs' = Structs /\ Whole(events')
  BY <1>2, <1>3, SameLists
<1>5. /\ run' \in [time : Nat, place : {"watch", "queue", "none"}, what : Kinds \cup {"none"},
                   at : [ev : Nat, time : Nat]]
      /\ run'.what = run.what /\ run'.place = run.place /\ run'.at = run.at
  BY <1>1, <1>2 DEF ListsInv, Types
<1>6. Types'
  BY <1>2, <1>3, <1>4, <1>5 DEF ListsInv, Types
<1>7. Calling'
  BY <1>2, <1>3, <1>4, <1>5 DEF ListsInv, Calling, InCall
<1> QED BY <1>4, <1>6, <1>7 DEF ListsInv

\* The fields of run between two handlers.
LEMMA IdleRun ==
  ASSUME run \in [time : Nat, place : {"watch", "queue", "none"}, what : Kinds \cup {"none"},
                  at : [ev : Nat, time : Nat]]
  PROVE  /\ Idle \in [time : Nat, place : {"watch", "queue", "none"}, what : Kinds \cup {"none"},
                      at : [ev : Nat, time : Nat]]
         /\ Idle.what = "none" /\ Idle.place = "none" /\ Idle.at = NoEvent
         /\ NoHandler \in [time : Nat, place : {"watch", "queue", "none"}, what : Kinds \cup {"none"},
                           at : [ev : Nat, time : Nat]]
         /\ NoHandler.what = "none" /\ NoHandler.place = "none" /\ NoHandler.at = NoEvent
         /\ NoHandler.time = run.time
BY DEF Idle, NoHandler, NoEvent, NULL

\* A halt, or the return from a handler, keeps the lists when the lists stay as they are.
LEMMA LeaveLists ==
  ASSUME ListsInv, Ticks(events, events', 0), events'.held = events.held,
         points' = points, hw' = hw, style' = style, seen' = seen, aborted' = aborted,
         \/ \E who \in {"events", "cpu"} : sim_engine_halt(who)
         \/ InCall /\ HandlerReturns /\ UNCHANGED engine
  PROVE  ListsInv'
<1>1. Owned' /\ Listed' = Listed /\ Structs' = Structs /\ Whole(events') /\ events'.watchpoints = events.watchpoints
  BY SameLists DEF Ticks
<1>2. /\ run \in [time : Nat, place : {"watch", "queue", "none"}, what : Kinds \cup {"none"},
                  at : [ev : Nat, time : Nat]]
      /\ engine \in [stepper : {NULL} \cup Structs, last : {"events", "cpu"}]
  BY DEF ListsInv, Types
<1>3. CASE \E who \in {"events", "cpu"} : sim_engine_halt(who)
  <2>1. PICK who \in {"events", "cpu"} :
          engine' = [engine EXCEPT !.last = who] /\ pc' = "halted" /\ run' = Idle
    BY <1>3 DEF sim_engine_halt
  <2>2. engine' \in [stepper : {NULL} \cup Structs, last : {"events", "cpu"}]
    BY <1>2, <2>1
  <2>3. Types'
    BY <1>1, <1>2, <2>1, <2>2, IdleRun DEF ListsInv, Types
  <2>4. Calling'
    BY <1>2, <2>1, IdleRun DEF Calling, InCall
  <2> QED BY <1>1, <2>3, <2>4 DEF ListsInv
<1>4. CASE InCall /\ HandlerReturns /\ UNCHANGED engine
  <2>1. pc' = run.place /\ run' = NoHandler /\ engine' = engine /\ run.place \in {"watch", "queue"}
    BY <1>2, <1>4 DEF HandlerReturns, ListsInv, Calling
  <2>2. Types'
    BY <1>1, <1>2, <2>1, IdleRun DEF ListsInv, Types
  <2>3. Calling'
    BY <1>1, <1>2, <2>1, IdleRun DEF Calling, InCall, ListsInv
  <2> QED BY <1>1, <2>2, <2>3 DEF ListsInv
<1> QED BY <1>3, <1>4

\* A halt from an instruction, from has_stepped or from a callback, and the return from one.
LEMMA HaltLists == ASSUME ListsInv, CpuHalt \/ Stop \/ CallbackEnds PROVE ListsInv'
<1>1. Ticks(events, events, 0)
  BY Untouched DEF ListsInv, Types
<1>2. CASE CpuHalt
  BY <1>1, <1>2, LeaveLists DEF CpuHalt
<1>3. CASE Stop
  BY <1>1, <1>3, LeaveLists DEF Stop
<1>4. CASE CallbackEnds
  BY <1>1, <1>4, LeaveLists DEF CallbackEnds, InCall
<1> QED BY <1>2, <1>3, <1>4

\* WatchDone keeps the lists.
LEMMA WatchDoneLists == ASSUME ListsInv, WatchDone PROVE ListsInv'
<1>1. /\ pc = "watch" /\ pc' = "queue" /\ events.watchpoints = <<>> /\ events' = events /\ run' = run
      /\ engine' = engine /\ points' = points /\ hw' = hw /\ style' = style /\ seen' = seen
      /\ aborted' = aborted
  BY DEF WatchDone
<1>2. Types' /\ Owned'
  BY <1>1 DEF ListsInv, Types, Owned, Structs
<1>3. Calling'
  BY <1>1 DEF ListsInv, Calling, InCall, Listed
<1> QED BY <1>2, <1>3 DEF ListsInv

\* bounce_hw_event keeps the lists: the event of the entry has left the queue.
LEMMA BounceLists == ASSUME ListsInv, bounce_hw_event PROVE ListsInv'
<1>1. /\ pc = "handler" /\ pc' = "callback" /\ run.what \in Timers /\ hw' = [hw EXCEPT ![run.what] = NULL]
      /\ events' = events /\ run' = run /\ engine' = engine /\ points' = points
      /\ style' = style /\ seen' = seen /\ aborted' = aborted
  BY DEF bounce_hw_event
<1>2. Types'
  <2>1. hw' \in [Timers -> {NULL} \cup Structs]
    BY <1>1 DEF ListsInv, Types
  <2> QED BY <1>1, <2>1 DEF ListsInv, Types, Structs
<1>3. \A x \in Listed : x.what # run.what
  BY <1>1 DEF ListsInv, Calling
<1>4. Owned'
  <2>1. \A x \in ToSet(events.queue) : x.what # run.what
    BY <1>3 DEF Listed
  <2> QED BY <1>1, <2>1 DEF ListsInv, Owned, Types
<1>5. Calling'
  <2>1. run.what \notin Points
    BY <1>1, KindsApart
  <2>2. run.place # "watch" /\ run.place # "none"
    BY <1>1, <2>1 DEF ListsInv, Calling, InCall
  <2>3. run.place = "queue"
    BY <2>2 DEF ListsInv, Types
  <2>4. run.what # "none"
    BY <1>1, KindsApart
  <2> QED BY <1>1, <2>1, <2>3, <2>4 DEF ListsInv, Calling, InCall, Listed
<1> QED BY <1>2, <1>4, <1>5 DEF ListsInv

\* An event is added to the queue for an owner that has none there.
LEMMA AddsOwned ==
  ASSUME ListsInv, NEW id, NEW what \in Kinds, NEW delta \in Nat, Adds(events, events', id, what, delta),
         what \in Points \cup Timers => \A x \in Listed : x.what # what,
         \A h \in Timers : h # what => hw'[h] = hw[h],
         what \in Timers => hw'[what] = id,
         \A p \in Points : p # what => points'[p] = points[p],
         what \in Points => points'[what].ev = id /\ points'[what].type = "cycles"
  PROVE  /\ Owned' /\ Structs \subseteq Structs' /\ id \in Structs' /\ Whole(events')
         /\ Listed' = Listed \cup {[ev |-> id, what |-> what, time |-> Now + delta]}
<1> DEFINE new == [ev |-> id, what |-> what, time |-> Now + delta]
<1>1. /\ Whole(events') /\ events'.watchpoints = events.watchpoints
      /\ events'.watchedpoints = events.watchedpoints /\ ToSet(events'.queue) = ToSet(events.queue) \cup {new}
      /\ id \in 1..events'.structs /\ events.structs <= events'.structs
  BY DEF Adds, Now
<1>2. new.ev = id /\ new.what = what
  OBVIOUS
<1> HIDE DEF new
<1>3. Whole(events) /\ events.structs \in Nat /\ events'.structs \in Nat
  BY <1>1, FieldTypes DEF ListsInv, Types
<1>4. Structs \subseteq Structs' /\ id \in Structs'
  BY <1>1, <1>3 DEF Structs
<1>5. Listed' = Listed \cup {new}
  BY <1>1 DEF Listed
<1>6. Owned'
  <2>1. ASSUME NEW x \in ToSet(events'.queue)
        PROVE  /\ x.what \in Timers => hw'[x.what] = x.ev
               /\ x.what \in Points => points'[x.what].ev = x.ev /\ points'[x.what].type = "cycles"
    <3>1. CASE x = new
      BY <1>2, <3>1
    <3>2. CASE x \in ToSet(events.queue)
      <4>1. x.what \in Points \cup Timers => x.what # what
        BY <3>2 DEF Listed
      <4> QED BY <3>2, <4>1 DEF ListsInv, Owned
    <3> QED BY <1>1, <3>1, <3>2
  <2>2. ASSUME NEW x \in ToSet(events.watchpoints) \cup ToSet(events.watchedpoints)
        PROVE  points'[x.what].ev = x.ev /\ points'[x.what].type # "cycles"
    <3>1. x.what \in Points
      BY <1>3, FieldTypes
    <3>2. x.what # what
      BY <3>1 DEF Listed
    <3> QED BY <3>1, <3>2 DEF ListsInv, Owned
  <2> QED BY <1>1, <2>1, <2>2 DEF Owned
<1> QED BY <1>1, <1>4, <1>5, <1>6 DEF new

\* A watchpoint is added to the list for an owner that has none there.
LEMMA WatchesOwned ==
  ASSUME ListsInv, NEW id, NEW what \in Points, Watches(events, events', id, what),
         \A x \in Listed : x.what # what, hw' = hw,
         \A p \in Points : p # what => points'[p] = points[p],
         points'[what].ev = id /\ points'[what].type # "cycles"
  PROVE  /\ Owned' /\ Structs \subseteq Structs' /\ id \in Structs' /\ Whole(events')
         /\ Listed' = Listed \cup {[ev |-> id, what |-> what]}
<1> DEFINE new == [ev |-> id, what |-> what]
<1>1. /\ Whole(events') /\ ToSet(events'.watchpoints) = {new} \cup ToSet(events.watchpoints)
      /\ events'.watchedpoints = events.watchedpoints /\ events'.queue = events.queue
      /\ id \in 1..events'.structs /\ events.structs <= events'.structs
  BY DEF Watches
<1>2. new.ev = id /\ new.what = what
  OBVIOUS
<1> HIDE DEF new
<1>3. Whole(events) /\ events.structs \in Nat /\ events'.structs \in Nat
  BY <1>1, FieldTypes DEF ListsInv, Types
<1>4. Structs \subseteq Structs' /\ id \in Structs'
  BY <1>1, <1>3 DEF Structs
<1>5. Listed' = Listed \cup {new}
  BY <1>1 DEF Listed
<1>6. Owned'
  <2>1. ASSUME NEW x \in ToSet(events.queue)
        PROVE  /\ x.what \in Timers => hw'[x.what] = x.ev
               /\ x.what \in Points => points'[x.what].ev = x.ev /\ points'[x.what].type = "cycles"
    <3>1. x.what # what
      BY DEF Listed
    <3> QED BY <3>1 DEF ListsInv, Owned
  <2>2. ASSUME NEW x \in ToSet(events'.watchpoints) \cup ToSet(events'.watchedpoints)
        PROVE  points'[x.what].ev = x.ev /\ points'[x.what].type # "cycles"
    <3>1. CASE x = new
      BY <1>2, <3>1
    <3>2. CASE x \in ToSet(events.watchpoints) \cup ToSet(events.watchedpoints)
      <4>1. x.what \in Points
        BY <1>3, <3>2, FieldTypes
      <4>2. x.what # what
        BY <3>2 DEF Listed
      <4> QED BY <3>2, <4>1, <4>2 DEF ListsInv, Owned
    <3> QED BY <1>1, <3>1, <3>2
  <2> QED BY <1>1, <2>1, <2>2 DEF Owned
<1> QED BY <1>1, <1>4, <1>5, <1>6 DEF new

\* An event is taken out, and its owner may forget it.
LEMMA DeschedulesOwned ==
  ASSUME ListsInv, NEW id, Descheduled(events, events', id),
         \A h \in Timers : hw'[h] = hw[h] \/ hw[h] = id \/ \A x \in Listed : x.what # h,
         \A p \in Points : points'[p] = points[p] \/ points[p].ev = id \/ \A x \in Listed : x.what # p
  PROVE  /\ Owned' /\ Structs' = Structs /\ Whole(events')
         /\ Listed' = {x \in Listed : x.ev # id}
         /\ events.watchpoints = <<>> => events'.watchpoints = <<>>
<1>1. /\ Whole(events') /\ events'.structs = events.structs
      /\ ToSet(events'.queue) = {x \in ToSet(events.queue) : x.ev # id}
      /\ ToSet(events'.watchpoints) = {x \in ToSet(events.watchpoints) : x.ev # id}
      /\ ToSet(events'.watchedpoints) = {x \in ToSet(events.watchedpoints) : x.ev # id}
  BY DEF Descheduled
<1>2. Structs' = Structs
  BY <1>1 DEF Structs
<1>3. Listed' = {x \in Listed : x.ev # id}
  BY <1>1 DEF Listed
<1>4. Owned'
  <2>1. ASSUME NEW x \in ToSet(events.queue), x.ev # id
        PROVE  /\ x.what \in Timers => hw'[x.what] = x.ev
               /\ x.what \in Points => points'[x.what].ev = x.ev /\ points'[x.what].type = "cycles"
    <3>1. x \in Listed
      BY DEF Listed
    <3> QED BY <2>1, <3>1 DEF ListsInv, Owned
  <2>2. ASSUME NEW x \in ToSet(events.watchpoints) \cup ToSet(events.watchedpoints), x.ev # id
        PROVE  points'[x.what].ev = x.ev /\ points'[x.what].type # "cycles"
    <3>1. x.what \in Points /\ x \in Listed
      BY FieldTypes DEF ListsInv, Types, Listed
    <3> QED BY <2>2, <3>1 DEF ListsInv, Owned
  <2> QED BY <1>1, <2>1, <2>2 DEF Owned
<1>5. events.watchpoints = <<>> => events'.watchpoints = <<>>
  <2>1. Whole(events) /\ events.watchpoints \in Seq(Watched) /\ events'.watchpoints \in Seq(Watched)
    BY <1>1, FieldTypes DEF ListsInv, Types
  <2> QED BY <1>1, <2>1, EmptyList
<1> QED BY <1>1, <1>2, <1>3, <1>4, <1>5

\* A signal keeps the lists.
LEMMA SignalLists == ASSUME ListsInv, Signal PROVE ListsInv'
<1>1. Whole(events) /\ Len(events.held) <= MAX_NR_SIGNAL_SIM_EVENTS /\ seen \in SeenType
  BY DEF ListsInv, Types
<1>2. /\ seen' = [seen EXCEPT !.signals = @ + 1] /\ engine' = engine /\ pc' = pc /\ run' = run
      /\ points' = points /\ hw' = hw /\ style' = style /\ aborted' \in {aborted, "overflow"}
  BY DEF Signal
<1>3. Ticks(events, events', 0) /\ Len(events'.held) <= MAX_NR_SIGNAL_SIM_EVENTS
  BY <1>1, StopEffect, Untouched DEF Signal
<1>4. Owned' /\ Listed' = Listed /\ Structs' = Structs /\ Whole(events') /\ events'.watchpoints = events.watchpoints
  BY <1>2, <1>3, SameLists DEF Ticks
<1>5. seen' \in SeenType
  BY <1>1, <1>2 DEF SeenType
<1>6. Types'
  BY <1>2, <1>3, <1>4, <1>5 DEF ListsInv, Types
<1>7. Calling'
  BY <1>2, <1>4 DEF ListsInv, Calling, InCall
<1> QED BY <1>4, <1>6, <1>7 DEF ListsInv

\* sim_events_poll: the poll event is added, and an event may be held.
LEMMA PollEffect ==
  ASSUME ListsInv, Poll
  PROVE  /\ Adds(events, events', zalloc_id(events), "poll", POLL_RATE)
         /\ Len(events'.held) <= MAX_NR_SIGNAL_SIM_EVENTS
         /\ \/ events'.held = events.held /\ events'.work_pending = events.work_pending
            \/ events'.work_pending
         /\ pc = "handler" /\ run.what = "poll" /\ pc' = run.place /\ run' = NoHandler /\ engine' = engine
         /\ points' = points /\ hw' = hw /\ style' = style /\ aborted' \in {aborted, "overflow"}
         /\ seen' \in {seen, [seen EXCEPT !.signals = @ + 1]}
<1> DEFINE e == sim_events_schedule(events, POLL_RATE, "poll")
           id == zalloc_id(events)
<1>1. Whole(events) /\ Len(events.held) <= MAX_NR_SIGNAL_SIM_EVENTS
  BY DEF ListsInv, Types
<1>2. Adds(events, e, id, "poll", POLL_RATE) /\ e.held = events.held /\ e.work_pending = events.work_pending
  <2>1. POLL_RATE \in Nat /\ "poll" \in Kinds
    BY SimAssumption DEF Kinds
  <2> QED BY <1>1, <2>1, Schedules DEF Scheduled
<1>3. /\ events' = e \/ (Len(e.held) < MAX_NR_SIGNAL_SIM_EVENTS /\ events' = sim_stop(e))
      /\ aborted' \in {aborted, "overflow"} /\ seen' \in {seen, [seen EXCEPT !.signals = @ + 1]}
  BY DEF Poll
<1>4. /\ pc = "handler" /\ run.what = "poll" /\ pc' = run.place /\ run' = NoHandler /\ engine' = engine
      /\ points' = points /\ hw' = hw /\ style' = style
  BY DEF Poll, HandlerReturns
<1> HIDE DEF e, id
<1>5. CASE events' = e
  BY <1>1, <1>2, <1>3, <1>4, <1>5 DEF id
<1>6. CASE Len(e.held) < MAX_NR_SIGNAL_SIM_EVENTS /\ events' = sim_stop(e)
  <2>1. Whole(e)
    BY <1>2 DEF Adds
  <2>2. /\ Ticks(e, events', 0) /\ events'.nr_ticks_to_process = e.nr_ticks_to_process
        /\ Len(events'.held) <= MAX_NR_SIGNAL_SIM_EVENTS /\ events'.work_pending
    BY <1>6, <2>1, StopEffect
  <2>3. Adds(events, events', id, "poll", POLL_RATE)
    BY <1>2, <2>2, AddsAndTicks
  <2> QED BY <1>3, <1>4, <2>2, <2>3 DEF id
<1> QED BY <1>3, <1>5, <1>6

\* The types grow with the structures.
LEMMA MoreStructs ==
  ASSUME ListsInv, Structs \subseteq Structs'
  PROVE  /\ engine \in [stepper : {NULL} \cup Structs', last : {"events", "cpu"}]
         /\ points \in [Points -> [ev : {NULL} \cup Structs', type : {"pc", "clock", "cycles"},
                                   periodic : BOOLEAN, arg0 : Nat]]
         /\ hw \in [Timers -> {NULL} \cup Structs']
<1>1. /\ engine \in [stepper : {NULL} \cup Structs, last : {"events", "cpu"}]
      /\ hw \in [Timers -> {NULL} \cup Structs]
      /\ points \in [Points -> [ev : {NULL} \cup Structs, type : {"pc", "clock", "cycles"},
                                periodic : BOOLEAN, arg0 : Nat]]
  BY DEF ListsInv, Types
<1>2. /\ engine \in [stepper : {NULL} \cup Structs', last : {"events", "cpu"}]
      /\ hw \in [Timers -> {NULL} \cup Structs']
  BY <1>1
<1>3. \A p \in Points : points[p] \in [ev : {NULL} \cup Structs', type : {"pc", "clock", "cycles"},
                                       periodic : BOOLEAN, arg0 : Nat]
  BY <1>1
<1> QED BY <1>1, <1>2, <1>3

\* sim_events_poll keeps the lists.
LEMMA PollLists == ASSUME ListsInv, Poll PROVE ListsInv'
<1> DEFINE id == zalloc_id(events)
<1>1. /\ Adds(events, events', id, "poll", POLL_RATE)
      /\ Len(events'.held) <= MAX_NR_SIGNAL_SIM_EVENTS
      /\ pc = "handler" /\ run.what = "poll" /\ pc' = run.place /\ run' = NoHandler /\ engine' = engine
      /\ points' = points /\ hw' = hw /\ style' = style /\ aborted' \in {aborted, "overflow"}
      /\ seen' \in {seen, [seen EXCEPT !.signals = @ + 1]}
  BY PollEffect
<1> HIDE DEF id
<1>2. "poll" \notin Points \cup Timers /\ "poll" \in Kinds /\ POLL_RATE \in Nat
  BY KindsApart, SimAssumption
<1>3. /\ Owned' /\ Structs \subseteq Structs' /\ Whole(events')
      /\ events'.watchpoints = events.watchpoints
  <2>1. Adds(events, events', id, "poll", POLL_RATE) => events'.watchpoints = events.watchpoints
    BY DEF Adds
  <2> QED BY <1>1, <1>2, <2>1, AddsOwned
<1>4. seen' \in SeenType
  BY <1>1 DEF ListsInv, Types, SeenType
<1>5. run.place = "queue" /\ run \in [time : Nat, place : {"watch", "queue", "none"}, what : Kinds \cup {"none"},
                                      at : [ev : Nat, time : Nat]]
  BY <1>1, <1>2 DEF ListsInv, Types, Calling, InCall
<1>6. Types'
  BY <1>1, <1>3, <1>4, <1>5, MoreStructs, IdleRun DEF ListsInv, Types
<1>7. Calling'
  BY <1>1, <1>3, <1>5, IdleRun DEF ListsInv, Calling, InCall
<1> QED BY <1>3, <1>6, <1>7 DEF ListsInv

\* A held event is moved: it is added to the queue, due now.
LEMMA MoveEffect ==
  ASSUME ListsInv, MoveHeld, events.held # <<>>
  PROVE  /\ Adds(events, events', zalloc_id(events), "stop", 0) /\ events'.held = Tail(events.held)
         /\ events'.work_pending = events.work_pending /\ pc' = "moving"
<1> DEFINE e == sim_events_schedule(events, Head(events.held), "stop")
           id == zalloc_id(events)
<1>1. Whole(events) /\ events.held \in Seq({0})
  BY FieldTypes DEF ListsInv, Types
<1>2. Head(events.held) = 0 /\ Tail(events.held) \in Seq({0})
  BY <1>1
<1>3. Adds(events, e, id, "stop", 0) /\ e.held = events.held /\ e.work_pending = events.work_pending
  <2>1. 0 \in Nat /\ "stop" \in Kinds
    BY DEF Kinds
  <2> QED BY <1>1, <1>2, <2>1, Schedules DEF Scheduled
<1>4. events' = [e EXCEPT !.held = Tail(@)] /\ pc' = "moving"
  BY DEF MoveHeld
<1> HIDE DEF e, id
<1>5. Whole(e)
  BY <1>3 DEF Adds
<1>6. e \in EventsType /\ e.time_from_event \in Int
  BY <1>5, FieldTypes
<1>7. /\ events' \in EventsType /\ events'.nr_ticks_to_process = e.nr_ticks_to_process
      /\ events'.held = Tail(e.held) /\ events'.work_pending = e.work_pending
      /\ events'.queue = e.queue /\ events'.watchpoints = e.watchpoints
      /\ events'.watchedpoints = e.watchedpoints /\ events'.free_list = e.free_list
      /\ events'.structs = e.structs /\ events'.time_of_event = e.time_of_event
      /\ events'.time_from_event = e.time_from_event
  BY <1>2, <1>3, <1>4, <1>6 DEF EventsType
<1>8. events'.time_from_event = e.time_from_event - 0
  BY <1>6, <1>7
<1>9. Ticks(e, events', 0)
  BY <1>5, <1>7, <1>8, OnlyTicks
<1>10. Adds(events, events', id, "stop", 0)
  BY <1>3, <1>7, <1>9, AddsAndTicks
<1> QED BY <1>3, <1>4, <1>7, <1>10 DEF id

\* MoveHeld keeps the lists.
LEMMA MoveHeldLists == ASSUME ListsInv, MoveHeld PROVE ListsInv'
<1>1. /\ pc \in {"held", "moving"} /\ engine' = engine /\ run' = run /\ points' = points /\ hw' = hw
      /\ style' = style /\ seen' = seen /\ aborted' = aborted
  BY DEF MoveHeld
<1>2. CASE events.held = <<>>
  <2>1. pc' = "watch" /\ events' = events
    BY <1>2 DEF MoveHeld
  <2>2. Types' /\ Owned'
    BY <1>1, <2>1 DEF ListsInv, Types, Owned, Structs
  <2>3. Calling'
    BY <1>1, <2>1 DEF ListsInv, Calling, InCall, Listed
  <2> QED BY <2>2, <2>3 DEF ListsInv
<1>3. CASE events.held # <<>>
  <2> DEFINE id == zalloc_id(events)
  <2>1. Adds(events, events', id, "stop", 0) /\ events'.held = Tail(events.held) /\ pc' = "moving"
    BY <1>3, MoveEffect
  <2> HIDE DEF id
  <2>2. "stop" \notin Points \cup Timers /\ "stop" \in Kinds /\ 0 \in Nat
    BY KindsApart
  <2>3. Owned' /\ Structs \subseteq Structs' /\ Whole(events')
    BY <1>1, <2>1, <2>2, AddsOwned
  <2>4. Len(events'.held) <= MAX_NR_SIGNAL_SIM_EVENTS
    <3>1. events.held \in Seq({0}) /\ Len(events.held) <= MAX_NR_SIGNAL_SIM_EVENTS
      BY FieldTypes DEF ListsInv, Types
    <3>2. Len(events'.held) = Len(events.held) - 1 /\ Len(events.held) \in Nat
      BY <1>3, <2>1, <3>1
    <3> QED BY <3>1, <3>2, SimAssumption
  <2>5. Types'
    BY <1>1, <2>1, <2>3, <2>4, MoreStructs DEF ListsInv, Types
  <2>6. Calling'
    BY <1>1, <2>1 DEF ListsInv, Calling, InCall
  <2> QED BY <2>3, <2>5, <2>6 DEF ListsInv
<1> QED BY <1>2, <1>3

\* An owner that points to nothing has nothing in the lists.
LEMMA NothingOwned ==
  ASSUME ListsInv
  PROVE  /\ \A h \in Timers : hw[h] = NULL => \A x \in Listed : x.what # h
         /\ \A p \in Points : points[p].ev = NULL => \A x \in Listed : x.what # p
<1>1. Whole(events)
  BY DEF ListsInv, Types
<1>2. \A x \in Listed : x.ev # NULL
  BY <1>1, UniqueIds DEF Listed
<1>3. \A x \in Listed : x \in ToSet(events.queue) \/ x \in ToSet(events.watchpoints) \cup ToSet(events.watchedpoints)
  BY DEF Listed
<1>4. \A x \in ToSet(events.watchpoints) \cup ToSet(events.watchedpoints) : x.what \in Points /\ x.what \notin Timers
  BY <1>1, FieldTypes, KindsApart
<1> QED BY <1>2, <1>3, <1>4 DEF ListsInv, Owned

\* What a call notes down has its type.
LEMMA CallSeen == ASSUME ListsInv, NEW p, Call(p) PROVE seen' \in SeenType /\ seen'.step = seen.step /\ seen'.insns = seen.insns
<1>1. seen \in SeenType /\ seen' = [seen EXCEPT !.calls = @ + 1, !.watched = @ \ {p}]
  BY DEF ListsInv, Types, Call
<1>2. seen.calls + 1 \in Nat /\ seen.watched \ {p} \in SUBSET (Points \cup Timers)
  BY <1>1 DEF SeenType
<1> QED BY <1>1, <1>2 DEF SeenType

\* hw_event_queue_schedule keeps the lists.
LEMMA HwScheduleLists ==
  ASSUME ListsInv, NEW h \in Timers, NEW delta \in Deltas, hw_event_queue_schedule(h, delta)
  PROVE  ListsInv'
<1> DEFINE id == zalloc_id(events)
<1>1. /\ hw[h] = NULL /\ events' = sim_events_schedule(events, delta, h) /\ hw' = [hw EXCEPT ![h] = id]
      /\ engine' = engine /\ pc' = pc /\ run' = run /\ points' = points /\ aborted' = aborted /\ style' = style
      /\ pc \in {"cpu", "callback", "halted"}
  BY DEF hw_event_queue_schedule, DeviceMayCall, UserMayCall
<1>2. delta \in Nat /\ h \in Kinds /\ h \notin Points /\ Whole(events)
  BY SimAssumption, KindsApart DEF ListsInv, Types
<1>3. Adds(events, events', id, h, delta) /\ events'.held = events.held /\ events'.watchpoints = events.watchpoints
  BY <1>1, <1>2, Schedules DEF Scheduled, Adds
<1> HIDE DEF id
<1>4. hw \in [Timers -> {NULL} \cup Structs]
  BY DEF ListsInv, Types
<1>5. Owned' /\ Structs \subseteq Structs' /\ id \in Structs' /\ Whole(events')
  <2>1. \A x \in Listed : x.what # h
    BY <1>1, NothingOwned
  <2>2. \A g \in Timers : (g # h => hw'[g] = hw[g]) /\ (g = h => hw'[g] = id)
    BY <1>1, <1>4
  <2> QED BY <1>1, <1>2, <1>3, <2>1, <2>2, AddsOwned
<1>6. seen' \in SeenType
  BY CallSeen DEF hw_event_queue_schedule
<1>7. Types'
  <2>1. hw' \in [Timers -> {NULL} \cup Structs']
    BY <1>1, <1>5, MoreStructs
  <2> QED BY <1>1, <1>3, <1>5, <1>6, <2>1, MoreStructs DEF ListsInv, Types
<1>8. Calling'
  BY <1>1, <1>3 DEF ListsInv, Calling, InCall
<1> QED BY <1>5, <1>7, <1>8 DEF ListsInv

\* hw_event_queue_deschedule keeps the lists.
LEMMA HwDescheduleLists ==
  ASSUME ListsInv, NEW h \in Timers, hw_event_queue_deschedule(h)
  PROVE  ListsInv'
<1>1. /\ events' = sim_events_deschedule(events, hw[h]) /\ hw' = [hw EXCEPT ![h] = NULL]
      /\ engine' = engine /\ pc' = pc /\ run' = run /\ points' = points /\ aborted' \in {"no", "assert"}
      /\ style' = style /\ pc \in {"cpu", "callback", "halted"}
  BY DEF hw_event_queue_deschedule, DeviceMayCall, UserMayCall
<1>2. Whole(events) /\ hw \in [Timers -> {NULL} \cup Structs]
  BY DEF ListsInv, Types
<1>3. Descheduled(events, events', hw[h])
  BY <1>1, <1>2, Deschedules
<1>4. /\ Owned' /\ Structs' = Structs /\ Whole(events')
      /\ events.watchpoints = <<>> => events'.watchpoints = <<>>
  <2>1. \A g \in Timers : hw'[g] = hw[g] \/ hw[g] = hw[h]
    BY <1>1, <1>2
  <2> QED BY <1>1, <1>3, <2>1, DeschedulesOwned
<1>5. seen' \in SeenType
  BY CallSeen DEF hw_event_queue_deschedule
<1>6. Types'
  <2>1. hw' \in [Timers -> {NULL} \cup Structs] /\ events'.held = events.held
    BY <1>1, <1>2, <1>3 DEF Descheduled, SameRest
  <2> QED BY <1>1, <1>4, <1>5, <2>1 DEF ListsInv, Types
<1>7. Calling'
  BY <1>1, <1>4 DEF ListsInv, Calling, InCall
<1> QED BY <1>4, <1>6, <1>7 DEF ListsInv

PointType == [ev : {NULL} \cup Structs, type : {"pc", "clock", "cycles"}, periodic : BOOLEAN, arg0 : Nat]

\* schedule_watchpoint: the event of the watchpoint is in the list of its type.
LEMMA PointScheduled ==
  ASSUME ListsInv, NEW p \in Points, NEW point, point.arg0 \in Nat,
         events' = schedule_watchpoint(events, p, point)
  PROVE  \/ point.type = "cycles" /\ Scheduled(events, events', zalloc_id(events), p, point.arg0)
         \/ point.type # "cycles" /\ Watches(events, events', zalloc_id(events), p)
<1>1. Whole(events) /\ p \in Kinds
  BY KindsApart DEF ListsInv, Types
<1>2. CASE point.type = "cycles"
  BY <1>1, <1>2, Schedules DEF schedule_watchpoint
<1>3. CASE point.type # "cycles"
  BY <1>1, <1>3, WatchAdds DEF schedule_watchpoint
<1> QED BY <1>2, <1>3

\* A watchpoint that has no event gets one.
LEMMA PointOwned ==
  ASSUME ListsInv, NEW p \in Points, NEW point, point.arg0 \in Nat, NEW id, id = zalloc_id(events),
         events' = schedule_watchpoint(events, p, point), \A x \in Listed : x.what # p, hw' = hw,
         points'[p].ev = id, points'[p].type = point.type,
         \A q \in Points : q # p => points'[q] = points[q]
  PROVE  /\ Owned' /\ Structs \subseteq Structs' /\ id \in Structs' /\ Whole(events')
         /\ events'.held = events.held
         /\ point.type = "cycles" => events'.watchpoints = events.watchpoints
<1>1. CASE point.type = "cycles" /\ Scheduled(events, events', id, p, point.arg0)
  <2>1. Adds(events, events', id, p, point.arg0) /\ events'.held = events.held
        /\ events'.watchpoints = events.watchpoints
    BY <1>1 DEF Scheduled, Adds
  <2>2. p \in Kinds /\ p \notin Timers
    BY KindsApart
  <2> QED BY <1>1, <2>1, <2>2, AddsOwned
<1>2. CASE point.type # "cycles" /\ Watches(events, events', id, p)
  <2>1. events'.held = events.held
    BY <1>2 DEF Watches, SameRest
  <2> QED BY <1>2, <2>1, WatchesOwned
<1> QED BY <1>1, <1>2, PointScheduled

\* do_watchpoint_create keeps the lists.
LEMMA CreateLists ==
  ASSUME ListsInv, NEW p \in Points, NEW type \in PointTypes, NEW periodic \in BOOLEAN,
         NEW arg \in {0} \cup Args, do_watchpoint_create(p, type, periodic, arg)
  PROVE  ListsInv'
<1> DEFINE id == zalloc_id(events)
           point == [ev |-> id, type |-> type, periodic |-> periodic, arg0 |-> arg]
<1>1. /\ points[p].ev = NULL /\ points' = [points EXCEPT ![p] = point]
      /\ events' = schedule_watchpoint(events, p, point)
      /\ engine' = engine /\ pc' = pc /\ run' = run /\ hw' = hw /\ aborted' = aborted /\ style' = style
      /\ pc = "halted"
  BY DEF do_watchpoint_create, UserMayCall
<1>2. /\ point.ev = id /\ point.type = type /\ point.periodic = periodic /\ point.arg0 = arg
      /\ point = [ev |-> id, type |-> type, periodic |-> periodic, arg0 |-> arg]
  OBVIOUS
<1>3. arg \in Nat /\ type \in {"pc", "clock", "cycles"}
  BY SimAssumption
<1> HIDE DEF id, point
<1>4. /\ points \in [Points -> PointType] /\ points'[p] = point
      /\ \A q \in Points : q # p => points'[q] = points[q]
  BY <1>1 DEF ListsInv, Types, PointType
<1>5. Owned' /\ Structs \subseteq Structs' /\ id \in Structs' /\ Whole(events') /\ events'.held = events.held
  <2>1. \A x \in Listed : x.what # p
    BY <1>1, NothingOwned
  <2> QED BY <1>1, <1>2, <1>3, <1>4, <2>1, PointOwned DEF id
<1>6. seen' \in SeenType
  BY CallSeen DEF do_watchpoint_create
<1>7. Types'
  <2>1. points' \in [Points -> PointType']
    <3>1. point \in PointType'
      BY <1>2, <1>3, <1>5 DEF PointType
    <3>2. points \in [Points -> PointType']
      BY <1>5, MoreStructs DEF PointType
    <3> QED BY <1>1, <3>1, <3>2
  <2> QED BY <1>1, <1>5, <1>6, <2>1, MoreStructs DEF ListsInv, Types, PointType
<1>8. Calling'
  BY <1>1 DEF ListsInv, Calling, InCall
<1> QED BY <1>5, <1>7, <1>8 DEF ListsInv

\* do_watchpoint_delete keeps the lists.
LEMMA DeleteLists ==
  ASSUME ListsInv, NEW p \in Points, do_watchpoint_delete(p)
  PROVE  ListsInv'
<1>1. /\ events' = sim_events_deschedule(events, points[p].ev) /\ points' = [points EXCEPT ![p] = NoPoint]
      /\ engine' = engine /\ pc' = pc /\ run' = run /\ hw' = hw /\ aborted' \in {"no", "assert"}
      /\ style' = style /\ pc = "halted"
  BY DEF do_watchpoint_delete, UserMayCall
<1>2. Whole(events) /\ points \in [Points -> PointType]
  BY DEF ListsInv, Types, PointType
<1>3. Descheduled(events, events', points[p].ev)
  BY <1>1, <1>2, Deschedules
<1>4. Owned' /\ Structs' = Structs /\ Whole(events') /\ events'.held = events.held
  <2>1. \A q \in Points : points'[q] = points[q] \/ points[q].ev = points[p].ev
    BY <1>1, <1>2
  <2>2. events'.held = events.held
    BY <1>3 DEF Descheduled, SameRest
  <2> QED BY <1>1, <1>3, <2>1, <2>2, DeschedulesOwned
<1>5. seen' \in SeenType
  BY CallSeen DEF do_watchpoint_delete
<1>6. Types'
  <2>1. points' \in [Points -> PointType]
    BY <1>1, <1>2 DEF PointType, NoPoint
  <2> QED BY <1>1, <1>4, <1>5, <2>1 DEF ListsInv, Types, PointType
<1>7. Calling'
  BY <1>1 DEF ListsInv, Calling, InCall
<1> QED BY <1>4, <1>6, <1>7 DEF ListsInv

\* handle_watchpoint keeps the lists.
LEMMA HandleLists == ASSUME ListsInv, handle_watchpoint PROVE ListsInv'
<1> DEFINE p == run.what
           id == zalloc_id(events)
<1>1. /\ pc = "handler" /\ p \in Points /\ hw' = hw /\ style' = style /\ seen' = seen
      /\ \/ sim_engine_halt("events")
         \/ pc' = run.place /\ run' = NoHandler /\ engine' = engine
  BY DEF handle_watchpoint, HandlerReturns
<1>2. /\ Whole(events) /\ points \in [Points -> PointType]
      /\ run \in [time : Nat, place : {"watch", "queue", "none"}, what : Kinds \cup {"none"},
                  at : [ev : Nat, time : Nat]]
      /\ engine \in [stepper : {NULL} \cup Structs, last : {"events", "cpu"}]
  BY DEF ListsInv, Types, PointType
<1>3. /\ \A x \in Listed : x.what # p
      /\ run.place = "queue" => points[p].type = "cycles" /\ events.watchpoints = <<>>
      /\ run.place \in {"watch", "queue"}
  BY <1>1, <1>2 DEF ListsInv, Calling, InCall
<1>4. /\ Owned' /\ Structs \subseteq Structs' /\ Whole(events') /\ events'.held = events.held
      /\ run.place = "queue" => events'.watchpoints = <<>>
      /\ points' \in [Points -> PointType'] /\ aborted' \in {aborted, "no", "assert"}
  <2>1. CASE points[p].periodic
    <3>1. /\ events' = schedule_watchpoint(events, p, points[p]) /\ points' = [points EXCEPT ![p].ev = id]
          /\ aborted' = aborted
      BY <2>1 DEF handle_watchpoint
    <3> HIDE DEF p, id
    <3>2. points[p] \in PointType /\ points[p].arg0 \in Nat
      BY <1>1, <1>2 DEF PointType
    <3>3. /\ points'[p].ev = id /\ points'[p].type = points[p].type
          /\ \A q \in Points : q # p => points'[q] = points[q]
      BY <1>1, <1>2, <3>1, <3>2 DEF PointType
    <3>4. /\ Owned' /\ Structs \subseteq Structs' /\ id \in Structs' /\ Whole(events')
          /\ events'.held = events.held
          /\ points[p].type = "cycles" => events'.watchpoints = events.watchpoints
      BY <1>1, <1>3, <3>1, <3>2, <3>3, PointOwned DEF id
    <3>5. points' \in [Points -> PointType']
      <4>1. points \in [Points -> PointType'] /\ id \in Structs'
        BY <3>4, MoreStructs DEF PointType
      <4>2. [points[p] EXCEPT !.ev = id] \in PointType'
        BY <1>1, <4>1 DEF PointType
      <4>3. points' = [points EXCEPT ![p] = [points[p] EXCEPT !.ev = id]]
        BY <3>1
      <4> QED BY <1>1, <4>1, <4>2, <4>3
    <3> QED BY <1>3, <3>1, <3>4, <3>5
  <2>2. CASE ~points[p].periodic
    <3>1. /\ events' = sim_events_deschedule(events, points[p].ev) /\ points' = [points EXCEPT ![p] = NoPoint]
          /\ aborted' \in {"no", "assert"}
      BY <2>2 DEF handle_watchpoint
    <3> HIDE DEF p
    <3>2. Descheduled(events, events', points[p].ev) /\ events'.held = events.held
      BY <1>2, <3>1, Deschedules DEF Descheduled, SameRest
    <3>3. \A q \in Points : points'[q] = points[q] \/ points[q].ev = points[p].ev
      BY <1>2, <3>1
    <3>4. /\ Owned' /\ Structs' = Structs /\ Whole(events')
          /\ events.watchpoints = <<>> => events'.watchpoints = <<>>
      BY <1>1, <3>2, <3>3, DeschedulesOwned
    <3>5. points' \in [Points -> PointType']
      BY <1>2, <3>1, <3>4 DEF PointType, NoPoint
    <3> QED BY <1>3, <3>1, <3>2, <3>4, <3>5
  <2> QED BY <2>1, <2>2
<1> HIDE DEF p, id
<1>5. engine \in [stepper : {NULL} \cup Structs', last : {"events", "cpu"}] /\ hw \in [Timers -> {NULL} \cup Structs']
  BY <1>4, MoreStructs
<1>6. CASE sim_engine_halt("events")
  <2>1. engine' = [engine EXCEPT !.last = "events"] /\ pc' = "halted" /\ run' = Idle
    BY <1>6 DEF sim_engine_halt
  <2>2. engine' \in [stepper : {NULL} \cup Structs', last : {"events", "cpu"}]
    BY <1>5, <2>1
  <2>3. Types'
    BY <1>1, <1>2, <1>4, <1>5, <2>1, <2>2, IdleRun DEF ListsInv, Types, PointType
  <2>4. Calling'
    BY <1>2, <2>1, IdleRun DEF Calling, InCall
  <2> QED BY <1>4, <2>3, <2>4 DEF ListsInv
<1>7. CASE pc' = run.place /\ run' = NoHandler /\ engine' = engine
  <2>1. Types'
    BY <1>1, <1>2, <1>3, <1>4, <1>5, <1>7, IdleRun DEF ListsInv, Types, PointType
  <2>2. Calling'
    BY <1>2, <1>3, <1>4, <1>7, IdleRun DEF Calling, InCall
  <2> QED BY <1>4, <2>1, <2>2 DEF ListsInv
<1> QED BY <1>1, <1>6, <1>7

\* sim_resume: the old stepper is taken out, then the new one is added.
LEMMA ResumeEffect ==
  ASSUME ListsInv, NEW step \in BOOLEAN, Resume(step)
  PROVE  \E e : /\ Descheduled(events, e, engine.stepper)
                /\ step => Scheduled(e, events', engine'.stepper, "step", 1)
                /\ ~step => events' = e /\ engine'.stepper = NULL
                /\ engine'.last = engine.last
<1> DEFINE e == sim_events_deschedule(events, engine.stepper)
<1>1. Whole(events) /\ engine \in [stepper : {NULL} \cup Structs, last : {"events", "cpu"}]
  BY DEF ListsInv, Types
<1>2. Descheduled(events, e, engine.stepper)
  BY <1>1, Deschedules
<1>3. /\ events' = IF step THEN sim_events_schedule(e, 1, "step") ELSE e
      /\ engine' = [engine EXCEPT !.stepper = IF step THEN zalloc_id(e) ELSE NULL]
  BY DEF Resume
<1> HIDE DEF e
<1>4. Whole(e) /\ 1 \in Nat /\ "step" \in Kinds
  BY <1>2 DEF Descheduled, Kinds
<1>5. Scheduled(e, sim_events_schedule(e, 1, "step"), zalloc_id(e), "step", 1)
  BY <1>4, Schedules
<1>6. engine'.last = engine.last /\ engine'.stepper = IF step THEN zalloc_id(e) ELSE NULL
  BY <1>1, <1>3
<1> QED BY <1>2, <1>3, <1>5, <1>6

\* What sim_resume leaves of the lists, and what it adds.
LEMMA ResumeSets ==
  ASSUME ListsInv, NEW step \in BOOLEAN, Resume(step)
  PROVE  /\ Whole(events') /\ events'.nr_ticks_to_process = events.nr_ticks_to_process
         /\ events'.held = events.held /\ events'.work_pending = events.work_pending
         /\ Now' = Now /\ Structs \subseteq Structs'
         /\ ToSet(events'.queue) = {x \in ToSet(events.queue) : x.ev # engine.stepper} \cup
              (IF step THEN {[ev |-> engine'.stepper, what |-> "step", time |-> Now + 1]} ELSE {})
         /\ ToSet(events'.watchpoints) = {x \in ToSet(events.watchpoints) : x.ev # engine.stepper}
         /\ ToSet(events'.watchedpoints) = {x \in ToSet(events.watchedpoints) : x.ev # engine.stepper}
         /\ engine'.stepper \in {NULL} \cup Structs' /\ (step <=> engine'.stepper # NULL)
         /\ engine'.last = engine.last
<1>1. PICK e : /\ Descheduled(events, e, engine.stepper)
               /\ step => Scheduled(e, events', engine'.stepper, "step", 1)
               /\ ~step => events' = e /\ engine'.stepper = NULL
               /\ engine'.last = engine.last
  BY ResumeEffect
<1>2. /\ Whole(e) /\ e.nr_ticks_to_process = events.nr_ticks_to_process /\ e.held = events.held
      /\ e.work_pending = events.work_pending /\ sim_events_time(e) = Now /\ e.structs = events.structs
      /\ ToSet(e.queue) = {x \in ToSet(events.queue) : x.ev # engine.stepper}
      /\ ToSet(e.watchpoints) = {x \in ToSet(events.watchpoints) : x.ev # engine.stepper}
      /\ ToSet(e.watchedpoints) = {x \in ToSet(events.watchedpoints) : x.ev # engine.stepper}
  BY <1>1 DEF Descheduled, SameRest, Now
<1>3. e.structs \in Nat
  BY <1>2, FieldTypes
<1>4. CASE step
  <2>1. /\ Whole(events') /\ events'.nr_ticks_to_process = e.nr_ticks_to_process /\ events'.held = e.held
        /\ events'.work_pending = e.work_pending /\ Now' = Now
        /\ ToSet(events'.queue) = ToSet(e.queue) \cup {[ev |-> engine'.stepper, what |-> "step", time |-> Now + 1]}
        /\ events'.watchpoints = e.watchpoints /\ events'.watchedpoints = e.watchedpoints
        /\ engine'.stepper \in 1..events'.structs /\ events.structs <= events'.structs
    BY <1>1, <1>2, <1>4 DEF Scheduled, Adds, Now
  <2>2. events'.structs \in Nat
    BY <2>1, FieldTypes
  <2>3. Structs \subseteq Structs' /\ engine'.stepper \in Structs' /\ engine'.stepper # NULL
    BY <1>2, <1>3, <2>1, <2>2 DEF Structs, NULL
  <2> QED BY <1>1, <1>2, <1>4, <2>1, <2>3
<1>5. CASE ~step
  BY <1>1, <1>2, <1>5 DEF Now, Structs
<1> QED BY <1>4, <1>5

\* sim_resume keeps the lists.
LEMMA ResumeLists == ASSUME ListsInv, NEW step \in BOOLEAN, Resume(step) PROVE ListsInv'
<1>1. /\ pc = "halted" /\ pc' = "preprocess" /\ aborted' \in {"no", "assert"} /\ run' = run /\ points' = points
      /\ hw' = hw /\ style' = style /\ seen' = [seen EXCEPT !.insns = 0, !.step = step]
      /\ engine' = [engine EXCEPT !.stepper = IF step THEN zalloc_id(sim_events_deschedule(events, @)) ELSE NULL]
  BY DEF Resume
<1>2. /\ Whole(events') /\ events'.held = events.held /\ Structs \subseteq Structs'
      /\ ToSet(events'.queue) = {x \in ToSet(events.queue) : x.ev # engine.stepper} \cup
           (IF step THEN {[ev |-> engine'.stepper, what |-> "step", time |-> Now + 1]} ELSE {})
      /\ ToSet(events'.watchpoints) = {x \in ToSet(events.watchpoints) : x.ev # engine.stepper}
      /\ ToSet(events'.watchedpoints) = {x \in ToSet(events.watchedpoints) : x.ev # engine.stepper}
      /\ engine'.stepper \in {NULL} \cup Structs' /\ engine'.last = engine.last
  BY ResumeSets
<1>3. Owned'
  <2>1. \A x \in ToSet(events'.queue) : x \in ToSet(events.queue) \/ x.what = "step"
    BY <1>2
  <2>2. "step" \notin Points /\ "step" \notin Timers
    BY KindsApart
  <2>3. \A x \in ToSet(events'.watchpoints) \cup ToSet(events'.watchedpoints) :
          x \in ToSet(events.watchpoints) \cup ToSet(events.watchedpoints)
    BY <1>2
  <2> QED BY <1>1, <2>1, <2>2, <2>3 DEF ListsInv, Owned
<1>4. Types'
  <2>1. seen' \in SeenType
    BY <1>1 DEF ListsInv, Types, SeenType
  <2>2. engine' \in [stepper : {NULL} \cup Structs', last : {"events", "cpu"}]
    <3>1. engine \in [stepper : {NULL} \cup Structs, last : {"events", "cpu"}]
      BY DEF ListsInv, Types
    <3>2. engine' = [engine EXCEPT !.stepper = engine'.stepper]
      BY <1>1, <3>1
    <3> QED BY <1>2, <3>1, <3>2
  <2> QED BY <1>1, <1>2, <2>1, <2>2, MoreStructs DEF ListsInv, Types
<1>5. Calling'
  BY <1>1 DEF ListsInv, Calling, InCall
<1> QED BY <1>3, <1>4, <1>5 DEF ListsInv

\* A watchpoint is taken from the list: it is handled, or it is put on the watched list.
LEMMA WatchNextEffect ==
  ASSUME ListsInv, WatchNext
  PROVE  LET x == Head(events.watchpoints) IN
         /\ x \in ToSet(events.watchpoints) /\ x.what \in Points /\ pc = "watch"
         /\ \/ /\ Descheduled(events, events', x.ev) /\ pc' = "handler"
               /\ run' = [run EXCEPT !.place = "watch", !.what = x.what]
               /\ seen' = [seen EXCEPT !.again = @ \/ x.what \in seen.watched, !.watched = @ \cup {x.what}]
            \/ /\ Whole(events') /\ SameRest(events, events') /\ events'.work_pending = events.work_pending
               /\ events'.structs = events.structs /\ events'.queue = events.queue
               /\ Listed' = Listed /\ pc' = pc /\ run' = run /\ seen' = seen
               /\ ToSet(events'.watchpoints) \cup ToSet(events'.watchedpoints)
                    = ToSet(events.watchpoints) \cup ToSet(events.watchedpoints)
<1> DEFINE x == Head(events.watchpoints)
<1>1. Whole(events) /\ events.watchpoints # <<>> /\ pc = "watch"
  BY DEF ListsInv, Types, WatchNext
<1>2. x \in ToSet(events.watchpoints) /\ x \in Watched
  BY <1>1, WatchTakes
<1>3. x.what \in Points
  BY <1>2 DEF Watched
<1>4. CASE sim_watch_valid(x.what)
  <2>1. /\ events' = sim_events_free([events EXCEPT !.watchpoints = Tail(@)], x.ev) /\ pc' = "handler"
        /\ run' = [run EXCEPT !.place = "watch", !.what = x.what]
        /\ seen' = [seen EXCEPT !.again = @ \/ x.what \in seen.watched, !.watched = @ \cup {x.what}]
    BY <1>4 DEF WatchNext
  <2>2. Descheduled(events, events', x.ev)
    BY <1>1, <2>1, WatchTakes
  <2> QED BY <1>1, <1>2, <1>3, <2>1, <2>2
<1>5. CASE ~sim_watch_valid(x.what)
  <2>1. /\ events' = [[events EXCEPT !.watchpoints = Tail(@)] EXCEPT !.watchedpoints = <<x>> \o @]
        /\ run' = run /\ seen' = seen /\ pc' = pc
    BY <1>5 DEF WatchNext
  <2>2. /\ Whole(events') /\ SameRest(events, events') /\ events'.work_pending = events.work_pending
        /\ events'.structs = events.structs /\ events'.queue = events.queue
        /\ ToSet(events'.watchpoints) \cup ToSet(events'.watchedpoints)
             = ToSet(events.watchpoints) \cup ToSet(events.watchedpoints)
    BY <1>1, <2>1, WatchMoves
  <2>3. Listed' = Listed
    BY <2>2 DEF Listed
  <2> QED BY <1>1, <1>2, <1>3, <2>1, <2>2, <2>3
<1> QED BY <1>4, <1>5

\* WatchNext keeps the lists.
LEMMA WatchNextLists == ASSUME ListsInv, WatchNext PROVE ListsInv'
<1> DEFINE x == Head(events.watchpoints)
<1>1. /\ x \in ToSet(events.watchpoints) /\ x.what \in Points /\ pc = "watch"
      /\ \/ /\ Descheduled(events, events', x.ev) /\ pc' = "handler"
            /\ run' = [run EXCEPT !.place = "watch", !.what = x.what]
            /\ seen' = [seen EXCEPT !.again = @ \/ x.what \in seen.watched, !.watched = @ \cup {x.what}]
         \/ /\ Whole(events') /\ SameRest(events, events') /\ events'.structs = events.structs
            /\ events'.queue = events.queue
            /\ pc' = pc /\ run' = run /\ seen' = seen
            /\ ToSet(events'.watchpoints) \cup ToSet(events'.watchedpoints)
                 = ToSet(events.watchpoints) \cup ToSet(events.watchedpoints)
  BY WatchNextEffect
<1>2. engine' = engine /\ points' = points /\ hw' = hw /\ aborted' = aborted /\ style' = style
  BY DEF WatchNext
<1> HIDE DEF x
<1>3. /\ run \in [time : Nat, place : {"watch", "queue", "none"}, what : Kinds \cup {"none"},
                  at : [ev : Nat, time : Nat]]
      /\ seen \in SeenType /\ Len(events.held) <= MAX_NR_SIGNAL_SIM_EVENTS
      /\ run.what = "none" /\ run.place = "none" /\ run.at = NoEvent
  BY <1>1 DEF ListsInv, Types, Calling, InCall
<1>4. CASE /\ Descheduled(events, events', x.ev) /\ pc' = "handler"
           /\ run' = [run EXCEPT !.place = "watch", !.what = x.what]
           /\ seen' = [seen EXCEPT !.again = @ \/ x.what \in seen.watched, !.watched = @ \cup {x.what}]
  <2>1. /\ Owned' /\ Structs' = Structs /\ Whole(events') /\ Listed' = {y \in Listed : y.ev # x.ev}
        /\ events'.held = events.held
    BY <1>2, <1>4, DeschedulesOwned DEF Descheduled, SameRest
  <2>2. /\ run' \in [time : Nat, place : {"watch", "queue", "none"}, what : Kinds \cup {"none"},
                     at : [ev : Nat, time : Nat]]
        /\ run'.what = x.what /\ run'.place = "watch"
    BY <1>1, <1>3, <1>4, KindsApart
  <2>3. seen' \in SeenType
    <3>1. (seen.again \/ x.what \in seen.watched) \in BOOLEAN /\ seen.watched \cup {x.what} \in SUBSET (Points \cup Timers)
      BY <1>1, <1>3 DEF SeenType
    <3> QED BY <1>3, <1>4, <3>1 DEF SeenType
  <2>4. Types'
    BY <1>2, <1>3, <1>4, <2>1, <2>2, <2>3 DEF ListsInv, Types
  <2>5. \A y \in Listed' : y.what # x.what
    <3>1. points[x.what].ev = x.ev
      BY <1>1 DEF ListsInv, Owned
    <3>2. \A y \in Listed : y.what = x.what => points[x.what].ev = y.ev
      BY <1>1 DEF ListsInv, Owned, Listed
    <3> QED BY <2>1, <3>1, <3>2
  <2>6. points[x.what].type # "cycles" /\ x.what # "none" /\ x.what \notin Timers
    BY <1>1, KindsApart DEF ListsInv, Owned
  <2>7. Calling'
    BY <1>1, <1>2, <1>4, <2>2, <2>5, <2>6 DEF Calling, InCall
  <2> QED BY <2>1, <2>4, <2>7 DEF ListsInv
<1>5. CASE /\ Whole(events') /\ SameRest(events, events') /\ events'.structs = events.structs
           /\ events'.queue = events.queue
           /\ pc' = pc /\ run' = run /\ seen' = seen
           /\ ToSet(events'.watchpoints) \cup ToSet(events'.watchedpoints)
                = ToSet(events.watchpoints) \cup ToSet(events.watchedpoints)
  <2>1. Types'
    BY <1>2, <1>3, <1>5 DEF ListsInv, Types, Structs, SameRest
  <2>2. Owned'
    BY <1>2, <1>5 DEF ListsInv, Owned
  <2>3. Calling'
    BY <1>1, <1>2, <1>3, <1>5 DEF Calling, InCall
  <2> QED BY <2>1, <2>2, <2>3 DEF ListsInv
<1> QED BY <1>1, <1>4, <1>5

\* QueueNext keeps the lists: what is handled has left them.
LEMMA QueueNextLists == ASSUME ListsInv, QueueNext PROVE ListsInv'
<1> DEFINE x == Head(events.queue)
<1>1. /\ pc = "queue" /\ events.queue # <<>> /\ pc' = "handler"
      /\ events' = sim_events_free(update_time_from_event([events EXCEPT !.queue = Tail(@)]), x.ev)
      /\ run' = [run EXCEPT !.place = "queue", !.what = x.what, !.at = [ev |-> x.ev, time |-> x.time]]
      /\ engine' = engine /\ points' = points /\ hw' = hw /\ aborted' = aborted /\ style' = style /\ seen' = seen
  BY DEF QueueNext
<1>2. Whole(events)
  BY DEF ListsInv, Types
<1>3. Descheduled(events, events', x.ev) /\ x \in ToSet(events.queue) /\ x \in Timed
  BY <1>1, <1>2, QueueTakes
<1> HIDE DEF x
<1>4. /\ Owned' /\ Structs' = Structs /\ Whole(events') /\ Listed' = {y \in Listed : y.ev # x.ev}
      /\ events'.held = events.held /\ events'.watchpoints = <<>>
  <2>1. events.watchpoints = <<>>
    BY <1>1 DEF ListsInv, Calling
  <2> QED BY <1>1, <1>3, <2>1, DeschedulesOwned DEF Descheduled, SameRest
<1>5. /\ run' \in [time : Nat, place : {"watch", "queue", "none"}, what : Kinds \cup {"none"},
                   at : [ev : Nat, time : Nat]]
      /\ run'.what = x.what /\ run'.place = "queue" /\ x.what \in Kinds
  <2>1. x.what \in Kinds /\ x.ev \in Nat /\ x.time \in Nat
    BY <1>3 DEF Timed
  <2> QED BY <1>1, <2>1 DEF ListsInv, Types
<1>6. Types'
  BY <1>1, <1>4, <1>5 DEF ListsInv, Types
<1>7. x.what \in Points \cup Timers => \A y \in Listed' : y.what # x.what
  <2>1. x.what \in Points => points[x.what].ev = x.ev /\ \A y \in Listed : y.what = x.what => points[x.what].ev = y.ev
    BY <1>3 DEF ListsInv, Owned, Listed
  <2>2. x.what \in Timers => hw[x.what] = x.ev
    BY <1>3 DEF ListsInv, Owned
  <2>3. ASSUME NEW y \in Listed, y.what = x.what, x.what \in Timers PROVE hw[x.what] = y.ev
    <3>1. y \in ToSet(events.watchpoints) \cup ToSet(events.watchedpoints) => y.what \in Points
      BY <1>2, FieldTypes
    <3>2. y \in ToSet(events.queue)
      BY <2>3, <3>1, KindsApart DEF Listed
    <3> QED BY <2>3, <3>2 DEF ListsInv, Owned
  <2> QED BY <1>4, <2>1, <2>2, <2>3
<1>8. x.what \in Points => points[x.what].type = "cycles"
  BY <1>3 DEF ListsInv, Owned
<1>9. x.what # "none"
  BY <1>5, KindsApart
<1>10. Calling'
  BY <1>1, <1>4, <1>5, <1>7, <1>8, <1>9 DEF Calling, InCall
<1> QED BY <1>4, <1>6, <1>10 DEF ListsInv

\* Finish keeps the lists.
LEMMA FinishLists == ASSUME ListsInv, Finish PROVE ListsInv'
<1>1. /\ pc = "queue" /\ pc' = "cpu" /\ run' = Idle /\ aborted' \in {"no", "assert"} /\ engine' = engine
      /\ points' = points /\ hw' = hw /\ style' = style /\ seen' = [seen EXCEPT !.watched = {}]
  BY DEF Finish
<1>2. Whole(events) /\ events.watchpoints = <<>>
  BY <1>1 DEF ListsInv, Types, Calling
<1>3. /\ Whole(events') /\ events'.structs = events.structs /\ events'.queue = events.queue
      /\ events'.held = events.held
      /\ events'.watchpoints = events.watchedpoints /\ events'.watchedpoints = <<>>
  BY <1>1, <1>2, RoundEnds
<1>4. seen' \in SeenType
  BY <1>1 DEF ListsInv, Types, SeenType
<1>5. Types'
  BY <1>1, <1>3, <1>4, IdleRun DEF ListsInv, Types, Structs
<1>6. Owned'
  <2>1. ToSet(events'.watchedpoints) = {}
    BY <1>3 DEF ToSet
  <2> QED BY <1>1, <1>3, <2>1 DEF ListsInv, Owned
<1>7. Calling'
  BY <1>1, IdleRun DEF ListsInv, Types, Calling, InCall
<1> QED BY <1>5, <1>6, <1>7 DEF ListsInv

\* The lists at the start: one event in the queue, the poll event.
LEMMA InitEffect ==
  ASSUME Init
  PROVE  /\ Whole(events) /\ events.nr_ticks_to_process = 1 /\ Now = 0 /\ events.held = <<>>
         /\ events.watchpoints = <<>> /\ events.watchedpoints = <<>> /\ events.work_pending = FALSE
         /\ ToSet(events.queue) = {[ev |-> zalloc_id([nr_ticks_to_process |-> 1, queue |-> <<>>, watchpoints |-> <<>>,
                 watchedpoints |-> <<>>, free_list |-> <<>>, held |-> <<>>,
                 work_pending |-> FALSE, time_of_event |-> 0, time_from_event |-> 0,
                 structs |-> 0]), what |-> "poll", time |-> 0]}
<1> DEFINE e == [nr_ticks_to_process |-> 1, queue |-> <<>>, watchpoints |-> <<>>,
                 watchedpoints |-> <<>>, free_list |-> <<>>, held |-> <<>>,
                 work_pending |-> FALSE, time_of_event |-> 0, time_from_event |-> 0,
                 structs |-> 0]
<1>1. events = sim_events_schedule(e, 0, "poll")
  BY DEF Init
<1>2. /\ e.nr_ticks_to_process = 1 /\ e.queue = <<>> /\ e.watchpoints = <<>> /\ e.watchedpoints = <<>>
      /\ e.free_list = <<>> /\ e.held = <<>> /\ e.work_pending = FALSE /\ e.structs = 0
      /\ e.time_of_event = 0 /\ e.time_from_event = 0
  OBVIOUS
<1>3. e \in EventsType
  BY DEF EventsType
<1> HIDE DEF e
<1>4. sim_events_time(e) = 0
  BY <1>2 DEF sim_events_time
<1>5. Ids(<<>>) = {} /\ ToSet(<<>>) = {} /\ DistinctIds(<<>>) /\ Distinct(<<>>) /\ Ordered(<<>>) /\ 1..0 = {}
  BY DEF Ids, ToSet, DistinctIds, Distinct, Ordered
<1>6. Whole(e)
  BY <1>2, <1>3, <1>4, <1>5 DEF Whole, Placed, Clocked
<1>7. Scheduled(e, events, zalloc_id(e), "poll", 0)
  <2>1. 0 \in Nat /\ "poll" \in Kinds
    BY DEF Kinds
  <2> QED BY <1>1, <1>6, <2>1, Schedules
<1>8. /\ Whole(events) /\ events.nr_ticks_to_process = 1 /\ Now = 0 /\ events.held = <<>>
      /\ events.watchpoints = <<>> /\ events.watchedpoints = <<>> /\ events.work_pending = FALSE
      /\ ToSet(events.queue) = {[ev |-> zalloc_id(e), what |-> "poll", time |-> 0 + 0]}
  BY <1>2, <1>4, <1>5, <1>7 DEF Scheduled, Adds, Now
<1>9. 0 + 0 = 0
  OBVIOUS
<1> QED BY <1>8, <1>9 DEF e

\* The lists are whole at the start.
LEMMA InitLists == ASSUME Init PROVE ListsInv
<1>1. /\ Whole(events) /\ events.held = <<>> /\ events.watchpoints = <<>> /\ events.watchedpoints = <<>>
      /\ \A x \in ToSet(events.queue) : x.what = "poll"
  BY InitEffect
<1>2. /\ engine = [stepper |-> NULL, last |-> "events"] /\ pc = "halted" /\ run = Idle
      /\ points = [p \in Points |-> NoPoint] /\ hw = [h \in Timers |-> NULL] /\ aborted = "no"
      /\ style \in [slip : SlipStyles, n : TickSizes]
      /\ seen = [insns |-> 0, step |-> FALSE, watched |-> {}, again |-> FALSE, calls |-> 0, signals |-> 0]
  BY DEF Init
<1>3. style \in [slip : BOOLEAN, n : Nat \ {0}] /\ seen \in SeenType /\ NoPoint \in PointType
  BY <1>2, SimAssumption DEF SeenType, NoPoint, PointType
<1>4. run \in [time : Nat, place : {"watch", "queue", "none"}, what : Kinds \cup {"none"},
               at : [ev : Nat, time : Nat]]
      /\ run.what = "none" /\ run.place = "none" /\ run.at = NoEvent
  BY <1>2 DEF Idle, NoEvent, NULL
<1>5. Types
  BY <1>1, <1>2, <1>3, <1>4, SimAssumption DEF Types, PointType
<1>6. Owned
  <2>1. ToSet(events.watchpoints) \cup ToSet(events.watchedpoints) = {}
    BY <1>1 DEF ToSet
  <2> QED BY <1>1, <2>1, KindsApart DEF Owned
<1>7. Calling
  BY <1>1, <1>2, <1>4 DEF Calling, InCall
<1> QED BY <1>5, <1>6, <1>7 DEF ListsInv

\* Every step keeps the lists.
LEMMA NextLists == ASSUME ListsInv, [Next]_vars PROVE ListsInv'
<1>1. CASE UNCHANGED vars
  BY <1>1 DEF vars, ListsInv, Types, Owned, Calling, Structs, Listed, InCall, SeenType
<1>2. CASE Machine
  BY <1>2, PreprocessLists, InsnLists, ProcessLists, MoveHeldLists, WatchNextLists, WatchDoneLists,
     QueueNextLists, FinishLists, PollLists, HaltLists, HandleLists, BounceLists DEF Machine
<1>3. CASE User
  BY <1>3, ResumeLists, CreateLists, DeleteLists DEF User
<1>4. CASE Device
  BY <1>4, HwScheduleLists, HwDescheduleLists DEF Device
<1>5. CASE Signal \/ sim_events_slip \/ CpuHalt
  BY <1>5, SignalLists, SlipLists, HaltLists
<1> QED BY <1>1, <1>2, <1>3, <1>4, <1>5 DEF Next

\* The lists of sim-events.c are whole in every reachable state, whatever the clients call.
LEMMA ListsWhole == Spec => []ListsInv
BY InitLists, NextLists, PTL DEF Spec

\* Two lists with nothing in common, one after the other.
LEMMA ConcatDistinct ==
  ASSUME NEW S, NEW s \in Seq(S), NEW t \in Seq(S), Distinct(s), Distinct(t), ToSet(s) \cap ToSet(t) = {}
  PROVE  s \o t \in Seq(S) /\ Distinct(s \o t) /\ ToSet(s \o t) = ToSet(s) \cup ToSet(t)
<1> DEFINE u == s \o t
<1>0. Len(s) \in Nat /\ Len(t) \in Nat /\ DOMAIN s = 1..Len(s) /\ DOMAIN t = 1..Len(t)
  OBVIOUS
<1>1. /\ u \in Seq(S) /\ Len(u) = Len(s) + Len(t) /\ DOMAIN u = 1..(Len(s) + Len(t))
      /\ \A i \in 1..(Len(s) + Len(t)) : u[i] = IF i <= Len(s) THEN s[i] ELSE t[i - Len(s)]
  BY ConcatProperties
<1> HIDE DEF u
<1>2. \A i \in DOMAIN u : \/ i <= Len(s) /\ i \in DOMAIN s /\ u[i] = s[i]
                          \/ i > Len(s) /\ i - Len(s) \in DOMAIN t /\ u[i] = t[i - Len(s)]
  BY <1>0, <1>1
<1>3. \A i \in DOMAIN s, j \in DOMAIN t : s[i] # t[j]
  BY DEF ToSet
<1>4. Distinct(u)
  <2> SUFFICES ASSUME NEW i \in DOMAIN u, NEW j \in DOMAIN u, u[i] = u[j] PROVE i = j
    BY DEF Distinct
  <2>0. i \in Int /\ j \in Int
    BY <1>0, <1>1
  <2>1. CASE i <= Len(s) /\ j <= Len(s)
    BY <1>0, <1>2, <2>0, <2>1 DEF Distinct
  <2>2. CASE i > Len(s) /\ j > Len(s)
    <3>1. i - Len(s) \in DOMAIN t /\ j - Len(s) \in DOMAIN t /\ t[i - Len(s)] = t[j - Len(s)]
      BY <1>0, <1>2, <2>0, <2>2
    <3>2. i - Len(s) = j - Len(s)
      BY <3>1 DEF Distinct
    <3> QED BY <1>0, <2>0, <3>2
  <2>3. CASE i <= Len(s) /\ j > Len(s)
    BY <1>0, <1>2, <1>3, <2>0, <2>3
  <2>4. CASE i > Len(s) /\ j <= Len(s)
    BY <1>0, <1>2, <1>3, <2>0, <2>4
  <2> QED BY <1>0, <2>0, <2>1, <2>2, <2>3, <2>4
<1>5. ToSet(u) = ToSet(s) \cup ToSet(t)
  <2>1. \A i \in DOMAIN s : i \in DOMAIN u /\ u[i] = s[i]
    BY <1>0, <1>1
  <2>2. ASSUME NEW j \in DOMAIN t PROVE \E i \in DOMAIN u : u[i] = t[j]
    <3>1. j + Len(s) \in 1..(Len(s) + Len(t)) /\ ~(j + Len(s) <= Len(s)) /\ (j + Len(s)) - Len(s) = j
      BY <1>0
    <3>2. u[j + Len(s)] = t[(j + Len(s)) - Len(s)]
      BY <1>1, <3>1
    <3> QED BY <1>1, <3>1, <3>2
  <2> QED BY <1>2, <2>1, <2>2 DEF ToSet
<1> QED BY <1>1, <1>4, <1>5 DEF u

\* A list with each of n numbers once has n places.
LEMMA DistinctLength ==
  ASSUME NEW s \in Seq(Nat), NEW n \in Nat, Distinct(s), ToSet(s) = 1..n
  PROVE  Len(s) = n
<1>1. Len(s) \in Nat /\ DOMAIN s = 1..Len(s) /\ s \in [1..Len(s) -> Nat]
  OBVIOUS
<1>2. \A i \in 1..Len(s) : s[i] \in 1..n
  BY <1>1 DEF ToSet
<1>3. s \in [1..Len(s) -> 1..n]
  BY <1>1, <1>2
<1>4. s \in Injection(1..Len(s), 1..n)
  BY <1>1, <1>3 DEF Injection, IsInjective, Distinct
<1>5. s \in Surjection(1..Len(s), 1..n)
  BY <1>1, <1>3 DEF Surjection, ToSet
<1>6. ExistsBijection(1..Len(s), 1..n)
  BY <1>4, <1>5 DEF ExistsBijection, Bijection
<1>7. IsFiniteSet(1..Len(s)) /\ Cardinality(1..Len(s)) = Len(s) /\ Cardinality(1..n) = n
  <2>1. ASSUME NEW m \in Nat PROVE IsFiniteSet(1..m) /\ Cardinality(1..m) = m
    <3>1. 1 \in Int /\ m \in Int
      OBVIOUS
    <3>2. IsFiniteSet(1..m) /\ Cardinality(1..m) = IF 1 > m THEN 0 ELSE m - 1 + 1
      BY <3>1, FS_Interval
    <3> QED BY <3>2
  <2> QED BY <1>1, <2>1
<1> QED BY <1>6, <1>7, FS_Bijection

\* The ids of a list, in its order.
LEMMA IdsInOrder ==
  ASSUME NEW S, NEW s \in Seq(S), \A x \in S : x.ev \in Nat, DistinctIds(s),
         NEW t, t = [i \in DOMAIN s |-> s[i].ev]
  PROVE  t \in Seq(Nat) /\ Distinct(t) /\ ToSet(t) = Ids(s)
<1>1. Len(s) \in Nat /\ DOMAIN s = 1..Len(s) /\ \A i \in DOMAIN s : s[i] \in S
  OBVIOUS
<1>2. \A i \in DOMAIN s : s[i].ev \in Nat
  BY <1>1
<1>3. t \in [1..Len(s) -> Nat]
  BY <1>1, <1>2
<1>4. t \in Seq(Nat) /\ DOMAIN t = DOMAIN s
  BY <1>1, <1>3
<1> QED BY <1>4 DEF Distinct, DistinctIds, ToSet, Ids

\* No structure is lost or in two places.
LEMMA Conserved == ListsInv => StructsConserved
<1> SUFFICES ASSUME ListsInv PROVE StructsConserved
  OBVIOUS
<1> DEFINE a == [i \in DOMAIN events.queue |-> events.queue[i].ev]
           b == [i \in DOMAIN events.watchpoints |-> events.watchpoints[i].ev]
           c == [i \in DOMAIN events.watchedpoints |-> events.watchedpoints[i].ev]
           d == events.free_list
           lists == a \o b \o c \o d
<1>0. Whole(events) /\ Placed(events)
  BY DEF ListsInv, Types, Whole
<1>1. /\ \A x \in Timed : x.ev \in Nat
      /\ \A x \in Watched : x.ev \in Nat
  BY DEF Timed, Watched
<1>2. a \in Seq(Nat) /\ Distinct(a) /\ ToSet(a) = Ids(events.queue)
  BY <1>0, <1>1, FieldTypes, IdsInOrder DEF Placed
<1>3. b \in Seq(Nat) /\ Distinct(b) /\ ToSet(b) = Ids(events.watchpoints)
  BY <1>0, <1>1, FieldTypes, IdsInOrder DEF Placed
<1>4. c \in Seq(Nat) /\ Distinct(c) /\ ToSet(c) = Ids(events.watchedpoints)
  BY <1>0, <1>1, FieldTypes, IdsInOrder DEF Placed
<1>5. d \in Seq(Nat) /\ Distinct(d) /\ ToSet(d) = ToSet(events.free_list) /\ events.structs \in Nat
  BY <1>0, FieldTypes DEF Placed
<1> HIDE DEF a, b, c, d
<1>6. /\ ToSet(a) \cap ToSet(b) = {} /\ (ToSet(a) \cup ToSet(b)) \cap ToSet(c) = {}
      /\ (ToSet(a) \cup ToSet(b) \cup ToSet(c)) \cap ToSet(d) = {}
  BY <1>0, <1>2, <1>3, <1>4, <1>5 DEF Placed
<1> DEFINE ab == a \o b
           abc == ab \o c
<1>7. ab \in Seq(Nat) /\ Distinct(ab) /\ ToSet(ab) = ToSet(a) \cup ToSet(b)
  BY <1>2, <1>3, <1>6, ConcatDistinct
<1> HIDE DEF ab
<1>a. abc \in Seq(Nat) /\ Distinct(abc) /\ ToSet(abc) = ToSet(a) \cup ToSet(b) \cup ToSet(c)
  BY <1>4, <1>6, <1>7, ConcatDistinct
<1> HIDE DEF abc
<1>b. lists = abc \o d
  BY DEF abc, ab
<1> HIDE DEF lists
<1>8. lists \in Seq(Nat) /\ Distinct(lists) /\ ToSet(lists) = ToSet(a) \cup ToSet(b) \cup ToSet(c) \cup ToSet(d)
  BY <1>5, <1>6, <1>a, <1>b, ConcatDistinct
<1>9. ToSet(lists) = 1..events.structs
  BY <1>0, <1>2, <1>3, <1>4, <1>5, <1>8 DEF Placed
<1>10. lists = [i \in DOMAIN events.queue |-> events.queue[i].ev]
                 \o [i \in DOMAIN events.watchpoints |-> events.watchpoints[i].ev]
                 \o [i \in DOMAIN events.watchedpoints |-> events.watchedpoints[i].ev]
                 \o events.free_list
  BY DEF a, b, c, d, lists
<1>11. Len(lists) = events.structs
  BY <1>5, <1>8, <1>9, DistinctLength
<1>12. \A s \in Structs : \E i \in DOMAIN lists : lists[i] = s
  BY <1>9 DEF ToSet, Structs
<1> QED BY <1>10, <1>11, <1>12 DEF StructsConserved

\* The types hold.
LEMMA TypesHold == ListsInv => TypeOK
<1> SUFFICES ASSUME ListsInv PROVE TypeOK
  OBVIOUS
<1>0. Whole(events)
  BY DEF ListsInv, Types
<1>1. /\ \A x \in ToSet(events.queue) : x \in Timed /\ x.ev \in Structs
      /\ \A x \in ToSet(events.watchpoints) \cup ToSet(events.watchedpoints) : x \in Watched /\ x.ev \in Structs
  BY <1>0, UniqueIds DEF Structs
<1>2. /\ \A x \in ToSet(events.queue) : x \in TimedEvent
      /\ \A x \in ToSet(events.watchpoints) \cup ToSet(events.watchedpoints) : x \in Watch
  BY <1>1 DEF TimedEvent, Watch, Timed, Watched
<1>3. \A S : \A s \in Seq(S) : \A R : (\A x \in ToSet(s) : x \in R) => s \in Seq(R)
  <2> SUFFICES ASSUME NEW S, NEW s \in Seq(S), NEW R, \A x \in ToSet(s) : x \in R PROVE s \in Seq(R)
    OBVIOUS
  <2>1. \A i \in 1..Len(s) : s[i] \in R
    BY DEF ToSet
  <2>2. s \in [1..Len(s) -> R] /\ Len(s) \in Nat
    BY <2>1
  <2> QED BY <2>2
<1>4. /\ events.queue \in Seq(Timed) /\ events.watchpoints \in Seq(Watched)
      /\ events.watchedpoints \in Seq(Watched) /\ events.free_list \in Seq(Nat)
      /\ events.held \in Seq({0}) /\ events.nr_ticks_to_process \in Nat /\ events.work_pending \in BOOLEAN
      /\ events.time_of_event \in Int /\ events.time_from_event \in Int
  BY <1>0, FieldTypes
<1>5. ToSet(events.free_list) \subseteq Structs
  BY <1>0 DEF Whole, Placed, Structs
<1>6. /\ events.queue \in Seq(TimedEvent) /\ events.watchpoints \in Seq(Watch)
      /\ events.watchedpoints \in Seq(Watch) /\ events.free_list \in Seq(Structs)
  BY <1>2, <1>3, <1>4, <1>5
<1>7. /\ run.what \in Kinds \cup {"none"} /\ run.place \in {"watch", "queue", "none"}
  BY DEF ListsInv, Types
<1> QED BY <1>4, <1>6, <1>7 DEF TypeOK, ListsInv, Types

-----------------------------------------------------------------------------
(* What holds between the lists, the clock and the main loop.              *)

Overdue == \E x \in ToSet(events.queue) : x.time < Now

\* sim_events_process is under way, or will go on where it was halted.
Processing == pc \in {"process", "held", "moving", "watch", "queue", "handler", "callback"}
RoundOn == Processing \/ (pc \in {"halted", "preprocess"} /\ engine.last = "events")

\* There are ticks to process exactly in a round; and event_time of sim_events_process is the
\* time, which does not pass before the end of the round.
Rounds ==
  /\ events.nr_ticks_to_process # 0 <=> RoundOn
  /\ style.n = 1 => events.nr_ticks_to_process <= 1
  /\ style.slip => style.n = 1
  /\ Processing /\ pc # "process" => run.time = Now

\* The poll event is in the queue, except while its handler runs.
PollKept ==
  IF run.what = "poll"
    THEN \A x \in ToSet(events.queue) : x.what # "poll"
    ELSE /\ \E x \in ToSet(events.queue) : x.what = "poll"
         /\ \A x, y \in ToSet(events.queue) : x.what = "poll" /\ y.what = "poll" => x = y

\* What an owner points to is in a list, except while its handler runs.
OwnersKept ==
  /\ \A h \in Timers :
       hw[h] # NULL => \/ pc = "handler" /\ run.what = h
                       \/ \E x \in ToSet(events.queue) : x.what = h /\ x.ev = hw[h]
  /\ \A p \in Points :
       points[p].ev # NULL => IF pc = "handler" /\ run.what = p
                                THEN \A x \in Listed : x.ev # points[p].ev
                                ELSE \E x \in Listed : x.what = p /\ x.ev = points[p].ev

\* The stepper is in the queue until it fires; after that it points to a free structure, until
\* sim_resume has looked at it.
StepperKept ==
  /\ seen.step <=> engine.stepper # NULL
  /\ \A x \in ToSet(events.queue) : x.what = "step" => x.ev = engine.stepper
  /\ run.what = "step" => \A x \in Listed : x.ev # engine.stepper
  /\ engine.stepper # NULL => \/ \E x \in ToSet(events.queue) : x.what = "step"
                              \/ /\ pc = "halted" \/ run.what = "step"
                                 /\ \A x \in Listed : x.ev # engine.stepper

\* Nothing is passed over, or the next tick will see it.
InTime ==
  /\ Overdue => style.slip /\ (RoundOn \/ events.work_pending)
  /\ run.place = "queue" => /\ run.at.time < run.time + events.nr_ticks_to_process
                            /\ style.slip \/ run.at.time >= run.time

\* Held events and watchpoints will be looked at.
Flagged ==
  /\ events.held # <<>> => events.work_pending \/ pc \in {"held", "moving"}
  /\ events.watchpoints # <<>> => events.work_pending \/ RoundOn

\* The instructions of a step, and when the stepper is due.
Counted ==
  /\ ~seen.step => seen.insns = 0
  /\ style.n = 1 =>
       /\ seen.insns <= 1
       /\ run.what = "step" => seen.insns = 1
       /\ \A x \in ToSet(events.queue) : x.what = "step" =>
            /\ pc = "preprocess" => seen.insns = 0 /\ x.time = Now + 1
            /\ pc = "cpu" => seen.insns = 0 /\ x.time <= Now
            /\ Processing => \/ seen.insns = 0 /\ x.time = Now + 1 /\ events.nr_ticks_to_process = 1
                             \/ seen.insns = 1 /\ x.time < Now + events.nr_ticks_to_process

QueueInv == Rounds /\ PollKept /\ OwnersKept /\ StepperKept /\ InTime /\ Flagged /\ AssertsHold /\ Counted

\* time_from_event is the distance to the first event, and no event is before it.
LEMMA Distance ==
  ASSUME NEW e, Whole(e), e.queue # <<>>
  PROVE  /\ Head(e.queue) \in ToSet(e.queue) /\ Head(e.queue).time \in Nat
         /\ e.time_from_event = Head(e.queue).time - sim_events_time(e)
         /\ \A x \in ToSet(e.queue) : x.time \in Nat /\ Head(e.queue).time <= x.time
<1>1. /\ e.queue \in Seq(Timed) /\ DistinctIds(e.queue) /\ Ordered(e.queue)
      /\ e.time_of_event = Head(e.queue).time /\ e.time_of_event \in Int /\ e.time_from_event \in Int
      /\ sim_events_time(e) = e.time_of_event - e.time_from_event
  BY DEF Whole, Placed, Clocked, EventsType, sim_events_time
<1>2. Head(e.queue) \in ToSet(e.queue) /\ \A x \in ToSet(e.queue) : Head(e.queue).time <= x.time
  BY <1>1, TailFacts
<1>3. \A x \in ToSet(e.queue) : x.time \in Nat
  BY FieldTypes
<1>4. e.time_from_event = Head(e.queue).time - sim_events_time(e)
  BY <1>1
<1> QED BY <1>2, <1>3, <1>4

\* A time up to which no event is due.
LEMMA NoneDue ==
  ASSUME NEW e, Whole(e), NEW n \in Nat, e.queue # <<>>, e.time_from_event >= n
  PROVE  \A x \in ToSet(e.queue) : x.time >= sim_events_time(e) + n
<1>1. /\ e.time_from_event = Head(e.queue).time - sim_events_time(e) /\ Head(e.queue).time \in Nat
      /\ \A x \in ToSet(e.queue) : x.time \in Nat /\ Head(e.queue).time <= x.time
      /\ sim_events_time(e) \in Nat
  BY Distance, FieldTypes
<1>2. Head(e.queue).time >= sim_events_time(e) + n
  BY <1>1
<1> QED BY <1>1, <1>2

\* While the processor runs, and whenever no handler does, the queue is not empty.
LEMMA PollQueued ==
  ASSUME ListsInv, QueueInv, ~InCall
  PROVE  events.queue # <<>> /\ ToSet(events.queue) # {}
<1>1. \E x \in ToSet(events.queue) : x.what = "poll"
  BY DEF ListsInv, QueueInv, Calling, PollKept
<1>2. events.queue \in Seq(Timed)
  BY FieldTypes DEF ListsInv, Types
<1> QED BY <1>1, <1>2, EmptyList

\* A step that leaves the lists alone keeps what is in them.
LEMMA QuietKept ==
  ASSUME QueueInv, events'.queue = events.queue, Listed' = Listed, points' = points, hw' = hw,
         pc' = "handler" <=> pc = "handler", run'.what = run.what, engine'.stepper = engine.stepper,
         seen'.step = seen.step, pc = "halted" => pc' = "halted"
  PROVE  PollKept' /\ OwnersKept' /\ StepperKept'
<1>1. PollKept'
  BY DEF QueueInv, PollKept
<1>2. OwnersKept'
  BY DEF QueueInv, OwnersKept
<1>3. StepperKept'
  BY DEF QueueInv, StepperKept
<1> QED BY <1>1, <1>2, <1>3

\* An instruction keeps the invariant.
LEMMA InsnInv == ASSUME ListsInv, QueueInv, aborted = "no", Insn PROVE QueueInv'
<1>1. Whole(events) /\ style.n \in Nat \ {0} /\ pc = "cpu" /\ run' = run /\ run.what = "none" /\ run.place = "none"
      /\ seen.insns \in Nat /\ seen \in SeenType
  BY DEF ListsInv, Types, Insn, Calling, InCall, SeenType
<1>2. /\ events.queue # <<>> /\ events.nr_ticks_to_process = 0 /\ Now \in Nat
      /\ events.time_from_event \in Int
  BY <1>1, PollQueued, FieldTypes DEF InCall, QueueInv, Rounds, RoundOn, Processing, Now
<1>3. PICK n \in 1..style.n :
           \/ style.n = 1 /\ n = 1 /\ Tick(events.time_from_event = 0, n)
           \/ style.n > 1 /\ Tick(events.time_from_event < n, n)
  BY InsnTicks
<1>4. n \in Nat \ {0}
  BY <1>1
<1>5. /\ engine' = engine /\ points' = points /\ hw' = hw /\ aborted' = aborted /\ style' = style
      /\ seen' = [seen EXCEPT !.insns = IF seen.step THEN @ + 1 ELSE @]
  BY DEF Insn
<1>6. seen'.step = seen.step /\ seen'.insns = IF seen.step THEN seen.insns + 1 ELSE seen.insns
  BY <1>1, <1>5 DEF SeenType
<1>7. ~Overdue \/ (style.slip /\ events.work_pending)
  BY <1>1 DEF QueueInv, InTime, RoundOn, Processing
<1>8. \A x \in ToSet(events.queue) : x.time \in Nat /\ (x.what = "step" /\ style.n = 1 => x.time <= Now /\ seen.insns = 0)
  BY <1>1, FieldTypes DEF QueueInv, Counted
<1>9. seen.step => \E x \in ToSet(events.queue) : x.what = "step"
  BY <1>1 DEF QueueInv, StepperKept
<1>10. style.n = 1 => seen.insns = 0
  BY <1>8, <1>9 DEF QueueInv, Counted
<1>11. /\ events'.held = events.held /\ events'.work_pending = events.work_pending
       /\ events'.queue = events.queue /\ Listed' = Listed /\ events'.watchpoints = events.watchpoints
  <2>1. /\ events'.held = events.held /\ events'.work_pending = events.work_pending
        /\ \E d : Ticks(events, events', d)
    BY <1>1, <1>3, <1>4, TickEffect
  <2> QED BY <2>1 DEF Ticks, Listed
<1>12. PollKept' /\ OwnersKept' /\ StepperKept'
  <2>1. pc' # "handler"
    BY <1>1, <1>3, <1>4, TickEffect
  <2> QED BY <1>1, <1>5, <1>6, <1>11, <2>1, QuietKept
<1>13. AssertsHold'
  BY <1>5 DEF AssertsHold
<1>14. CASE pc' = "process"
  <2>1. /\ Ticks(events, events', 0) /\ events'.nr_ticks_to_process = n /\ n # 0 /\ (style.n = 1 => n = 1)
    BY <1>1, <1>2, <1>3, <1>4, <1>14, TickEffect
  <2>2. Now' = Now
    BY <1>2, <2>1 DEF Ticks, Now
  <2>3. Rounds'
    BY <1>5, <1>14, <2>1 DEF QueueInv, Rounds, RoundOn, Processing
  <2>4. InTime'
    BY <1>1, <1>5, <1>7, <1>11, <1>14, <2>2 DEF QueueInv, InTime, RoundOn, Processing, Overdue
  <2>5. Flagged'
    BY <1>1, <1>11, <1>14 DEF QueueInv, Flagged, RoundOn, Processing
  <2>6. Counted'
    <3>1. ~seen'.step => seen'.insns = 0
      BY <1>6 DEF QueueInv, Counted
    <3>2. ASSUME style.n = 1
          PROVE  /\ seen'.insns <= 1
                 /\ \A x \in ToSet(events.queue) : x.what = "step" =>
                      seen'.insns = 1 /\ x.time < Now' + events'.nr_ticks_to_process
      <4>1. seen'.insns = IF seen.step THEN 1 ELSE 0
        BY <1>6, <1>10, <3>2
      <4>2. ASSUME NEW x \in ToSet(events.queue), x.what = "step" PROVE seen.step
        <5>1. x.ev # NULL /\ x.ev = engine.stepper
          BY <1>1, <4>2, UniqueIds DEF QueueInv, StepperKept
        <5> QED BY <5>1 DEF QueueInv, StepperKept
      <4>3. ASSUME NEW x \in ToSet(events.queue), x.what = "step"
            PROVE  x.time < Now' + events'.nr_ticks_to_process
        BY <1>2, <1>8, <2>1, <2>2, <3>2, <4>3
      <4> QED BY <4>1, <4>2, <4>3
    <3> QED BY <1>1, <1>5, <1>11, <1>14, <3>1, <3>2 DEF Counted
  <2> QED BY <1>12, <1>13, <2>3, <2>4, <2>5, <2>6 DEF QueueInv
<1>15. CASE pc' = "cpu"
  <2>1. /\ Ticks(events, events', n) /\ events'.nr_ticks_to_process = 0 /\ ~events.work_pending
        /\ (style.n = 1 /\ n = 1 /\ events.time_from_event # 0) \/ (style.n > 1 /\ ~(events.time_from_event < n))
    BY <1>1, <1>2, <1>3, <1>4, <1>15, TickEffect
  <2>2. Now' = Now + n
    BY <2>1 DEF Ticks, Now
  <2>3. events.time_from_event >= n
    <3>1. /\ events.time_from_event = Head(events.queue).time - Now /\ Head(events.queue) \in ToSet(events.queue)
          /\ Head(events.queue).time \in Nat
      BY <1>1, <1>2, Distance DEF Now
    <3>2. Head(events.queue).time >= Now
      BY <1>2, <1>7, <2>1, <3>1 DEF Overdue
    <3> QED BY <1>2, <1>4, <2>1, <3>1, <3>2
  <2>4. \A x \in ToSet(events.queue) : x.time >= Now'
    BY <1>1, <1>2, <1>4, <2>2, <2>3, NoneDue DEF Now
  <2>5. Rounds'
    BY <1>5, <1>15, <2>1 DEF QueueInv, Rounds, RoundOn, Processing
  <2>6. InTime'
    <3>1. ~Overdue'
      BY <1>2, <1>4, <1>8, <1>11, <2>2, <2>4 DEF Overdue
    <3> QED BY <1>1, <3>1 DEF InTime
  <2>7. Flagged'
    BY <1>1, <1>11, <1>15, <2>1 DEF QueueInv, Flagged, RoundOn, Processing
  <2>8. style.n = 1 => \A x \in ToSet(events.queue) : x.what # "step"
    BY <1>2, <1>4, <1>8, <2>2, <2>4
  <2>9. Counted'
    <3>1. ~seen'.step => seen'.insns = 0
      BY <1>6 DEF QueueInv, Counted
    <3>2. style.n = 1 => ~seen.step
      BY <1>9, <2>8
    <3>3. style.n = 1 => seen'.insns <= 1
      BY <1>6, <3>1, <3>2
    <3> QED BY <1>1, <1>5, <1>11, <2>8, <3>1, <3>3 DEF Counted
  <2> QED BY <1>12, <1>13, <2>5, <2>6, <2>7, <2>9 DEF QueueInv
<1> QED BY <1>1, <1>3, <1>4, <1>14, <1>15, TickEffect

\* sim_events_preprocess keeps the invariant: processing goes on, or the tick is made up for.
LEMMA PreprocessInv == ASSUME ListsInv, QueueInv, aborted = "no", sim_events_preprocess PROVE QueueInv'
<1>1. /\ Whole(events) /\ style.n \in Nat \ {0} /\ pc = "preprocess" /\ run' = run /\ run.what = "none"
      /\ run.place = "none" /\ engine' = engine /\ points' = points /\ hw' = hw /\ style' = style /\ seen' = seen
  BY DEF ListsInv, Types, sim_events_preprocess, Calling, InCall
<1>2. /\ events.queue # <<>> /\ Now \in Nat /\ events.time_from_event \in Int
      /\ events.nr_ticks_to_process \in Nat /\ \A x \in ToSet(events.queue) : x.time \in Nat
  BY <1>1, PollQueued, FieldTypes DEF InCall, Now
<1>3. CASE engine.last = "events"
  <2>1. events' = events /\ pc' = "process" /\ events.nr_ticks_to_process # 0 /\ aborted' = "no"
    BY <1>1, <1>3 DEF sim_events_preprocess, QueueInv, Rounds, RoundOn
  <2>2. Now' = Now /\ Listed' = Listed
    BY <2>1 DEF Now, Listed
  <2>3. PollKept' /\ OwnersKept' /\ StepperKept'
    BY <1>1, <2>1, <2>2, QuietKept
  <2>4. Rounds'
    BY <1>1, <2>1 DEF QueueInv, Rounds, RoundOn, Processing
  <2>5. InTime'
    BY <1>1, <2>1, <2>2 DEF QueueInv, InTime, RoundOn, Processing, Overdue
  <2>6. Flagged' /\ AssertsHold'
    BY <1>1, <2>1 DEF QueueInv, Flagged, RoundOn, Processing, AssertsHold
  <2>7. Counted'
    <3>1. style.n = 1 => events.nr_ticks_to_process = 1
      BY <1>2, <2>1 DEF QueueInv, Rounds
    <3> QED BY <1>1, <2>1, <2>2, <3>1 DEF QueueInv, Counted
  <2> QED BY <2>3, <2>4, <2>5, <2>6, <2>7 DEF QueueInv
<1>4. CASE engine.last # "events"
  <2>1. Tick(events.time_from_event = 0, 1) /\ aborted' = aborted /\ 1 \in Nat
    BY <1>4 DEF sim_events_preprocess, sim_events_tick
  <2>2. /\ events'.held = events.held /\ events'.work_pending = events.work_pending
        /\ events'.queue = events.queue /\ Listed' = Listed /\ events'.watchpoints = events.watchpoints
    <3>1. /\ events'.held = events.held /\ events'.work_pending = events.work_pending
          /\ \E d : Ticks(events, events', d)
      BY <1>1, <2>1, TickEffect
    <3> QED BY <3>1 DEF Ticks, Listed
  <2>3. PollKept' /\ OwnersKept' /\ StepperKept'
    <3>1. pc' # "handler"
      BY <1>1, <2>1, TickEffect
    <3> QED BY <1>1, <2>2, <3>1, QuietKept
  <2>4. AssertsHold'
    BY <1>1, <2>1 DEF QueueInv, AssertsHold
  <2>5. /\ ~Overdue \/ (style.slip /\ events.work_pending)
        /\ events.nr_ticks_to_process = 0
        /\ events.watchpoints # <<>> => events.work_pending
        /\ events.held # <<>> => events.work_pending
    BY <1>1, <1>4 DEF QueueInv, InTime, RoundOn, Processing, Rounds, Flagged
  <2>6. CASE pc' = "process"
    <3>1. Ticks(events, events', 0) /\ events'.nr_ticks_to_process = 1
      BY <1>1, <1>2, <2>1, <2>5, <2>6, TickEffect
    <3>2. Now' = Now
      BY <1>2, <3>1 DEF Ticks, Now
    <3>3. Rounds'
      BY <1>1, <2>6, <3>1 DEF QueueInv, Rounds, RoundOn, Processing
    <3>4. InTime'
      BY <1>1, <2>2, <2>5, <2>6, <3>2 DEF InTime, RoundOn, Processing, Overdue
    <3>5. Flagged'
      BY <2>2, <2>5 DEF Flagged
    <3>6. Counted'
      BY <1>1, <2>2, <2>6, <3>1, <3>2 DEF QueueInv, Counted
    <3> QED BY <2>3, <2>4, <3>3, <3>4, <3>5, <3>6 DEF QueueInv
  <2>7. CASE pc' = "cpu"
    <3>1. /\ Ticks(events, events', 1) /\ events'.nr_ticks_to_process = 0 /\ ~events.work_pending
          /\ events.time_from_event # 0
      BY <1>1, <2>1, <2>5, <2>7, TickEffect
    <3>2. Now' = Now + 1
      BY <3>1 DEF Ticks, Now
    <3>3. events.time_from_event >= 1
      <4>1. /\ events.time_from_event = Head(events.queue).time - Now /\ Head(events.queue) \in ToSet(events.queue)
            /\ Head(events.queue).time \in Nat
        BY <1>1, <1>2, Distance DEF Now
      <4>2. Head(events.queue).time >= Now
        BY <1>2, <2>5, <3>1, <4>1 DEF Overdue
      <4> QED BY <1>2, <3>1, <4>1, <4>2
    <3>4. \A x \in ToSet(events.queue) : x.time >= Now'
      BY <1>1, <1>2, <3>2, <3>3, NoneDue DEF Now
    <3>5. Rounds'
      BY <1>1, <1>4, <2>7, <3>1 DEF QueueInv, Rounds, RoundOn, Processing
    <3>6. InTime'
      <4>1. ~Overdue'
        BY <1>2, <2>2, <3>2, <3>4 DEF Overdue
      <4> QED BY <1>1, <4>1 DEF InTime
    <3>7. Flagged'
      BY <2>2, <2>5 DEF Flagged
    <3>8. Counted'
      BY <1>1, <1>2, <2>2, <2>7, <3>2 DEF QueueInv, Counted, Processing
    <3> QED BY <2>3, <2>4, <3>5, <3>6, <3>7, <3>8 DEF QueueInv
  <2> QED BY <1>1, <2>1, <2>6, <2>7, TickEffect
<1> QED BY <1>3, <1>4

\* sim_events_slip keeps the invariant: what it passes is flagged.
LEMMA SlipInv == ASSUME ListsInv, QueueInv, aborted = "no", sim_events_slip PROVE QueueInv'
<1>1. /\ Whole(events) /\ pc = "cpu" /\ pc' = pc /\ style.slip /\ run' = run /\ run.what = "none" /\ run.place = "none"
      /\ engine' = engine /\ points' = points /\ hw' = hw /\ style' = style /\ seen' = seen /\ aborted' = aborted
  BY DEF ListsInv, Types, sim_events_slip, Calling, InCall
<1>2. /\ Ticks(events, events', 1) /\ events'.held = events.held
      /\ events'.nr_ticks_to_process = events.nr_ticks_to_process
      /\ events'.work_pending = (events.work_pending \/ events.time_from_event < 1)
  BY <1>1, SlipEffect
<1>3. Now' = Now + 1 /\ events'.queue = events.queue /\ Listed' = Listed /\ events'.watchpoints = events.watchpoints
  BY <1>2 DEF Ticks, Now, Listed
<1>4. /\ events.queue # <<>> /\ Now \in Nat /\ events.time_from_event \in Int
      /\ \A x \in ToSet(events.queue) : x.time \in Nat
  BY <1>1, PollQueued, FieldTypes DEF InCall, Now
<1>5. PollKept' /\ OwnersKept' /\ StepperKept'
  BY <1>1, <1>3, QuietKept
<1>6. Rounds'
  BY <1>1, <1>2 DEF QueueInv, Rounds, RoundOn, Processing
<1>7. InTime'
  <2>1. CASE events.time_from_event < 1
    BY <1>1, <1>2, <2>1 DEF InTime
  <2>2. CASE events.time_from_event >= 1
    <3>1. \A x \in ToSet(events.queue) : x.time >= Now + 1
      BY <1>1, <1>4, <2>2, NoneDue DEF Now
    <3>2. ~Overdue'
      BY <1>3, <1>4, <3>1 DEF Overdue
    <3> QED BY <1>1, <3>2 DEF InTime
  <2> QED BY <1>4, <2>1, <2>2
<1>8. Flagged' /\ AssertsHold'
  BY <1>1, <1>2, <1>3 DEF QueueInv, Flagged, RoundOn, Processing, AssertsHold
<1>9. Counted'
  BY <1>1, <1>3, <1>4 DEF QueueInv, Counted, Processing
<1> QED BY <1>5, <1>6, <1>7, <1>8, <1>9 DEF QueueInv

\* A halt from an instruction keeps the invariant.
LEMMA CpuHaltInv == ASSUME ListsInv, QueueInv, aborted = "no", CpuHalt PROVE QueueInv'
<1>1. /\ pc = "cpu" /\ pc' = "halted" /\ run.what = "none" /\ engine' = [engine EXCEPT !.last = "cpu"] /\ run' = Idle
      /\ events' = events /\ points' = points /\ hw' = hw /\ style' = style /\ seen' = seen /\ aborted' = aborted
      /\ engine \in [stepper : {NULL} \cup Structs, last : {"events", "cpu"}]
  BY DEF ListsInv, Types, CpuHalt, sim_engine_halt, Calling, InCall
<1>2. /\ Now' = Now /\ Listed' = Listed /\ engine'.stepper = engine.stepper /\ engine'.last = "cpu"
      /\ run'.what = "none" /\ run'.place = "none"
  BY <1>1 DEF Now, Listed, Idle
<1>3. PollKept' /\ OwnersKept' /\ StepperKept'
  BY <1>1, <1>2, QuietKept
<1>4. Rounds'
  BY <1>1, <1>2 DEF QueueInv, Rounds, RoundOn, Processing
<1>5. InTime'
  BY <1>1, <1>2 DEF QueueInv, InTime, RoundOn, Processing, Overdue
<1>6. Flagged' /\ AssertsHold'
  BY <1>1, <1>2 DEF QueueInv, Flagged, RoundOn, Processing, AssertsHold
<1>7. Counted'
  BY <1>1, <1>2 DEF QueueInv, Counted, Processing
<1> QED BY <1>3, <1>4, <1>5, <1>6, <1>7 DEF QueueInv

\* Process keeps the invariant: the flag is cleared when everything it stands for is about to
\* be looked at.
LEMMA ProcessInv == ASSUME ListsInv, QueueInv, aborted = "no", Process PROVE QueueInv'
<1>1. /\ Whole(events) /\ pc = "process" /\ pc' = "held" /\ run' = [run EXCEPT !.time = Now] /\ engine' = engine
      /\ points' = points /\ hw' = hw /\ style' = style /\ seen' = seen /\ aborted' = aborted
      /\ run.what = "none" /\ run.place = "none"
  BY DEF ListsInv, Types, Process, Now, Calling, InCall
<1>2. /\ Ticks(events, events', 0) /\ events'.held = events.held
      /\ events'.nr_ticks_to_process = events.nr_ticks_to_process
  BY <1>1, ProcessEffect
<1>3. Now' = Now + 0 /\ events'.queue = events.queue /\ Listed' = Listed /\ Now \in Nat
  BY <1>1, <1>2, FieldTypes DEF Ticks, Now, Listed
<1>4. Now' = Now
  BY <1>3
<1>5. run'.time = Now /\ run'.what = "none" /\ run'.place = "none"
  BY <1>1 DEF ListsInv, Types
<1>6. PollKept' /\ OwnersKept' /\ StepperKept'
  BY <1>1, <1>3, <1>5, QuietKept
<1>7. Rounds'
  BY <1>1, <1>2, <1>4, <1>5 DEF QueueInv, Rounds, RoundOn, Processing
<1>8. InTime'
  BY <1>1, <1>3, <1>4, <1>5 DEF QueueInv, InTime, RoundOn, Processing, Overdue
<1>9. Flagged' /\ AssertsHold'
  BY <1>1 DEF QueueInv, Flagged, RoundOn, Processing, AssertsHold
<1>10. Counted'
  BY <1>1, <1>2, <1>3, <1>4, <1>5 DEF QueueInv, Counted, Processing
<1> QED BY <1>6, <1>7, <1>8, <1>9, <1>10 DEF QueueInv

\* The end of the loop over the watchpoints, or over the held events, keeps the invariant.
LEMMA LoopEndInv ==
  ASSUME ListsInv, QueueInv, aborted = "no", WatchDone \/ (MoveHeld /\ events.held = <<>>)
  PROVE  QueueInv'
<1>1. /\ pc \in {"watch", "held", "moving"} /\ pc' \in {"queue", "watch"} /\ events' = events /\ run' = run
      /\ engine' = engine /\ points' = points /\ hw' = hw /\ style' = style /\ seen' = seen /\ aborted' = aborted
      /\ run.what = "none" /\ run.place = "none"
      /\ pc # "watch" => events.held = <<>>
  BY DEF ListsInv, WatchDone, MoveHeld, Calling, InCall
<1>2. Now' = Now /\ Listed' = Listed
  BY <1>1 DEF Now, Listed
<1>3. PollKept' /\ OwnersKept' /\ StepperKept'
  BY <1>1, <1>2, QuietKept
<1>4. Rounds'
  BY <1>1, <1>2 DEF QueueInv, Rounds, RoundOn, Processing
<1>5. InTime'
  BY <1>1, <1>2 DEF QueueInv, InTime, RoundOn, Processing, Overdue
<1>6. Flagged' /\ AssertsHold'
  BY <1>1 DEF QueueInv, Flagged, RoundOn, Processing, AssertsHold
<1>7. Counted'
  BY <1>1, <1>2 DEF QueueInv, Counted, Processing
<1> QED BY <1>3, <1>4, <1>5, <1>6, <1>7 DEF QueueInv

\* A step that edits the queue: time stands still, and what is added is not overdue and not a
\* stepper.
Edited ==
  /\ Whole(events') /\ Now' = Now /\ events'.nr_ticks_to_process = events.nr_ticks_to_process
  /\ \A x \in ToSet(events'.queue) : x \in ToSet(events.queue) \/ (x.time >= Now /\ x.what # "step")

\* What is scheduled, watched or descheduled edits the queue.
LEMMA EditsQueue ==
  ASSUME Whole(events), NEW id,
         \/ \E what \in Kinds \ {"step"}, delta \in Nat : Adds(events, events', id, what, delta)
         \/ \E what : Watches(events, events', id, what)
         \/ Descheduled(events, events', id)
  PROVE  Edited
<1>0. Now \in Nat
  BY FieldTypes DEF Now
<1>1. ASSUME NEW what \in Kinds \ {"step"}, NEW delta \in Nat, Adds(events, events', id, what, delta)
      PROVE  Edited
  <2>1. /\ Whole(events') /\ Now' = Now /\ events'.nr_ticks_to_process = events.nr_ticks_to_process
        /\ ToSet(events'.queue) = ToSet(events.queue) \cup {[ev |-> id, what |-> what, time |-> Now + delta]}
    BY <1>1 DEF Adds, Now
  <2> QED BY <1>0, <2>1 DEF Edited
<1>2. ASSUME NEW what, Watches(events, events', id, what) PROVE Edited
  BY <1>2 DEF Watches, SameRest, Edited, Now
<1>3. ASSUME Descheduled(events, events', id) PROVE Edited
  BY <1>3 DEF Descheduled, SameRest, Edited, Now
<1> QED BY <1>1, <1>2, <1>3

\* Such a step keeps what is known of the time.
LEMMA EditKept ==
  ASSUME ListsInv, QueueInv, Edited, style' = style, seen'.step = seen.step, seen'.insns = seen.insns,
         RoundOn' <=> RoundOn, Processing' => Processing,
         Processing' /\ pc' # "process" => run'.time = run.time /\ pc # "process",
         pc' \in {"cpu", "preprocess"} => pc' = pc,
         events.work_pending /\ ~RoundOn => events'.work_pending,
         run'.place = "queue" => /\ run'.at.time < run'.time + events.nr_ticks_to_process
                                 /\ style.slip \/ run'.at.time >= run'.time,
         style.n = 1 /\ run'.what = "step" => seen.insns = 1
  PROVE  Rounds' /\ InTime' /\ Counted'
<1>0. Whole(events) /\ Now \in Nat /\ \A x \in ToSet(events.queue) : x.time \in Nat
  BY FieldTypes DEF ListsInv, Types, Now
<1>1. /\ Now' = Now /\ events'.nr_ticks_to_process = events.nr_ticks_to_process
      /\ \A x \in ToSet(events'.queue) : x.time \in Nat /\ (x \in ToSet(events.queue) \/ (x.time >= Now /\ x.what # "step"))
  BY FieldTypes DEF Edited
<1>2. Rounds'
  <2>1. Processing' /\ pc' # "process" => run'.time = Now'
    BY <1>1 DEF QueueInv, Rounds
  <2> QED BY <1>1, <2>1 DEF QueueInv, Rounds
<1>3. InTime'
  <2>1. Overdue' => Overdue
    BY <1>0, <1>1 DEF Overdue
  <2> QED BY <1>1, <2>1 DEF QueueInv, InTime
<1>4. Counted'
  <2>1. \A x \in ToSet(events'.queue) : x.what = "step" => x \in ToSet(events.queue)
    BY <1>1
  <2>2. style.n = 1 => \A x \in ToSet(events'.queue) : x.what = "step" =>
            /\ pc' = "preprocess" => seen.insns = 0 /\ x.time = Now + 1
            /\ pc' = "cpu" => seen.insns = 0 /\ x.time <= Now
            /\ Processing' => \/ seen.insns = 0 /\ x.time = Now + 1 /\ events.nr_ticks_to_process = 1
                              \/ seen.insns = 1 /\ x.time < Now + events.nr_ticks_to_process
    BY <2>1 DEF QueueInv, Counted
  <2>3. /\ ~seen.step => seen.insns = 0
        /\ style.n = 1 => seen.insns <= 1
    BY DEF QueueInv, Counted
  <2> QED BY <1>1, <2>2, <2>3 DEF Counted
<1> QED BY <1>2, <1>3, <1>4

\* An event is added: what is in the lists is kept.
LEMMA AddsKept ==
  ASSUME ListsInv, QueueInv, NEW id, NEW what \in Kinds, NEW delta \in Nat, Adds(events, events', id, what, delta),
         what # "step", what = "poll" <=> run.what = "poll", run'.what # "poll", run'.what # "step",
         pc' # "handler", pc = "handler" => run.what = what,
         \A h \in Timers : h # what => hw'[h] = hw[h],
         what \in Timers => hw'[what] = id,
         \A p \in Points : p # what => points'[p] = points[p],
         what \in Points => points'[what].ev = id,
         engine.stepper # NULL => \E x \in ToSet(events.queue) : x.what = "step",
         engine'.stepper = engine.stepper, seen'.step = seen.step
  PROVE  PollKept' /\ OwnersKept' /\ StepperKept'
<1> DEFINE new == [ev |-> id, what |-> what, time |-> Now + delta]
<1>1. ToSet(events'.queue) = ToSet(events.queue) \cup {new} /\ Listed' = Listed \cup {new}
  BY DEF Adds, Now, Listed
<1>2. new.ev = id /\ new.what = what
  OBVIOUS
<1> HIDE DEF new
<1>3. PollKept'
  <2>1. CASE what = "poll"
    <3>1. \A x \in ToSet(events.queue) : x.what # "poll"
      BY <2>1 DEF QueueInv, PollKept
    <3> QED BY <1>1, <1>2, <2>1, <3>1 DEF PollKept
  <2>2. CASE what # "poll"
    <3>1. /\ \E x \in ToSet(events.queue) : x.what = "poll"
          /\ \A x, y \in ToSet(events.queue) : x.what = "poll" /\ y.what = "poll" => x = y
      BY <2>2 DEF QueueInv, PollKept
    <3> QED BY <1>1, <1>2, <2>2, <3>1 DEF PollKept
  <2> QED BY <2>1, <2>2
<1>4. OwnersKept'
  <2>1. ASSUME NEW h \in Timers, hw'[h] # NULL PROVE \E x \in ToSet(events'.queue) : x.what = h /\ x.ev = hw'[h]
    <3>1. CASE h = what
      BY <1>1, <1>2, <3>1
    <3>2. CASE h # what
      BY <1>1, <2>1, <3>2 DEF QueueInv, OwnersKept
    <3> QED BY <3>1, <3>2
  <2>2. ASSUME NEW p \in Points, points'[p].ev # NULL PROVE \E x \in Listed' : x.what = p /\ x.ev = points'[p].ev
    <3>1. CASE p = what
      BY <1>1, <1>2, <3>1
    <3>2. CASE p # what
      BY <1>1, <2>2, <3>2 DEF QueueInv, OwnersKept
    <3> QED BY <3>1, <3>2
  <2> QED BY <2>1, <2>2 DEF OwnersKept
<1>5. StepperKept'
  BY <1>1, <1>2 DEF QueueInv, StepperKept
<1> QED BY <1>3, <1>4, <1>5

\* A watchpoint is added: what is in the lists is kept.
LEMMA WatchesKept ==
  ASSUME ListsInv, QueueInv, NEW id, NEW what \in Points, Watches(events, events', id, what),
         run.what # "poll", run'.what # "poll", run'.what # "step",
         pc' # "handler", pc = "handler" => run.what = what, hw' = hw,
         \A p \in Points : p # what => points'[p] = points[p],
         points'[what].ev = id,
         engine.stepper # NULL => \E x \in ToSet(events.queue) : x.what = "step",
         engine'.stepper = engine.stepper, seen'.step = seen.step
  PROVE  PollKept' /\ OwnersKept' /\ StepperKept'
<1> DEFINE new == [ev |-> id, what |-> what]
<1>1. events'.queue = events.queue /\ Listed' = Listed \cup {new}
  BY DEF Watches, Listed
<1>2. new.ev = id /\ new.what = what /\ what \notin Timers
  BY KindsApart
<1> HIDE DEF new
<1>3. PollKept'
  BY <1>1 DEF QueueInv, PollKept
<1>4. OwnersKept'
  <2>1. ASSUME NEW h \in Timers, hw'[h] # NULL PROVE \E x \in ToSet(events'.queue) : x.what = h /\ x.ev = hw'[h]
    BY <1>1, <1>2, <2>1 DEF QueueInv, OwnersKept
  <2>2. ASSUME NEW p \in Points, points'[p].ev # NULL PROVE \E x \in Listed' : x.what = p /\ x.ev = points'[p].ev
    <3>1. CASE p = what
      BY <1>1, <1>2, <3>1
    <3>2. CASE p # what
      BY <1>1, <2>2, <3>2 DEF QueueInv, OwnersKept
    <3> QED BY <3>1, <3>2
  <2> QED BY <2>1, <2>2 DEF OwnersKept
<1>5. StepperKept'
  BY <1>1 DEF QueueInv, StepperKept
<1> QED BY <1>3, <1>4, <1>5

\* The event of w is taken out, for its handler or because its owner says so: what else is in
\* the lists is kept.
LEMMA DeschedulesKept ==
  ASSUME ListsInv, QueueInv, NEW id, NEW w, Descheduled(events, events', id),
         \A x \in Listed : x.ev = id => x.what = w,
         w \in {"poll", "step"} => \E x \in ToSet(events.queue) : x.ev = id,
         run.what \notin {"poll", "step"}, pc # "handler",
         run'.what = "poll" <=> w = "poll", run'.what = "step" <=> w = "step",
         pc = "halted" => pc' = "halted",
         \A h \in Timers \ {w} : hw'[h] = hw[h],
         w \in Timers => hw'[w] = NULL \/ (pc' = "handler" /\ run'.what = w),
         \A p \in Points \ {w} : points'[p] = points[p],
         pc' = "handler" => run'.what = w,
         w \in Points => \/ points'[w].ev = NULL
                         \/ pc' = "handler" /\ points'[w].ev = id,
         engine'.stepper = engine.stepper, seen'.step = seen.step
  PROVE  PollKept' /\ OwnersKept' /\ StepperKept'
<1>1. ToSet(events'.queue) = {x \in ToSet(events.queue) : x.ev # id} /\ Listed' = {x \in Listed : x.ev # id}
  BY DEF Descheduled, Listed
<1>2. ToSet(events.queue) \subseteq Listed
  BY DEF Listed
<1>3. /\ \E x \in ToSet(events.queue) : x.what = "poll"
      /\ \A x, y \in ToSet(events.queue) : x.what = "poll" /\ y.what = "poll" => x = y
  BY DEF QueueInv, PollKept
<1>4. PollKept'
  <2>1. CASE w = "poll"
    <3>1. PICK x \in ToSet(events.queue) : x.ev = id /\ x.what = "poll"
      BY <1>2, <2>1
    <3>2. \A y \in ToSet(events'.queue) : y.what # "poll"
      BY <1>1, <1>3, <3>1
    <3> QED BY <2>1, <3>2 DEF PollKept
  <2>2. CASE w # "poll"
    <3>1. \A x \in ToSet(events.queue) : x.what = "poll" => x \in ToSet(events'.queue)
      BY <1>1, <1>2, <2>2
    <3> QED BY <1>1, <1>3, <2>2, <3>1 DEF PollKept
  <2> QED BY <2>1, <2>2
<1>5. OwnersKept'
  <2>1. ASSUME NEW h \in Timers, hw'[h] # NULL, ~(pc' = "handler" /\ run'.what = h)
        PROVE  \E x \in ToSet(events'.queue) : x.what = h /\ x.ev = hw'[h]
    <3>1. h # w /\ hw'[h] = hw[h]
      BY <2>1
    <3>2. PICK x \in ToSet(events.queue) : x.what = h /\ x.ev = hw[h]
      BY <2>1, <3>1 DEF QueueInv, OwnersKept
    <3> QED BY <1>1, <1>2, <3>1, <3>2
  <2>2. ASSUME NEW p \in Points, points'[p].ev # NULL
        PROVE  IF pc' = "handler" /\ run'.what = p THEN \A x \in Listed' : x.ev # points'[p].ev
                                                   ELSE \E x \in Listed' : x.what = p /\ x.ev = points'[p].ev
    <3>1. CASE p = w
      BY <1>1, <2>2, <3>1
    <3>2. CASE p # w
      <4>1. PICK x \in Listed : x.what = p /\ x.ev = points[p].ev
        BY <2>2, <3>2 DEF QueueInv, OwnersKept
      <4> QED BY <1>1, <3>2, <4>1
    <3> QED BY <3>1, <3>2
  <2> QED BY <2>1, <2>2 DEF OwnersKept
<1>6. StepperKept'
  <2>1. \A x \in ToSet(events.queue) : x.what = "step" => x.ev = engine.stepper
    BY DEF QueueInv, StepperKept
  <2>2. CASE w = "step"
    <3>1. id = engine.stepper
      BY <1>2, <2>1, <2>2
    <3> QED BY <1>1, <2>1, <2>2, <3>1 DEF QueueInv, StepperKept
  <2>3. CASE w # "step"
    <3>1. \A x \in ToSet(events.queue) : x.what = "step" => x \in ToSet(events'.queue)
      BY <1>1, <1>2, <2>3
    <3> QED BY <1>1, <2>1, <2>3, <3>1 DEF QueueInv, StepperKept
  <2> QED BY <2>2, <2>3
<1> QED BY <1>4, <1>5, <1>6

\* A signal keeps the invariant.
LEMMA SignalInv == ASSUME ListsInv, QueueInv, aborted = "no", Signal PROVE QueueInv'
<1>1. /\ Whole(events) /\ seen \in SeenType /\ seen' = [seen EXCEPT !.signals = @ + 1] /\ engine' = engine /\ pc' = pc
      /\ run' = run /\ points' = points /\ hw' = hw /\ style' = style /\ aborted' \in {aborted, "overflow"}
  BY DEF ListsInv, Types, Signal
<1>2. seen'.step = seen.step /\ seen'.insns = seen.insns
  BY <1>1 DEF SeenType
<1>3. /\ Ticks(events, events', 0) /\ events'.nr_ticks_to_process = events.nr_ticks_to_process
      /\ events' = events \/ events'.work_pending
  BY <1>1, StopEffect, Untouched DEF Signal
<1>4. /\ Now' = Now /\ events'.queue = events.queue /\ Listed' = Listed /\ events'.watchpoints = events.watchpoints
      /\ Whole(events')
  <2>1. Now \in Nat /\ Now' = Now + 0
    BY <1>1, <1>3, FieldTypes DEF Ticks, Now
  <2> QED BY <1>3, <2>1 DEF Ticks, Listed
<1>5. PollKept' /\ OwnersKept' /\ StepperKept'
  BY <1>1, <1>2, <1>4, QuietKept
<1>6. Edited /\ (RoundOn' <=> RoundOn) /\ (Processing' <=> Processing)
  BY <1>1, <1>3, <1>4 DEF Edited, RoundOn, Processing
<1>7. Rounds' /\ InTime' /\ Counted'
  <2>1. /\ run.place = "queue" => /\ run.at.time < run.time + events.nr_ticks_to_process
                                  /\ style.slip \/ run.at.time >= run.time
        /\ style.n = 1 /\ run.what = "step" => seen.insns = 1
    BY DEF QueueInv, InTime, Counted
  <2> QED BY <1>1, <1>2, <1>3, <1>6, <2>1, EditKept
<1>8. Flagged' /\ AssertsHold'
  BY <1>1, <1>3, <1>4, <1>6 DEF QueueInv, Flagged, AssertsHold
<1> QED BY <1>5, <1>7, <1>8 DEF QueueInv

\* The end of a round keeps the invariant: what is left is due later, and the assertion holds.
LEMMA FinishInv == ASSUME ListsInv, QueueInv, aborted = "no", Finish PROVE QueueInv'
<1>1. /\ Whole(events) /\ pc = "queue" /\ pc' = "cpu" /\ run' = Idle /\ engine' = engine
      /\ points' = points /\ hw' = hw /\ style' = style /\ seen' = [seen EXCEPT !.watched = {}]
      /\ seen \in SeenType /\ events.watchpoints = <<>> /\ run.what = "none"
  BY DEF Finish, ListsInv, Types, Calling, InCall
<1>2. /\ Whole(events') /\ events'.queue = events.queue /\ events'.held = events.held
      /\ events'.nr_ticks_to_process = 0
      /\ events'.watchpoints = events.watchedpoints /\ events'.watchedpoints = <<>>
      /\ events'.work_pending = (events.work_pending \/ events.watchedpoints # <<>>)
      /\ Now' = Now + events.nr_ticks_to_process
  BY <1>1, RoundEnds
<1>3. /\ events.queue # <<>> /\ Now \in Nat /\ events.nr_ticks_to_process \in Nat
      /\ \A x \in ToSet(events.queue) : x.time \in Nat
      /\ run.time = Now /\ events.nr_ticks_to_process # 0
  BY <1>1, PollQueued, FieldTypes DEF InCall, Now, QueueInv, Rounds, RoundOn, Processing
<1>4. /\ events.time_from_event = Head(events.queue).time - Now /\ Head(events.queue).time \in Nat
      /\ \A x \in ToSet(events.queue) : Head(events.queue).time <= x.time
  BY <1>1, <1>3, Distance DEF Now
<1>5. Head(events.queue).time >= Now + events.nr_ticks_to_process
  BY <1>3, <1>4 DEF Finish, InRound
<1>6. aborted' = "no"
  BY <1>3, <1>4, <1>5 DEF Finish
<1>7. \A x \in ToSet(events.queue) : x.time >= Now'
  BY <1>2, <1>3, <1>4, <1>5
<1>8. seen'.step = seen.step /\ seen'.insns = seen.insns /\ run'.what = "none" /\ run'.place = "none"
  BY <1>1 DEF SeenType, Idle
<1>9. Listed' = Listed
  <2>1. ToSet(<<>>) = {}
    BY DEF ToSet
  <2> QED BY <1>1, <1>2, <2>1 DEF Listed
<1>10. PollKept' /\ OwnersKept' /\ StepperKept'
  BY <1>1, <1>2, <1>8, <1>9, QuietKept
<1>11. Rounds'
  BY <1>1, <1>2 DEF QueueInv, Rounds, RoundOn, Processing
<1>12. InTime'
  <2>1. ~Overdue'
    BY <1>2, <1>3, <1>7 DEF Overdue
  <2> QED BY <1>8, <2>1 DEF InTime
<1>13. Flagged' /\ AssertsHold'
  BY <1>1, <1>2, <1>6 DEF QueueInv, Flagged, AssertsHold
<1>14. Counted'
  <2>1. style.n = 1 => \A x \in ToSet(events.queue) : x.what = "step" => seen.insns = 0 /\ x.time <= Now'
    <3> SUFFICES ASSUME style.n = 1, NEW x \in ToSet(events.queue), x.what = "step"
                 PROVE  seen.insns = 0 /\ x.time <= Now'
      OBVIOUS
    <3>1. \/ seen.insns = 0 /\ x.time = Now + 1 /\ events.nr_ticks_to_process = 1
          \/ seen.insns = 1 /\ x.time < Now + events.nr_ticks_to_process
      BY <1>1 DEF QueueInv, Counted, Processing
    <3>2. ~(x.time < Now + events.nr_ticks_to_process)
      BY <1>2, <1>3, <1>7
    <3> QED BY <1>2, <1>3, <3>1, <3>2
  <2>2. /\ ~seen.step => seen.insns = 0
        /\ style.n = 1 => seen.insns <= 1
    BY DEF QueueInv, Counted
  <2> QED BY <1>1, <1>2, <1>8, <2>1, <2>2 DEF Counted, Processing
<1> QED BY <1>10, <1>11, <1>12, <1>13, <1>14 DEF QueueInv

\* A halt from a handler, or its return, keeps what does not depend on the lists.
LEMMA LeaveFacts ==
  ASSUME ListsInv, InCall, sim_engine_halt("events") \/ (pc' = run.place /\ run' = NoHandler /\ engine' = engine)
  PROVE  /\ run'.what = "none" /\ run'.place = "none" /\ engine'.stepper = engine.stepper
         /\ RoundOn /\ RoundOn' /\ Processing /\ pc' \in {"halted", "watch", "queue"}
         /\ pc' \in {"watch", "queue"} => run'.time = run.time
<1>1. /\ run \in [time : Nat, place : {"watch", "queue", "none"}, what : Kinds \cup {"none"},
                  at : [ev : Nat, time : Nat]]
      /\ engine \in [stepper : {NULL} \cup Structs, last : {"events", "cpu"}] /\ run.place # "none"
  BY DEF ListsInv, Types, Calling
<1>2. Processing /\ RoundOn
  BY DEF InCall, Processing, RoundOn
<1>3. CASE sim_engine_halt("events")
  <2>1. engine' = [engine EXCEPT !.last = "events"] /\ pc' = "halted" /\ run' = Idle
    BY <1>3 DEF sim_engine_halt
  <2>2. engine'.last = "events" /\ engine'.stepper = engine.stepper
    BY <1>1, <2>1
  <2> QED BY <1>1, <1>2, <2>1, <2>2, IdleRun DEF RoundOn
<1>4. CASE pc' = run.place /\ run' = NoHandler /\ engine' = engine
  BY <1>1, <1>2, <1>4, IdleRun DEF RoundOn, Processing
<1> QED BY <1>3, <1>4

\* has_stepped and control_c_simulation keep the invariant.
LEMMA StopInv == ASSUME ListsInv, QueueInv, aborted = "no", Stop PROVE QueueInv'
<1>1. /\ Whole(events) /\ pc = "handler" /\ run.what \in {"step", "stop"} /\ pc' = "halted" /\ InCall
      /\ sim_engine_halt("events") /\ events' = events /\ points' = points /\ hw' = hw /\ style' = style
      /\ seen' = seen /\ aborted' = aborted
  BY DEF Stop, sim_engine_halt, InCall, ListsInv, Types
<1>2. /\ run'.what = "none" /\ run'.place = "none" /\ engine'.stepper = engine.stepper /\ RoundOn /\ RoundOn'
  BY <1>1, LeaveFacts
<1>3. Listed' = Listed /\ Edited
  BY <1>1 DEF Listed, Edited, Now
<1>4. ~Processing'
  BY <1>1 DEF Processing
<1>5. Rounds' /\ InTime' /\ Counted'
  BY <1>1, <1>2, <1>3, <1>4, EditKept
<1>6. PollKept'
  BY <1>1, <1>2 DEF QueueInv, PollKept
<1>7. OwnersKept'
  <2>1. run.what \notin Points /\ run.what \notin Timers
    BY <1>1, KindsApart
  <2> QED BY <1>1, <1>3, <2>1 DEF QueueInv, OwnersKept
<1>8. StepperKept'
  BY <1>1, <1>2, <1>3 DEF QueueInv, StepperKept
<1>9. Flagged' /\ AssertsHold'
  BY <1>1, <1>2 DEF QueueInv, Flagged, AssertsHold
<1> QED BY <1>5, <1>6, <1>7, <1>8, <1>9 DEF QueueInv

\* The end of a callback keeps the invariant.
LEMMA CallbackInv == ASSUME ListsInv, QueueInv, aborted = "no", CallbackEnds PROVE QueueInv'
<1>1. /\ Whole(events) /\ pc = "callback" /\ InCall /\ run.what \in Timers
      /\ sim_engine_halt("events") \/ (pc' = run.place /\ run' = NoHandler /\ engine' = engine)
      /\ events' = events /\ points' = points /\ hw' = hw /\ style' = style
      /\ seen' = seen /\ aborted' = aborted
  BY DEF CallbackEnds, HandlerReturns, InCall, ListsInv, Types, Calling
<1>2. /\ run'.what = "none" /\ run'.place = "none" /\ engine'.stepper = engine.stepper
      /\ RoundOn /\ RoundOn' /\ Processing /\ pc' \in {"halted", "watch", "queue"}
      /\ pc' \in {"watch", "queue"} => run'.time = run.time
  BY <1>1, LeaveFacts
<1>3. Listed' = Listed /\ Edited
  BY <1>1 DEF Listed, Edited, Now
<1>4. run.what \notin {"poll", "step"}
  BY <1>1, KindsApart
<1>5. Rounds' /\ InTime' /\ Counted'
  <2>1. Processing' => run'.time = run.time
    BY <1>2 DEF Processing
  <2> QED BY <1>1, <1>2, <1>3, <2>1, EditKept
<1>6. PollKept'
  BY <1>1, <1>2, <1>4 DEF QueueInv, PollKept
<1>7. OwnersKept'
  BY <1>1, <1>2, <1>3 DEF QueueInv, OwnersKept
<1>8. StepperKept'
  BY <1>1, <1>2, <1>3, <1>4 DEF QueueInv, StepperKept
<1>9. Flagged' /\ AssertsHold'
  BY <1>1, <1>2 DEF QueueInv, Flagged, AssertsHold
<1> QED BY <1>5, <1>6, <1>7, <1>8, <1>9 DEF QueueInv

\* bounce_hw_event keeps the invariant.
LEMMA BounceInv == ASSUME ListsInv, QueueInv, aborted = "no", bounce_hw_event PROVE QueueInv'
<1>1. /\ Whole(events) /\ pc = "handler" /\ pc' = "callback" /\ run.what \in Timers
      /\ hw' = [hw EXCEPT ![run.what] = NULL] /\ events' = events /\ run' = run /\ engine' = engine
      /\ points' = points /\ style' = style /\ seen' = seen /\ aborted' = aborted
      /\ hw \in [Timers -> {NULL} \cup Structs]
  BY DEF bounce_hw_event, ListsInv, Types
<1>2. Listed' = Listed /\ Edited /\ RoundOn /\ RoundOn' /\ Processing /\ Processing'
  BY <1>1 DEF Listed, Edited, Now, RoundOn, Processing
<1>3. run.what \notin {"poll", "step"} /\ run.what \notin Points
  BY <1>1, KindsApart
<1>4. Rounds' /\ InTime' /\ Counted'
  <2>1. run.place = "queue" => /\ run.at.time < run.time + events.nr_ticks_to_process
                               /\ style.slip \/ run.at.time >= run.time
    BY DEF QueueInv, InTime
  <2> QED BY <1>1, <1>2, <1>3, <2>1, EditKept
<1>5. PollKept' /\ StepperKept'
  BY <1>1, <1>2, <1>3 DEF QueueInv, PollKept, StepperKept
<1>6. OwnersKept'
  <2>1. \A h \in Timers : hw'[h] # NULL => h # run.what /\ hw'[h] = hw[h]
    BY <1>1
  <2> QED BY <1>1, <1>2, <1>3, <2>1 DEF QueueInv, OwnersKept
<1>7. Flagged' /\ AssertsHold'
  BY <1>1, <1>2 DEF QueueInv, Flagged, AssertsHold
<1> QED BY <1>4, <1>5, <1>6, <1>7 DEF QueueInv

\* Unless it fired, the stepper is in the queue.
LEMMA StepperQueued ==
  ASSUME QueueInv, engine.stepper # NULL, pc # "halted", run.what # "step"
  PROVE  \E x \in ToSet(events.queue) : x.what = "step"
BY DEF QueueInv, StepperKept

\* sim_events_poll keeps the invariant.
LEMMA PollInv == ASSUME ListsInv, QueueInv, aborted = "no", Poll PROVE QueueInv'
<1> DEFINE id == zalloc_id(events)
<1>1. /\ Adds(events, events', id, "poll", POLL_RATE)
      /\ \/ events'.held = events.held /\ events'.work_pending = events.work_pending
         \/ events'.work_pending
      /\ pc = "handler" /\ run.what = "poll" /\ pc' = run.place /\ run' = NoHandler /\ engine' = engine
      /\ points' = points /\ hw' = hw /\ style' = style /\ aborted' \in {aborted, "overflow"}
      /\ seen' \in {seen, [seen EXCEPT !.signals = @ + 1]}
  BY PollEffect
<1> HIDE DEF id
<1>2. "poll" \notin Points /\ "poll" \notin Timers /\ "poll" \in Kinds /\ POLL_RATE \in Nat /\ Whole(events)
  BY KindsApart, SimAssumption DEF ListsInv, Types
<1>3. seen'.step = seen.step /\ seen'.insns = seen.insns
  BY <1>1 DEF ListsInv, Types, SeenType
<1>4. /\ run'.what = "none" /\ run'.place = "none" /\ RoundOn /\ RoundOn' /\ Processing
      /\ pc' \in {"halted", "watch", "queue"}
      /\ pc' \in {"watch", "queue"} => run'.time = run.time
  BY <1>1, LeaveFacts DEF InCall
<1>5. Edited
  BY <1>1, <1>2, EditsQueue
<1>6. Rounds' /\ InTime' /\ Counted'
  <2>1. Processing' => run'.time = run.time
    BY <1>4 DEF Processing
  <2> QED BY <1>1, <1>3, <1>4, <1>5, <2>1, EditKept
<1>7. PollKept' /\ OwnersKept' /\ StepperKept'
  <2>1. engine.stepper # NULL => \E x \in ToSet(events.queue) : x.what = "step"
    BY <1>1, StepperQueued
  <2> QED BY <1>1, <1>2, <1>3, <1>4, <2>1, AddsKept
<1>8. Flagged' /\ AssertsHold'
  BY <1>1, <1>4 DEF QueueInv, Flagged, AssertsHold
<1> QED BY <1>6, <1>7, <1>8 DEF QueueInv

\* A held event that is moved keeps the invariant.
LEMMA MoveHeldInv == ASSUME ListsInv, QueueInv, aborted = "no", MoveHeld PROVE QueueInv'
<1>1. CASE events.held = <<>>
  BY <1>1, LoopEndInv
<1>2. CASE events.held # <<>>
  <2> DEFINE id == zalloc_id(events)
  <2>1. /\ pc \in {"held", "moving"} /\ engine' = engine /\ run' = run /\ points' = points /\ hw' = hw
        /\ style' = style /\ seen' = seen /\ aborted' = aborted /\ run.what = "none" /\ run.place = "none"
    BY DEF MoveHeld, ListsInv, Calling, InCall
  <2>2. /\ Adds(events, events', id, "stop", 0) /\ events'.held = Tail(events.held)
        /\ events'.work_pending = events.work_pending /\ pc' = "moving"
    BY <1>2, MoveEffect
  <2> HIDE DEF id
  <2>3. "stop" \notin Points /\ "stop" \notin Timers /\ "stop" \in Kinds /\ 0 \in Nat /\ Whole(events)
    BY KindsApart DEF ListsInv, Types
  <2>4. Edited
    BY <2>2, <2>3, EditsQueue
  <2>5. RoundOn /\ RoundOn' /\ Processing /\ Processing'
    BY <2>1, <2>2 DEF RoundOn, Processing
  <2>6. Rounds' /\ InTime' /\ Counted'
    BY <2>1, <2>2, <2>4, <2>5, EditKept
  <2>7. PollKept' /\ OwnersKept' /\ StepperKept'
    <3>1. engine.stepper # NULL => \E x \in ToSet(events.queue) : x.what = "step"
      BY <2>1, StepperQueued
    <3> QED BY <2>1, <2>2, <2>3, <3>1, AddsKept
  <2>8. Flagged' /\ AssertsHold'
    BY <2>1, <2>2, <2>5 DEF QueueInv, Flagged, AssertsHold
  <2> QED BY <2>6, <2>7, <2>8 DEF QueueInv
<1> QED BY <1>1, <1>2

\* An event of the round is taken: it is on time, and if it is the stepper the step is over.
LEMMA QueueNextInv == ASSUME ListsInv, QueueInv, aborted = "no", QueueNext PROVE QueueInv'
<1> DEFINE x == Head(events.queue)
<1>1. /\ pc = "queue" /\ events.queue # <<>> /\ pc' = "handler"
      /\ events' = sim_events_free(update_time_from_event([events EXCEPT !.queue = Tail(@)]), x.ev)
      /\ run' = [run EXCEPT !.place = "queue", !.what = x.what, !.at = [ev |-> x.ev, time |-> x.time]]
      /\ engine' = engine /\ points' = points /\ hw' = hw /\ aborted' = aborted /\ style' = style /\ seen' = seen
      /\ InRound(x) /\ run.what = "none"
  BY DEF QueueNext, ListsInv, Calling, InCall
<1>2. Whole(events)
  BY DEF ListsInv, Types
<1>3. Descheduled(events, events', x.ev) /\ x \in ToSet(events.queue) /\ x \in Timed
  BY <1>1, <1>2, QueueTakes
<1> HIDE DEF x
<1>4. /\ run'.what = x.what /\ run'.place = "queue" /\ run'.at.time = x.time /\ run'.time = run.time
  BY <1>1 DEF ListsInv, Types
<1>5. /\ run.time = Now /\ Now \in Nat /\ x.time \in Nat /\ events.nr_ticks_to_process \in Nat
      /\ RoundOn /\ RoundOn' /\ Processing /\ Processing'
  BY <1>1, <1>2, <1>3, FieldTypes DEF QueueInv, Rounds, RoundOn, Processing, Now
<1>6. /\ x.time < Now + events.nr_ticks_to_process
      /\ style.slip \/ x.time >= Now
  BY <1>1, <1>3, <1>5 DEF InRound, QueueInv, InTime, Overdue
<1>7. Edited
  BY <1>2, <1>3, EditsQueue
<1>8. style.n = 1 /\ x.what = "step" => seen.insns = 1
  BY <1>3, <1>5, <1>6 DEF QueueInv, Counted
<1>9. Rounds' /\ InTime' /\ Counted'
  BY <1>1, <1>3, <1>4, <1>5, <1>6, <1>7, <1>8, EditKept
<1>10. PollKept' /\ OwnersKept' /\ StepperKept'
  <2>1. \A y \in Listed : y.ev = x.ev => y.what = x.what
    BY <1>2, <1>3, UniqueIds DEF Listed
  <2>2. x.what \in Points => points[x.what].ev = x.ev
    BY <1>3 DEF ListsInv, Owned
  <2>3. /\ \E y \in ToSet(events.queue) : y.ev = x.ev
        /\ run.what \notin {"poll", "step"} /\ pc # "handler" /\ pc # "halted" /\ pc' = "handler"
    BY <1>1, <1>3
  <2>4. /\ \A h \in Timers \ {x.what} : hw'[h] = hw[h]
        /\ \A p \in Points \ {x.what} : points'[p] = points[p]
        /\ x.what \in Points => points'[x.what].ev = x.ev
        /\ engine'.stepper = engine.stepper /\ seen'.step = seen.step
    BY <1>1, <2>2
  <2> QED BY <1>3, <1>4, <2>1, <2>3, <2>4, DeschedulesKept
<1>11. Flagged' /\ AssertsHold'
  <2>1. events'.held = events.held /\ events'.work_pending = events.work_pending
    BY <1>3 DEF Descheduled, SameRest
  <2> QED BY <1>1, <1>5, <2>1 DEF QueueInv, Flagged, AssertsHold
<1> QED BY <1>9, <1>10, <1>11 DEF QueueInv

\* A watchpoint that is looked at keeps the invariant.
LEMMA WatchNextInv == ASSUME ListsInv, QueueInv, aborted = "no", WatchNext PROVE QueueInv'
<1> DEFINE x == Head(events.watchpoints)
<1>1. /\ x \in ToSet(events.watchpoints) /\ x.what \in Points /\ pc = "watch"
      /\ \/ /\ Descheduled(events, events', x.ev) /\ pc' = "handler"
            /\ run' = [run EXCEPT !.place = "watch", !.what = x.what]
            /\ seen' = [seen EXCEPT !.again = @ \/ x.what \in seen.watched, !.watched = @ \cup {x.what}]
         \/ /\ Whole(events') /\ SameRest(events, events') /\ events'.work_pending = events.work_pending
            /\ events'.structs = events.structs /\ events'.queue = events.queue
            /\ Listed' = Listed /\ pc' = pc /\ run' = run /\ seen' = seen
  BY WatchNextEffect
<1>2. /\ engine' = engine /\ points' = points /\ hw' = hw /\ aborted' = aborted /\ style' = style
      /\ Whole(events) /\ run.what = "none" /\ run.place = "none"
      /\ run \in [time : Nat, place : {"watch", "queue", "none"}, what : Kinds \cup {"none"},
                  at : [ev : Nat, time : Nat]]
      /\ seen \in SeenType
  BY <1>1 DEF WatchNext, ListsInv, Types, Calling, InCall
<1> HIDE DEF x
<1>3. /\ x.what \notin {"poll", "step"} /\ x.what \notin Timers /\ RoundOn /\ Processing /\ RoundOn' /\ Processing'
  BY <1>1, KindsApart DEF RoundOn, Processing
<1>4. CASE /\ Descheduled(events, events', x.ev) /\ pc' = "handler"
           /\ run' = [run EXCEPT !.place = "watch", !.what = x.what]
           /\ seen' = [seen EXCEPT !.again = @ \/ x.what \in seen.watched, !.watched = @ \cup {x.what}]
  <2>1. Edited /\ events'.held = events.held /\ events'.work_pending = events.work_pending
    BY <1>2, <1>4, EditsQueue DEF Descheduled, SameRest
  <2>2. run'.what = x.what /\ run'.place = "watch" /\ run'.time = run.time
    BY <1>2, <1>4
  <2>3. seen'.step = seen.step /\ seen'.insns = seen.insns
    BY <1>2, <1>4 DEF SeenType
  <2>4. Rounds' /\ InTime' /\ Counted'
    BY <1>1, <1>2, <1>3, <1>4, <2>1, <2>2, <2>3, EditKept
  <2>5. PollKept' /\ OwnersKept' /\ StepperKept'
    <3>1. \A y \in Listed : y.ev = x.ev => y.what = x.what
      BY <1>1, <1>2, UniqueIds DEF Listed
    <3>2. points[x.what].ev = x.ev
      BY <1>1 DEF ListsInv, Owned
    <3> QED BY <1>1, <1>2, <1>3, <1>4, <2>2, <2>3, <3>1, <3>2, DeschedulesKept
  <2>6. Flagged' /\ AssertsHold'
    BY <1>1, <1>2, <1>3, <2>1 DEF QueueInv, Flagged, AssertsHold
  <2> QED BY <2>4, <2>5, <2>6 DEF QueueInv
<1>5. CASE /\ Whole(events') /\ SameRest(events, events') /\ events'.work_pending = events.work_pending
           /\ events'.structs = events.structs /\ events'.queue = events.queue
           /\ Listed' = Listed /\ pc' = pc /\ run' = run /\ seen' = seen
  <2>1. Edited /\ events'.held = events.held
    BY <1>5 DEF Edited, SameRest, Now
  <2>2. Rounds' /\ InTime' /\ Counted'
    BY <1>1, <1>2, <1>3, <1>5, <2>1, EditKept
  <2>3. PollKept' /\ OwnersKept' /\ StepperKept'
    BY <1>2, <1>5, QuietKept
  <2>4. Flagged' /\ AssertsHold'
    BY <1>1, <1>2, <1>3, <1>5, <2>1 DEF QueueInv, Flagged, AssertsHold
  <2> QED BY <2>2, <2>3, <2>4 DEF QueueInv
<1> QED BY <1>1, <1>4, <1>5

\* hw_event_queue_schedule keeps the invariant.
LEMMA HwScheduleInv ==
  ASSUME ListsInv, QueueInv, aborted = "no", StaleCalls = FALSE,
         NEW h \in Timers, NEW delta \in Deltas, hw_event_queue_schedule(h, delta)
  PROVE  QueueInv'
<1> DEFINE id == zalloc_id(events)
<1>1. /\ hw[h] = NULL /\ events' = sim_events_schedule(events, delta, h) /\ hw' = [hw EXCEPT ![h] = id]
      /\ engine' = engine /\ pc' = pc /\ run' = run /\ points' = points /\ aborted' = aborted /\ style' = style
      /\ pc \in {"cpu", "callback", "halted"} /\ Call(h)
      /\ pc = "halted" => engine.stepper = NULL
  BY DEF hw_event_queue_schedule, DeviceMayCall, UserMayCall
<1>2. delta \in Nat /\ h \in Kinds /\ h \notin Points /\ h \notin {"poll", "step"} /\ Whole(events)
      /\ hw \in [Timers -> {NULL} \cup Structs]
  BY SimAssumption, KindsApart DEF ListsInv, Types
<1>3. Adds(events, events', id, h, delta) /\ events'.held = events.held /\ events'.watchpoints = events.watchpoints
      /\ events'.work_pending = events.work_pending
  BY <1>1, <1>2, Schedules DEF Scheduled, Adds
<1> HIDE DEF id
<1>4. seen'.step = seen.step /\ seen'.insns = seen.insns
  BY <1>1, CallSeen
<1>5. run.what \notin {"poll", "step"}
  BY <1>1, KindsApart DEF ListsInv, Calling, InCall
<1>6. Edited /\ (RoundOn' <=> RoundOn) /\ (Processing' <=> Processing)
  BY <1>1, <1>2, <1>3, EditsQueue DEF RoundOn, Processing
<1>7. Rounds' /\ InTime' /\ Counted'
  <2>1. run.place = "queue" => /\ run.at.time < run.time + events.nr_ticks_to_process
                               /\ style.slip \/ run.at.time >= run.time
    BY DEF QueueInv, InTime
  <2> QED BY <1>1, <1>3, <1>4, <1>5, <1>6, <2>1, EditKept
<1>8. PollKept' /\ OwnersKept' /\ StepperKept'
  <2>1. engine.stepper # NULL => \E x \in ToSet(events.queue) : x.what = "step"
    BY <1>1, <1>5, StepperQueued
  <2>2. \A g \in Timers : (g # h => hw'[g] = hw[g]) /\ (g = h => hw'[g] = id)
    BY <1>1, <1>2
  <2> QED BY <1>1, <1>2, <1>3, <1>4, <1>5, <2>1, <2>2, AddsKept
<1>9. Flagged' /\ AssertsHold'
  BY <1>1, <1>3, <1>6 DEF QueueInv, Flagged, AssertsHold
<1> QED BY <1>7, <1>8, <1>9 DEF QueueInv

\* The SIM_ASSERT of sim_events_deschedule holds on a processor that does not slip.
LEMMA DescheduleSafe ==
  ASSUME ListsInv, QueueInv, NEW id, ~DescheduleAsserts(events, id)
  PROVE  style.slip
<1>1. Whole(events) /\ Now \in Nat /\ \A x \in ToSet(events.queue) : x.time \in Nat
  BY FieldTypes DEF ListsInv, Types, Now
<1>2. Overdue
  BY <1>1, Deschedules DEF Overdue, Now
<1> QED BY <1>2 DEF QueueInv, InTime

\* The event that an owner points to is its own.
LEMMA OwnEvent ==
  ASSUME ListsInv, QueueInv
  PROVE  /\ \A h \in Timers : hw[h] # NULL /\ pc # "handler" => \A x \in Listed : x.ev = hw[h] => x.what = h
         /\ \A p \in Points : points[p].ev # NULL /\ pc # "handler" => \A x \in Listed : x.ev = points[p].ev => x.what = p
<1>1. Whole(events)
  BY DEF ListsInv, Types
<1>2. \A x, y \in Listed : x.ev = y.ev => x = y
  BY <1>1, UniqueIds DEF Listed
<1>3. ToSet(events.queue) \subseteq Listed
  BY DEF Listed
<1> QED BY <1>2, <1>3 DEF QueueInv, OwnersKept

\* hw_event_queue_deschedule keeps the invariant.
LEMMA HwDescheduleInv ==
  ASSUME ListsInv, QueueInv, aborted = "no", NEW h \in Timers, hw_event_queue_deschedule(h)
  PROVE  QueueInv'
<1>1. /\ hw[h] # NULL /\ events' = sim_events_deschedule(events, hw[h]) /\ hw' = [hw EXCEPT ![h] = NULL]
      /\ engine' = engine /\ pc' = pc /\ run' = run /\ points' = points
      /\ aborted' = IF DescheduleAsserts(events, hw[h]) THEN "no" ELSE "assert"
      /\ style' = style /\ pc \in {"cpu", "callback", "halted"} /\ Call(h)
  BY DEF hw_event_queue_deschedule, DeviceMayCall, UserMayCall
<1>2. h \notin Points /\ h \notin {"poll", "step"} /\ Whole(events) /\ hw \in [Timers -> {NULL} \cup Structs]
  BY KindsApart DEF ListsInv, Types
<1>3. Descheduled(events, events', hw[h])
  BY <1>1, <1>2, Deschedules
<1>4. seen'.step = seen.step /\ seen'.insns = seen.insns
  BY <1>1, CallSeen
<1>5. run.what \notin {"poll", "step"}
  BY <1>1, KindsApart DEF ListsInv, Calling, InCall
<1>6. Edited /\ (RoundOn' <=> RoundOn) /\ (Processing' <=> Processing)
  BY <1>1, <1>2, <1>3, EditsQueue DEF RoundOn, Processing
<1>7. events'.held = events.held /\ events'.work_pending = events.work_pending
      /\ (events.watchpoints = <<>> => events'.watchpoints = <<>>)
  <2>1. \A g \in Timers : hw'[g] = hw[g] \/ hw[g] = hw[h]
    BY <1>1, <1>2
  <2> QED BY <1>1, <1>3, <2>1, DeschedulesOwned DEF Descheduled, SameRest
<1>8. Rounds' /\ InTime' /\ Counted'
  <2>1. run.place = "queue" => /\ run.at.time < run.time + events.nr_ticks_to_process
                               /\ style.slip \/ run.at.time >= run.time
    BY DEF QueueInv, InTime
  <2> QED BY <1>1, <1>4, <1>5, <1>6, <1>7, <2>1, EditKept
<1>9. PollKept' /\ OwnersKept' /\ StepperKept'
  <2>1. \A x \in Listed : x.ev = hw[h] => x.what = h
    BY <1>1, OwnEvent
  <2>2. hw'[h] = NULL /\ \A g \in Timers \ {h} : hw'[g] = hw[g]
    BY <1>1, <1>2
  <2> QED BY <1>1, <1>2, <1>3, <1>4, <1>5, <2>1, <2>2, DeschedulesKept
<1>10. Flagged' /\ AssertsHold'
  BY <1>1, <1>6, <1>7, DescheduleSafe DEF QueueInv, Flagged, AssertsHold
<1> QED BY <1>8, <1>9, <1>10 DEF QueueInv

\* do_watchpoint_create keeps the invariant.
LEMMA CreateInv ==
  ASSUME ListsInv, QueueInv, aborted = "no", StaleCalls = FALSE,
         NEW p \in Points, NEW type \in PointTypes, NEW periodic \in BOOLEAN,
         NEW arg \in {0} \cup Args, do_watchpoint_create(p, type, periodic, arg)
  PROVE  QueueInv'
<1> DEFINE id == zalloc_id(events)
           point == [ev |-> id, type |-> type, periodic |-> periodic, arg0 |-> arg]
<1>1. /\ points[p].ev = NULL /\ points' = [points EXCEPT ![p] = point]
      /\ events' = schedule_watchpoint(events, p, point) /\ engine.stepper = NULL
      /\ engine' = engine /\ pc' = pc /\ run' = run /\ hw' = hw /\ aborted' = aborted /\ style' = style
      /\ pc = "halted" /\ Call(p)
  BY DEF do_watchpoint_create, UserMayCall
<1>2. /\ point.ev = id /\ point.type = type /\ point.arg0 = arg /\ arg \in Nat
  BY SimAssumption
<1>3. \/ Scheduled(events, events', id, p, arg)
      \/ Watches(events, events', id, p)
  <2> HIDE DEF point
  <2> QED BY <1>1, <1>2, PointScheduled
<1>4. p \in Kinds /\ p \notin Timers /\ p \notin {"poll", "step"} /\ Whole(events) /\ run.what = "none" /\ run.place = "none"
  BY <1>1, KindsApart DEF ListsInv, Types, Calling, InCall
<1>5. points'[p].ev = id /\ \A q \in Points : q # p => points'[q] = points[q]
  BY <1>1, <1>2 DEF ListsInv, Types
<1> HIDE DEF id, point
<1>6. seen'.step = seen.step /\ seen'.insns = seen.insns
  BY <1>1, CallSeen
<1>7. Edited /\ (RoundOn' <=> RoundOn) /\ (Processing' <=> Processing)
  BY <1>1, <1>2, <1>3, <1>4, EditsQueue DEF RoundOn, Processing, Scheduled
<1>8. /\ events'.held = events.held /\ (events.work_pending => events'.work_pending)
      /\ events'.watchpoints = events.watchpoints \/ events'.work_pending
  BY <1>3 DEF Scheduled, Adds, Watches, SameRest
<1>9. Rounds' /\ InTime' /\ Counted'
  BY <1>1, <1>4, <1>6, <1>7, <1>8, EditKept
<1>10. PollKept' /\ OwnersKept' /\ StepperKept'
  <2>1. CASE Adds(events, events', id, p, arg)
    BY <1>1, <1>2, <1>4, <1>5, <1>6, <2>1, AddsKept
  <2>2. CASE Watches(events, events', id, p)
    BY <1>1, <1>4, <1>5, <1>6, <2>2, WatchesKept
  <2> QED BY <1>3, <2>1, <2>2 DEF Scheduled
<1>11. Flagged' /\ AssertsHold'
  BY <1>1, <1>7, <1>8 DEF QueueInv, Flagged, AssertsHold
<1> QED BY <1>9, <1>10, <1>11 DEF QueueInv

\* do_watchpoint_delete keeps the invariant.
LEMMA DeleteInv ==
  ASSUME ListsInv, QueueInv, aborted = "no", NEW p \in Points, do_watchpoint_delete(p)
  PROVE  QueueInv'
<1>1. /\ points[p].ev # NULL /\ events' = sim_events_deschedule(events, points[p].ev)
      /\ points' = [points EXCEPT ![p] = NoPoint]
      /\ engine' = engine /\ pc' = pc /\ run' = run /\ hw' = hw
      /\ aborted' = IF DescheduleAsserts(events, points[p].ev) THEN "no" ELSE "assert"
      /\ style' = style /\ pc = "halted" /\ Call(p)
  BY DEF do_watchpoint_delete, UserMayCall
<1>2. /\ p \notin Timers /\ p \notin {"poll", "step"} /\ Whole(events) /\ points \in [Points -> PointType]
      /\ run.what = "none" /\ run.place = "none"
  BY <1>1, KindsApart DEF ListsInv, Types, PointType, Calling, InCall
<1>3. Descheduled(events, events', points[p].ev)
  BY <1>1, <1>2, Deschedules
<1>4. seen'.step = seen.step /\ seen'.insns = seen.insns
  BY <1>1, CallSeen
<1>5. points'[p].ev = NULL /\ \A q \in Points : q # p => points'[q] = points[q]
  BY <1>1, <1>2 DEF NoPoint
<1>6. Edited /\ (RoundOn' <=> RoundOn) /\ (Processing' <=> Processing)
  BY <1>1, <1>2, <1>3, EditsQueue DEF RoundOn, Processing
<1>7. events'.held = events.held /\ events'.work_pending = events.work_pending
      /\ (events.watchpoints = <<>> => events'.watchpoints = <<>>)
  <2>1. \A q \in Points : points'[q] = points[q] \/ points[q].ev = points[p].ev
    BY <1>5
  <2> QED BY <1>1, <1>3, <2>1, DeschedulesOwned DEF Descheduled, SameRest
<1>8. Rounds' /\ InTime' /\ Counted'
  BY <1>1, <1>2, <1>4, <1>6, <1>7, EditKept
<1>9. PollKept' /\ OwnersKept' /\ StepperKept'
  <2>1. \A x \in Listed : x.ev = points[p].ev => x.what = p
    BY <1>1, OwnEvent
  <2> QED BY <1>1, <1>2, <1>3, <1>4, <1>5, <2>1, DeschedulesKept
<1>10. Flagged' /\ AssertsHold'
  BY <1>1, <1>6, <1>7, DescheduleSafe DEF QueueInv, Flagged, AssertsHold
<1> QED BY <1>8, <1>9, <1>10 DEF QueueInv

\* handle_watchpoint keeps the invariant.
LEMMA HandleInv == ASSUME ListsInv, QueueInv, aborted = "no", handle_watchpoint PROVE QueueInv'
<1> DEFINE p == run.what
           id == zalloc_id(events)
<1>1. /\ pc = "handler" /\ InCall /\ p \in Points /\ hw' = hw /\ style' = style /\ seen' = seen
      /\ sim_engine_halt("events") \/ (pc' = run.place /\ run' = NoHandler /\ engine' = engine)
  BY DEF handle_watchpoint, HandlerReturns, InCall
<1>2. /\ Whole(events) /\ points \in [Points -> PointType] /\ p \in Kinds /\ p \notin Timers
      /\ p \notin {"poll", "step", "stop", "none"}
  BY <1>1, KindsApart DEF ListsInv, Types, PointType
<1>3. /\ run'.what = "none" /\ run'.place = "none" /\ engine'.stepper = engine.stepper
      /\ RoundOn /\ RoundOn' /\ Processing /\ pc' \in {"halted", "watch", "queue"}
      /\ pc' \in {"watch", "queue"} => run'.time = run.time
  BY <1>1, LeaveFacts
<1>4. engine.stepper # NULL => \E x \in ToSet(events.queue) : x.what = "step"
  BY <1>1, <1>2, StepperQueued
<1>5. /\ Edited /\ PollKept' /\ OwnersKept' /\ StepperKept' /\ events'.held = events.held
      /\ (events.work_pending => events'.work_pending)
      /\ (aborted' = "assert" => style.slip)
  <2>1. CASE points[p].periodic
    <3>1. /\ events' = schedule_watchpoint(events, p, points[p]) /\ points' = [points EXCEPT ![p].ev = id]
          /\ aborted' = aborted
      BY <2>1 DEF handle_watchpoint
    <3>2. points[p].arg0 \in Nat /\ points'[p].ev = id /\ \A q \in Points : q # p => points'[q] = points[q]
      <4> HIDE DEF p, id
      <4> QED BY <1>1, <1>2, <3>1 DEF PointType
    <3>3. Scheduled(events, events', id, p, points[p].arg0) \/ Watches(events, events', id, p)
      BY <1>1, <3>1, <3>2, PointScheduled
    <3>4. CASE Scheduled(events, events', id, p, points[p].arg0)
      <4>1. Adds(events, events', id, p, points[p].arg0) /\ events'.held = events.held
            /\ events'.work_pending = events.work_pending
        BY <3>4 DEF Scheduled
      <4> HIDE DEF id
      <4>2. Edited
        BY <1>2, <3>2, <4>1, EditsQueue
      <4>3. PollKept' /\ OwnersKept' /\ StepperKept'
        BY <1>1, <1>2, <1>3, <1>4, <3>2, <4>1, AddsKept
      <4> QED BY <3>1, <4>1, <4>2, <4>3
    <3>5. CASE Watches(events, events', id, p)
      <4> HIDE DEF id
      <4>1. Edited
        BY <1>2, <3>5, EditsQueue
      <4>2. PollKept' /\ OwnersKept' /\ StepperKept'
        BY <1>1, <1>2, <1>3, <1>4, <3>2, <3>5, WatchesKept
      <4> QED BY <3>1, <3>5, <4>1, <4>2 DEF Watches, SameRest
    <3> QED BY <3>3, <3>4, <3>5
  <2>2. CASE ~points[p].periodic
    <3>1. /\ events' = sim_events_deschedule(events, points[p].ev) /\ points' = [points EXCEPT ![p] = NoPoint]
          /\ aborted' = IF DescheduleAsserts(events, points[p].ev) THEN "no" ELSE "assert"
      BY <2>2 DEF handle_watchpoint
    <3>2. Descheduled(events, events', points[p].ev)
      BY <1>2, <3>1, Deschedules
    <3>3. points'[p].ev = NULL /\ \A q \in Points : q # p => points'[q] = points[q]
      <4> HIDE DEF p
      <4> QED BY <1>1, <1>2, <3>1 DEF NoPoint
    <3>4. \A x \in Listed : x.ev # points[p].ev
      <4>1. points[p].ev # NULL => \A x \in Listed : x.ev # points[p].ev
        BY <1>1 DEF QueueInv, OwnersKept
      <4>2. \A x \in Listed : x.ev # NULL
        BY <1>2, UniqueIds DEF Listed
      <4> QED BY <4>1, <4>2
    <3>5. ToSet(events'.queue) = ToSet(events.queue) /\ Listed' = Listed
      BY <3>2, <3>4 DEF Descheduled, Listed
    <3>6. Edited
      BY <1>2, <3>2, EditsQueue
    <3> HIDE DEF p
    <3>7. PollKept'
      BY <1>2, <1>3, <3>5 DEF QueueInv, PollKept, p
    <3>8. OwnersKept'
      BY <1>1, <1>2, <1>3, <3>3, <3>5 DEF QueueInv, OwnersKept, p
    <3>9. StepperKept'
      BY <1>1, <1>3, <1>4, <3>5 DEF QueueInv, StepperKept
    <3>10. aborted' = "assert" => style.slip
      BY <3>1, DescheduleSafe
    <3> QED BY <3>2, <3>6, <3>7, <3>8, <3>9, <3>10 DEF Descheduled, SameRest
  <2> QED BY <2>1, <2>2
<1> HIDE DEF p, id
<1>6. Rounds' /\ InTime' /\ Counted'
  <2>1. Processing' => run'.time = run.time
    BY <1>3 DEF Processing
  <2> QED BY <1>1, <1>3, <1>5, <2>1, EditKept
<1>7. Flagged' /\ AssertsHold'
  BY <1>1, <1>3, <1>5 DEF QueueInv, Flagged, AssertsHold
<1> QED BY <1>5, <1>6, <1>7 DEF QueueInv

\* sim_resume keeps the invariant: an old stepper is gone, and a new one is due at the next tick.
LEMMA ResumeInv ==
  ASSUME ListsInv, QueueInv, aborted = "no", NEW step \in BOOLEAN, Resume(step)
  PROVE  QueueInv'
<1> DEFINE new == [ev |-> engine'.stepper, what |-> "step", time |-> Now + 1]
<1>1. /\ pc = "halted" /\ pc' = "preprocess" /\ run' = run /\ points' = points /\ hw' = hw /\ style' = style
      /\ aborted' = IF DescheduleAsserts(events, engine.stepper) THEN "no" ELSE "assert"
      /\ seen' = [seen EXCEPT !.insns = 0, !.step = step]
  BY DEF Resume
<1>2. /\ Whole(events') /\ events'.nr_ticks_to_process = events.nr_ticks_to_process
      /\ events'.held = events.held /\ events'.work_pending = events.work_pending /\ Now' = Now
      /\ ToSet(events'.queue) = {x \in ToSet(events.queue) : x.ev # engine.stepper} \cup (IF step THEN {new} ELSE {})
      /\ ToSet(events'.watchpoints) = {x \in ToSet(events.watchpoints) : x.ev # engine.stepper}
      /\ ToSet(events'.watchedpoints) = {x \in ToSet(events.watchedpoints) : x.ev # engine.stepper}
      /\ (step <=> engine'.stepper # NULL) /\ engine'.last = engine.last
  BY ResumeSets
<1>3. /\ Whole(events) /\ Now \in Nat /\ run.what = "none" /\ run.place = "none" /\ seen'.insns = 0 /\ seen'.step = step
      /\ \A x \in ToSet(events.queue) : x.time \in Nat
  BY <1>1, FieldTypes DEF ListsInv, Types, Calling, InCall, Now, SeenType
<1>4. new.ev = engine'.stepper /\ new.what = "step" /\ new.time = Now + 1
  OBVIOUS
<1> HIDE DEF new
<1>5. "step" \notin Points /\ "step" \notin Timers
  BY KindsApart
<1>6. \A x \in Listed : x.ev = engine.stepper => x.what = "step"
  <2>1. \A x, y \in Listed : x.ev = y.ev => x = y
    BY <1>3, UniqueIds DEF Listed
  <2>2. \A x \in Listed : x.ev # NULL
    BY <1>3, UniqueIds DEF Listed
  <2>3. ToSet(events.queue) \subseteq Listed
    BY DEF Listed
  <2> QED BY <1>3, <2>1, <2>2, <2>3 DEF QueueInv, StepperKept
<1>7. \A x \in ToSet(events.queue) : x.what = "step" => x.ev = engine.stepper
  BY DEF QueueInv, StepperKept
<1>8. /\ \A x \in ToSet(events.queue) : x.what # "step" => x \in ToSet(events'.queue)
      /\ \A x \in Listed : x.what # "step" => x \in Listed'
      /\ \A x \in ToSet(events'.queue) : (x \in ToSet(events.queue) /\ x.what # "step") \/ (step /\ x = new)
  BY <1>2, <1>6, <1>7 DEF Listed
<1>9. Rounds'
  BY <1>1, <1>2 DEF QueueInv, Rounds, RoundOn, Processing
<1>10. PollKept'
  BY <1>1, <1>3, <1>4, <1>8 DEF QueueInv, PollKept
<1>11. OwnersKept'
  BY <1>1, <1>5, <1>8 DEF QueueInv, OwnersKept
<1>12. StepperKept'
  BY <1>1, <1>2, <1>3, <1>4, <1>8 DEF StepperKept
<1>13. InTime'
  <2>1. Overdue' => Overdue
    BY <1>2, <1>3, <1>4, <1>8 DEF Overdue
  <2> QED BY <1>1, <1>2, <1>3, <2>1 DEF QueueInv, InTime, RoundOn, Processing
<1>14. Flagged'
  <2>1. events'.watchpoints # <<>> => events.watchpoints # <<>>
    BY <1>2, <1>3, EmptyList, FieldTypes
  <2> QED BY <1>1, <1>2, <2>1 DEF QueueInv, Flagged, RoundOn, Processing
<1>15. AssertsHold'
  BY <1>1, DescheduleSafe DEF AssertsHold
<1>16. Counted'
  BY <1>1, <1>2, <1>3, <1>4, <1>8 DEF Counted, Processing
<1> QED BY <1>9, <1>10, <1>11, <1>12, <1>13, <1>14, <1>15, <1>16 DEF QueueInv

\* The invariant holds at the start.
LEMMA InitInv == ASSUME Init PROVE QueueInv
<1>1. /\ events.nr_ticks_to_process = 1 /\ Now = 0 /\ events.held = <<>> /\ events.watchpoints = <<>>
      /\ \E x : ToSet(events.queue) = {x} /\ x.what = "poll" /\ x.time = 0
  <2>1. PICK id : ToSet(events.queue) = {[ev |-> id, what |-> "poll", time |-> 0]}
    BY InitEffect
  <2> DEFINE x == [ev |-> id, what |-> "poll", time |-> 0]
  <2>2. ToSet(events.queue) = {x} /\ x.what = "poll" /\ x.time = 0
    BY <2>1
  <2> HIDE DEF x
  <2> QED BY <2>2, InitEffect
<1>2. /\ engine = [stepper |-> NULL, last |-> "events"] /\ pc = "halted" /\ run = Idle
      /\ points = [p \in Points |-> NoPoint] /\ hw = [h \in Timers |-> NULL] /\ aborted = "no"
      /\ style.slip => style.n = 1
      /\ seen = [insns |-> 0, step |-> FALSE, watched |-> {}, again |-> FALSE, calls |-> 0, signals |-> 0]
  BY DEF Init
<1>3. /\ engine.stepper = NULL /\ engine.last = "events" /\ seen.insns = 0 /\ seen.step = FALSE
      /\ run.what = "none" /\ run.place = "none" /\ \A p \in Points : points[p].ev = NULL
      /\ \A h \in Timers : hw[h] = NULL
  BY <1>2 DEF Idle, NoPoint
<1>4. Rounds
  BY <1>1, <1>2, <1>3 DEF Rounds, RoundOn, Processing
<1>5. PollKept /\ OwnersKept /\ StepperKept
  BY <1>1, <1>3 DEF PollKept, OwnersKept, StepperKept
<1>6. InTime /\ Flagged /\ AssertsHold
  BY <1>1, <1>2, <1>3 DEF InTime, Overdue, Flagged, AssertsHold
<1>7. Counted
  BY <1>1, <1>2, <1>3 DEF Counted
<1> QED BY <1>4, <1>5, <1>6, <1>7 DEF QueueInv

\* Once it is aborted the simulator takes no step; until then every step keeps the invariant.
LEMMA NextInv == ASSUME ListsInv, QueueInv, StaleCalls = FALSE, [Next]_vars PROVE QueueInv'
<1>1. CASE UNCHANGED vars
  BY <1>1 DEF vars, QueueInv, Rounds, PollKept, OwnersKept, StepperKept, InTime, Flagged, AssertsHold, Counted,
              Overdue, Processing, RoundOn, Listed, Now
<1>2. CASE Next /\ Machine
  BY <1>2, PreprocessInv, InsnInv, ProcessInv, MoveHeldInv, WatchNextInv, LoopEndInv, QueueNextInv, FinishInv,
     PollInv, StopInv, HandleInv, BounceInv, CallbackInv DEF Next, Machine
<1>3. CASE Next /\ User
  BY <1>3, ResumeInv, CreateInv, DeleteInv DEF Next, User
<1>4. CASE Next /\ Device
  BY <1>4, HwScheduleInv, HwDescheduleInv DEF Next, Device
<1>5. CASE Next /\ (Signal \/ sim_events_slip \/ CpuHalt)
  BY <1>5, SignalInv, SlipInv, CpuHaltInv DEF Next
<1> QED BY <1>1, <1>2, <1>3, <1>4, <1>5 DEF Next

\* The invariant holds in every reachable state, if no event is made while engine.stepper points
\* to a structure that was freed.
LEMMA QueueWhole == ASSUME StaleCalls = FALSE PROVE Spec => []QueueInv
<1>1. Init => QueueInv
  BY InitInv
<1>2. ListsInv /\ QueueInv /\ [Next]_vars => QueueInv'
  BY NextInv
<1> QED BY <1>1, <1>2, ListsWhole, PTL DEF Spec

-----------------------------------------------------------------------------
(* The theorems.                                                           *)

\* An event in a list belongs to the one that points to it, and what is pointed to is in a list.
LEMMA Kept == ListsInv /\ QueueInv => NothingLost
<1> SUFFICES ASSUME ListsInv, QueueInv PROVE NothingLost
  OBVIOUS
<1>1. \A h \in Timers : (hw[h] # NULL /\ run.what # h) => \E x \in Listed : x.ev = hw[h] /\ x.what = h
  BY DEF QueueInv, OwnersKept, Listed
<1>2. \A p \in Points : (points[p].ev # NULL /\ run.what # p) => \E x \in Listed : x.ev = points[p].ev /\ x.what = p
  BY DEF QueueInv, OwnersKept
<1>3. \A x \in Listed : /\ x.what \in Timers => hw[x.what] = x.ev
                        /\ x.what \in Points => points[x.what].ev = x.ev
  <2>1. Whole(events)
    BY DEF ListsInv, Types
  <2>2. \A x \in ToSet(events.watchpoints) \cup ToSet(events.watchedpoints) : x.what \in Points
    BY <2>1, FieldTypes
  <2> QED BY <2>2, KindsApart DEF ListsInv, Owned, Listed
<1> QED BY <1>1, <1>2, <1>3 DEF NothingLost, Listed

\* The queue is in order and the poll event is in it once.
LEMMA ClockKept == ListsInv /\ QueueInv => ClockFollowsQueue
<1> SUFFICES ASSUME ListsInv, QueueInv PROVE ClockFollowsQueue
  OBVIOUS
<1> DEFINE q == events.queue
           P == {i \in DOMAIN q : q[i].what = "poll"}
<1>1. Whole(events) /\ q \in Seq(Timed) /\ Ordered(q) /\ DistinctIds(q)
  BY FieldTypes DEF ListsInv, Types, Whole, Placed, Clocked
<1>2. \A i, j \in DOMAIN q : i < j => q[i].time <= q[j].time
  BY <1>1 DEF Ordered
<1>3. q # <<>> => events.time_of_event = Head(q).time
  BY <1>1 DEF Whole, Clocked
<1>4. \A x : x \in ToSet(q) <=> \E i \in DOMAIN q : x = q[i]
  BY DEF ToSet
<1> HIDE DEF q
<1>5. CASE run.what = "poll"
  <2>1. \A x \in ToSet(q) : x.what # "poll"
    BY <1>5 DEF QueueInv, PollKept, q
  <2>2. P = {}
    BY <1>4, <2>1
  <2>3. Cardinality(P) = 0
    BY <2>2, FS_EmptySet
  <2> QED BY <1>2, <1>3, <1>5, <2>3 DEF ClockFollowsQueue, q
<1>6. CASE run.what # "poll"
  <2>1. /\ \E x \in ToSet(q) : x.what = "poll"
        /\ \A x, y \in ToSet(q) : x.what = "poll" /\ y.what = "poll" => x = y
    BY <1>6 DEF QueueInv, PollKept, q
  <2>2. PICK i \in DOMAIN q : q[i].what = "poll"
    BY <1>4, <2>1
  <2>3. \A j \in P : j = i
    <3>1. TAKE j \in P
    <3>2. q[j] = q[i]
      BY <1>4, <2>1, <2>2
    <3> QED BY <1>1, <2>2, <3>2 DEF DistinctIds
  <2>4. P = {i}
    BY <2>2, <2>3
  <2>5. Cardinality(P) = 1
    BY <2>4, FS_Singleton
  <2> QED BY <1>2, <1>3, <1>6, <2>5 DEF ClockFollowsQueue, q
<1> QED BY <1>5, <1>6

\* No structure is lost or in two places and every field has its type, whatever clients call and
\* whenever, also while engine.stepper points to a structure that was freed.
THEOREM StructuresKept == Spec => [](TypeOK /\ StructsConserved)
<1>1. ListsInv => TypeOK /\ StructsConserved
  BY Conserved, TypesHold
<1> QED BY <1>1, ListsWhole, PTL

\* The lists are whole, each client's event is in them until it fires or is taken away, the clock
\* follows the queue, what has to be looked at is flagged and no assertion fails, in every state of
\* every run in which no event is made while engine.stepper points to a structure that was freed.
THEOREM QueueStaysSound == ASSUME StaleCalls = FALSE PROVE Spec => []QueueSound
<1>1. ListsInv /\ QueueInv => QueueSound
  <2> SUFFICES ASSUME ListsInv, QueueInv PROVE QueueSound
    OBVIOUS
  <2>1. TypeOK /\ StructsConserved /\ NothingLost /\ ClockFollowsQueue
    BY Conserved, TypesHold, Kept, ClockKept
  <2>2. WorkIsFlagged
    BY DEF QueueInv, Flagged, WorkIsFlagged, RoundOn, Processing
  <2> QED BY <2>1, <2>2 DEF QueueSound, QueueInv
<1> QED BY <1>1, ListsWhole, QueueWhole, PTL

\* No timer is early, and none is late unless the processor slipped, for all delays, all numbers of
\* ticks to an instruction and any number of clients.
THEOREM EventsArePunctual == ASSUME StaleCalls = FALSE PROVE Spec => []Punctual
<1>1. ListsInv /\ QueueInv => Punctual
  <2> SUFFICES ASSUME ListsInv, QueueInv PROVE Punctual
    OBVIOUS
  <2>1. NothingOverdue
    <3> SUFFICES ASSUME pc = "cpu", NEW i \in DOMAIN events.queue, ~(events.queue[i].time >= Now)
                 PROVE  style.slip /\ events.work_pending
      BY DEF NothingOverdue
    <3>1. events.queue[i] \in ToSet(events.queue)
      BY DEF ToSet
    <3>2. Now \in Nat /\ events.queue[i].time \in Nat
      BY <3>1, FieldTypes DEF ListsInv, Types, Now
    <3>3. Overdue
      BY <3>1, <3>2 DEF Overdue
    <3>4. ~RoundOn
      BY DEF RoundOn, Processing
    <3> QED BY <3>3, <3>4 DEF QueueInv, InTime
  <2>2. OnTime
    BY DEF OnTime, InCall, QueueInv, InTime, Rounds, Processing
  <2> QED BY <2>1, <2>2 DEF Punctual
<1> QED BY <1>1, ListsWhole, QueueWhole, PTL

\* A step is one instruction, wherever the simulator was halted before.
THEOREM StepIsOneInstruction == ASSUME StaleCalls = FALSE PROVE Spec => []StepsOnce
<1>1. ListsInv /\ QueueInv => StepsOnce
  <2> SUFFICES ASSUME ListsInv, QueueInv PROVE StepsOnce
    OBVIOUS
  <2>1. seen.step \in BOOLEAN
    BY DEF ListsInv, Types, SeenType
  <2> QED BY <2>1 DEF StepsOnce, QueueInv, Counted
<1> QED BY <1>1, ListsWhole, QueueWhole, PTL

-----------------------------------------------------------------------------
(* The queue implements the agenda of module Timeline.                     *)

Agenda == {[ev |-> events.queue[i].ev, time |-> events.queue[i].time] : i \in DOMAIN events.queue}
Firing == IF InCall /\ run.place = "queue" THEN run.at ELSE NoEvent

\* The agenda, by the events in the queue.
LEMMA AgendaSet == \A a : a \in Agenda <=> \E x \in ToSet(events.queue) : a = [ev |-> x.ev, time |-> x.time]
BY DEF Agenda, ToSet

\* A step that edits the queue while time stands still is an Edit of the agenda.
LEMMA EditStep ==
  ASSUME Whole(events), Whole(events'), Now' = Now, style' = style, Firing' \in {Firing, NoEvent},
         \A x \in ToSet(events'.queue) : x \in ToSet(events.queue) \/ x.time >= Now
  PROVE  T!Next
<1>1. \A a \in Agenda' \ Agenda : a.ev \in Nat /\ a.time >= Now
  <2> SUFFICES ASSUME NEW a \in Agenda', a \notin Agenda PROVE a.ev \in Nat /\ a.time >= Now
    OBVIOUS
  <2>1. \A b : b \in Agenda' <=> \E x \in ToSet(events'.queue) : b = [ev |-> x.ev, time |-> x.time]
    BY DEF Agenda, ToSet
  <2>2. PICK x \in ToSet(events'.queue) : a = [ev |-> x.ev, time |-> x.time]
    BY <2>1
  <2>3. x \notin ToSet(events.queue)
    BY <2>2, AgendaSet
  <2>4. x.ev \in Nat
    BY <2>2, FieldTypes DEF Timed
  <2> QED BY <2>2, <2>3, <2>4
<1>2. T!Edit
  BY <1>1 DEF T!Edit, T!None, Agenda, Firing, NoEvent, NULL
<1> QED BY <1>2 DEF T!Next

\* A step in which time goes on is an Advance, since what it leaves is not overdue.
LEMMA AdvanceStep ==
  ASSUME Whole(events'), Now \in Nat, Now' \in Nat, Now' > Now, style' = style, Firing' = NoEvent,
         events'.queue = events.queue, Overdue' => style.slip
  PROVE  T!Next
<1>1. Agenda' = Agenda
  BY DEF Agenda
<1>2. style.slip \/ \A a \in Agenda : a.time >= Now'
  <2> SUFFICES ASSUME ~style.slip, NEW a \in Agenda PROVE a.time >= Now'
    OBVIOUS
  <2>1. PICK x \in ToSet(events'.queue) : a = [ev |-> x.ev, time |-> x.time]
    BY AgendaSet
  <2>2. x.time \in Nat /\ ~(x.time < Now')
    BY <2>1, FieldTypes DEF Overdue
  <2> QED BY <2>1, <2>2
<1>3. T!Advance
  BY <1>1, <1>2 DEF T!Advance, T!None, Agenda, Firing, NoEvent, NULL
<1> QED BY <1>3 DEF T!Next

\* So is a step of which Edited holds.
LEMMA EditedStep ==
  ASSUME Whole(events), Edited, style' = style, Firing' \in {Firing, NoEvent}
  PROVE  T!Next
BY EditStep DEF Edited

\* A step in which time may pass.
LEMMA TickStep ==
  ASSUME ListsInv, QueueInv', NEW d \in Nat, Ticks(events, events', d), style' = style,
         Firing' \in {Firing, NoEvent}, d > 0 => Firing' = NoEvent
  PROVE  T!Next
<1>1. Whole(events) /\ Whole(events') /\ Now \in Nat /\ Now' \in Nat /\ Now' = Now + d /\ events'.queue = events.queue
  BY FieldTypes DEF ListsInv, Types, Ticks, Now
<1>2. CASE d = 0
  BY <1>1, <1>2, EditStep
<1>3. CASE d > 0
  <2>1. Overdue' => style.slip
    BY DEF QueueInv, InTime
  <2> QED BY <1>1, <1>3, <2>1, AdvanceStep
<1> QED BY <1>2, <1>3

\* The event that leaves the queue is the earliest one.
LEMMA FireStep == ASSUME ListsInv, QueueNext PROVE T!Next
<1> DEFINE x == Head(events.queue)
           a == [ev |-> x.ev, time |-> x.time]
<1>1. /\ events.queue # <<>> /\ pc' = "handler" /\ style' = style
      /\ events' = sim_events_free(update_time_from_event([events EXCEPT !.queue = Tail(@)]), x.ev)
      /\ run' = [run EXCEPT !.place = "queue", !.what = x.what, !.at = a]
  BY DEF QueueNext
<1>2. Whole(events)
  BY DEF ListsInv, Types
<1>3. /\ Descheduled(events, events', x.ev) /\ x \in ToSet(events.queue) /\ x \in Timed
      /\ \A y \in ToSet(events.queue) : x.time <= y.time
  BY <1>1, <1>2, QueueTakes
<1> HIDE DEF x
<1>4. a.ev = x.ev /\ a.time = x.time
  OBVIOUS
<1>5. Firing' = a
  <2>1. run'.place = "queue" /\ run'.at = a
    BY <1>1 DEF ListsInv, Types
  <2> QED BY <1>1, <2>1 DEF Firing, InCall
<1> HIDE DEF a
<1>6. Now' = Now /\ ToSet(events'.queue) = {y \in ToSet(events.queue) : y.ev # x.ev}
  BY <1>3 DEF Descheduled, SameRest, Now
<1>7. a \in Agenda /\ \A b \in Agenda : a.time <= b.time
  BY <1>3, <1>4, AgendaSet DEF a
<1>8. Agenda' = Agenda \ {a}
  <2>1. \A b : b \in Agenda' <=> \E y \in ToSet(events'.queue) : b = [ev |-> y.ev, time |-> y.time]
    BY DEF Agenda, ToSet
  <2>2. \A y \in ToSet(events.queue) : y.ev = x.ev => y = x
    BY <1>2, <1>3, UniqueIds
  <2>3. ASSUME NEW b \in Agenda' PROVE b \in Agenda /\ b # a
    <3>1. PICK y \in ToSet(events.queue) : b = [ev |-> y.ev, time |-> y.time] /\ y.ev # x.ev
      BY <1>6, <2>1, <2>3
    <3> QED BY <1>4, <3>1, AgendaSet
  <2>4. ASSUME NEW b \in Agenda, b # a PROVE b \in Agenda'
    <3>1. PICK y \in ToSet(events.queue) : b = [ev |-> y.ev, time |-> y.time]
      BY <2>4, AgendaSet
    <3>2. y # x
      BY <2>4, <3>1 DEF a
    <3> QED BY <1>6, <2>1, <2>2, <3>1, <3>2
  <2> QED BY <2>3, <2>4
<1>9. T!Fire
  BY <1>1, <1>5, <1>6, <1>7, <1>8 DEF T!Fire, Agenda, Firing, NoEvent
<1> QED BY <1>9 DEF T!Next

\* The steps of the main loop and of the handlers are steps of the agenda.
LEMMA MachineStep == ASSUME ListsInv, QueueInv, QueueInv', Machine PROVE T!Next
<1>0. Whole(events)
  BY DEF ListsInv, Types
<1>1. CASE sim_events_preprocess
  <2>1. style' = style /\ pc = "preprocess" /\ pc' \in {"process", "cpu"}
    BY <1>1 DEF sim_events_preprocess, sim_events_tick, Tick
  <2>2. Firing' = NoEvent
    BY <2>1 DEF Firing, InCall
  <2>3. CASE events' = events
    BY <1>0, <2>1, <2>2, <2>3, Untouched, TickStep
  <2>4. CASE sim_events_tick
    <3>1. Ticks(events, events', 0) \/ Ticks(events, events', 1)
      BY <1>0, <2>4, TickEffect DEF sim_events_tick
    <3> QED BY <2>1, <2>2, <3>1, TickStep
  <2> QED BY <1>1, <2>3, <2>4 DEF sim_events_preprocess
<1>2. CASE Insn
  <2>1. PICK n \in 1..style.n : Tick(events.time_from_event = 0, n) \/ Tick(events.time_from_event < n, n)
    BY <1>2, InsnTicks
  <2>2. n \in Nat
    BY DEF ListsInv, Types
  <2>3. pc' \in {"process", "cpu"} /\ (Ticks(events, events', 0) \/ Ticks(events, events', n))
    BY <1>0, <2>1, <2>2, TickEffect
  <2>4. Firing' = NoEvent /\ style' = style
    BY <1>2, <2>3 DEF Firing, InCall, Insn
  <2> QED BY <2>2, <2>3, <2>4, TickStep
<1>3. CASE Process
  <2>1. style' = style /\ pc' = "held" /\ Ticks(events, events', 0)
    BY <1>0, <1>3, ProcessEffect DEF Process
  <2>2. Firing' = NoEvent
    BY <2>1 DEF Firing, InCall
  <2> QED BY <2>1, <2>2, TickStep
<1>4. CASE MoveHeld
  <2>1. style' = style /\ pc' \in {"watch", "moving"}
    BY <1>4 DEF MoveHeld
  <2>2. Firing' = NoEvent
    BY <2>1 DEF Firing, InCall
  <2>3. CASE events.held = <<>>
    <3>1. events' = events
      BY <1>4, <2>3 DEF MoveHeld
    <3> QED BY <1>0, <2>1, <2>2, <3>1, Untouched, TickStep
  <2>4. CASE events.held # <<>>
    <3>1. Adds(events, events', zalloc_id(events), "stop", 0) /\ "stop" \in Kinds
      BY <1>4, <2>4, MoveEffect DEF Kinds
    <3>2. Edited
      BY <1>0, <3>1, EditsQueue
    <3> QED BY <1>0, <2>1, <2>2, <3>2, EditedStep
  <2> QED BY <2>3, <2>4
<1>5. CASE WatchNext
  <2> DEFINE x == Head(events.watchpoints)
  <2>1. /\ pc = "watch"
        /\ \/ /\ Descheduled(events, events', x.ev) /\ pc' = "handler"
              /\ run' = [run EXCEPT !.place = "watch", !.what = x.what]
           \/ /\ Whole(events') /\ SameRest(events, events') /\ events'.queue = events.queue /\ pc' = pc
    BY <1>5, WatchNextEffect
  <2> HIDE DEF x
  <2>2. style' = style
    BY <1>5 DEF WatchNext
  <2>3. Firing' = NoEvent
    BY <2>1 DEF Firing, InCall, ListsInv, Types
  <2>4. Edited
    BY <1>0, <2>1, EditsQueue DEF Edited, SameRest, Now
  <2> QED BY <1>0, <2>2, <2>3, <2>4, EditedStep
<1>6. CASE WatchDone
  <2>1. style' = style /\ pc' = "queue" /\ events' = events
    BY <1>6 DEF WatchDone
  <2>2. Firing' = NoEvent
    BY <2>1 DEF Firing, InCall
  <2> QED BY <1>0, <2>1, <2>2, Untouched, TickStep
<1>7. CASE Finish
  <2>1. pc = "queue" /\ pc' = "cpu" /\ style' = style /\ events.watchpoints = <<>>
    BY <1>7 DEF Finish, ListsInv, Calling
  <2>2. Whole(events') /\ events'.queue = events.queue /\ Now' = Now + events.nr_ticks_to_process
    BY <1>0, <1>7, <2>1, RoundEnds
  <2>3. events.nr_ticks_to_process # 0
    BY <2>1 DEF QueueInv, Rounds, RoundOn, Processing
  <2>4. Now \in Nat /\ Now' \in Nat /\ events.nr_ticks_to_process \in Nat
    BY <1>0, <2>2, FieldTypes DEF Now
  <2>5. Firing' = NoEvent
    BY <2>1 DEF Firing, InCall
  <2>6. Overdue' => style.slip
    BY <2>1 DEF QueueInv, InTime
  <2>7. Now' > Now
    BY <2>2, <2>3, <2>4
  <2> QED BY <2>1, <2>2, <2>4, <2>5, <2>6, <2>7, AdvanceStep
<1>8. CASE Poll
  <2>1. /\ Adds(events, events', zalloc_id(events), "poll", POLL_RATE) /\ run' = NoHandler /\ style' = style
        /\ "poll" \in Kinds /\ POLL_RATE \in Nat
    BY <1>8, PollEffect, SimAssumption DEF Kinds
  <2>2. Firing' = NoEvent
    BY <2>1, IdleRun DEF Firing, ListsInv, Types
  <2>3. Edited
    BY <1>0, <2>1, EditsQueue
  <2> QED BY <1>0, <2>1, <2>2, <2>3, EditedStep
<1>9. CASE Stop \/ CallbackEnds
  <2>1. /\ events' = events /\ style' = style /\ InCall
        /\ sim_engine_halt("events") \/ (pc' = run.place /\ run' = NoHandler /\ engine' = engine)
    BY <1>9 DEF Stop, CallbackEnds, HandlerReturns, InCall
  <2>2. Firing' = NoEvent
    BY <2>1, LeaveFacts DEF Firing
  <2> QED BY <1>0, <2>1, <2>2, Untouched, TickStep
<1>10. CASE handle_watchpoint
  <2> DEFINE p == run.what
  <2>1. /\ style' = style /\ InCall /\ p \in Points
        /\ sim_engine_halt("events") \/ (pc' = run.place /\ run' = NoHandler /\ engine' = engine)
        /\ events' = schedule_watchpoint(events, p, points[p]) \/ events' = sim_events_deschedule(events, points[p].ev)
    BY <1>10 DEF handle_watchpoint, HandlerReturns, InCall
  <2> HIDE DEF p
  <2>2. Firing' = NoEvent
    BY <2>1, LeaveFacts DEF Firing
  <2>3. points[p].arg0 \in Nat /\ p \in Kinds \ {"step"}
    BY <2>1, KindsApart DEF ListsInv, Types
  <2>4. Edited
    <3>1. CASE events' = schedule_watchpoint(events, p, points[p])
      <4>1. \/ Scheduled(events, events', zalloc_id(events), p, points[p].arg0)
            \/ Watches(events, events', zalloc_id(events), p)
        BY <2>1, <2>3, <3>1, PointScheduled
      <4> QED BY <1>0, <2>3, <4>1, EditsQueue DEF Scheduled
    <3>2. CASE events' = sim_events_deschedule(events, points[p].ev)
      BY <1>0, <3>2, Deschedules, EditsQueue
    <3> QED BY <2>1, <3>1, <3>2
  <2> QED BY <1>0, <2>1, <2>2, <2>4, EditedStep
<1>11. CASE bounce_hw_event
  <2>1. events' = events /\ style' = style /\ Firing' = Firing
    BY <1>11 DEF bounce_hw_event, Firing, InCall
  <2> QED BY <1>0, <2>1, Untouched, TickStep
<1> QED BY <1>1, <1>2, <1>3, <1>4, <1>5, <1>6, <1>7, <1>8, <1>9, <1>10, <1>11, FireStep DEF Machine

\* What the user and the devices do, signals and slips are steps of the agenda.
LEMMA ClientStep ==
  ASSUME ListsInv, QueueInv', User \/ Device \/ Signal \/ sim_events_slip \/ CpuHalt
  PROVE  T!Next
<1>0. Whole(events)
  BY DEF ListsInv, Types
<1>1. ASSUME NEW step \in BOOLEAN, Resume(step) PROVE T!Next
  <2>1. pc' = "preprocess" /\ style' = style
    BY <1>1 DEF Resume
  <2>2. /\ Whole(events') /\ Now' = Now
        /\ ToSet(events'.queue) = {x \in ToSet(events.queue) : x.ev # engine.stepper} \cup
             (IF step THEN {[ev |-> engine'.stepper, what |-> "step", time |-> Now + 1]} ELSE {})
    BY <1>1, ResumeSets
  <2>3. Now \in Nat
    BY <1>0, FieldTypes DEF Now
  <2>4. \A x \in ToSet(events'.queue) : x \in ToSet(events.queue) \/ x.time >= Now
    BY <2>2, <2>3
  <2>5. Firing' = NoEvent
    BY <2>1 DEF Firing, InCall
  <2> QED BY <1>0, <2>1, <2>2, <2>4, <2>5, EditStep
<1>2. ASSUME NEW p \in Points, NEW type \in PointTypes, NEW periodic \in BOOLEAN, NEW arg \in {0} \cup Args,
             do_watchpoint_create(p, type, periodic, arg)
      PROVE  T!Next
  <2> DEFINE point == [ev |-> zalloc_id(events), type |-> type, periodic |-> periodic, arg0 |-> arg]
  <2>1. /\ events' = schedule_watchpoint(events, p, point) /\ pc' = pc /\ run' = run /\ style' = style
        /\ point.arg0 \in Nat /\ p \in Kinds \ {"step"}
    BY <1>2, SimAssumption, KindsApart DEF do_watchpoint_create
  <2> HIDE DEF point
  <2>2. \/ Scheduled(events, events', zalloc_id(events), p, point.arg0)
        \/ Watches(events, events', zalloc_id(events), p)
    BY <2>1, PointScheduled
  <2>3. Edited
    BY <1>0, <2>1, <2>2, EditsQueue DEF Scheduled
  <2>4. Firing' = Firing
    BY <2>1 DEF Firing, InCall
  <2> QED BY <1>0, <2>1, <2>3, <2>4, EditedStep
<1>3. ASSUME NEW id, events' = sim_events_deschedule(events, id), pc' = pc, run' = run, style' = style PROVE T!Next
  <2>1. Edited
    BY <1>0, <1>3, Deschedules, EditsQueue
  <2>2. Firing' = Firing
    BY <1>3 DEF Firing, InCall
  <2> QED BY <1>0, <1>3, <2>1, <2>2, EditedStep
<1>4. ASSUME NEW p \in Points, do_watchpoint_delete(p) PROVE T!Next
  BY <1>3, <1>4 DEF do_watchpoint_delete
<1>5. ASSUME NEW h \in Timers, NEW delta \in Deltas, hw_event_queue_schedule(h, delta) PROVE T!Next
  <2>1. /\ events' = sim_events_schedule(events, delta, h) /\ pc' = pc /\ run' = run /\ style' = style
        /\ delta \in Nat /\ h \in Kinds \ {"step"}
    BY <1>5, SimAssumption, KindsApart DEF hw_event_queue_schedule
  <2>2. Edited
    BY <1>0, <2>1, Schedules, EditsQueue DEF Scheduled
  <2>3. Firing' = Firing
    BY <2>1 DEF Firing, InCall
  <2> QED BY <1>0, <2>1, <2>2, <2>3, EditedStep
<1>6. ASSUME NEW h \in Timers, hw_event_queue_deschedule(h) PROVE T!Next
  BY <1>3, <1>6 DEF hw_event_queue_deschedule
<1>7. CASE Signal
  <2>1. pc' = pc /\ run' = run /\ style' = style /\ Ticks(events, events', 0)
    BY <1>0, <1>7, StopEffect, Untouched DEF Signal
  <2>2. Firing' = Firing
    BY <2>1 DEF Firing, InCall
  <2> QED BY <2>1, <2>2, TickStep
<1>8. CASE sim_events_slip
  <2>1. pc = "cpu" /\ pc' = pc /\ style' = style /\ Ticks(events, events', 1)
    BY <1>0, <1>8, SlipEffect DEF sim_events_slip
  <2>2. Firing' = NoEvent
    BY <2>1 DEF Firing, InCall
  <2> QED BY <2>1, <2>2, TickStep
<1>9. CASE CpuHalt
  <2>1. pc' = "halted" /\ style' = style /\ events' = events
    BY <1>9 DEF CpuHalt, sim_engine_halt
  <2>2. Firing' = NoEvent
    BY <2>1 DEF Firing, InCall
  <2> QED BY <1>0, <2>1, <2>2, Untouched, TickStep
<1> QED BY <1>1, <1>2, <1>4, <1>5, <1>6, <1>7, <1>8, <1>9 DEF User, Device

\* Every step is one of the agenda, or none.
LEMMA AgendaStep == ListsInv /\ QueueInv /\ QueueInv' /\ [Next]_vars => [T!Next]_T!vars
<1>1. ASSUME UNCHANGED vars PROVE UNCHANGED T!vars
  BY <1>1 DEF vars, T!vars, Now, InCall
<1> QED BY <1>1, MachineStep, ClientStep DEF Next

\* At the start the agenda has the poll event, due at time 0.
LEMMA AgendaInit == ASSUME Init PROVE T!Init
<1>1. Whole(events) /\ Now = 0 /\ \A x \in ToSet(events.queue) : x.time = 0
  BY InitEffect
<1>2. Agenda \subseteq [ev : Nat, time : {0}]
  <2>1. \A x \in ToSet(events.queue) : x.ev \in Nat
    BY <1>1, FieldTypes DEF Timed
  <2> QED BY <1>1, <2>1, AgendaSet
<1>3. Firing = NoEvent /\ style.slip \in BOOLEAN
  BY SimAssumption DEF Init, Firing, InCall
<1> QED BY <1>1, <1>2, <1>3 DEF T!Init, T!None, Agenda, Firing, NoEvent, NULL

\* The queue implements the agenda: time passes no event that was not carried out or cancelled,
\* unless the processor slips, and of what is due the earliest goes first.
THEOREM QueueIsAnAgenda == ASSUME StaleCalls = FALSE PROVE Spec => KeepsTheAgenda
<1>1. Init => T!Init
  BY AgendaInit
<1> QED BY <1>1, AgendaStep, ListsWhole, QueueWhole, PTL DEF Spec, KeepsTheAgenda, T!Spec
=============================================================================
