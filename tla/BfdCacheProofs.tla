---------------------------- MODULE BfdCacheProofs ----------------------------
(***************************************************************************)
(* Proofs about BfdCache: for any number of files, any limit and whatever  *)
(* the system refuses, the ring counts the open files, "where" is right,   *)
(* and in a sound world BFDs are what SteadyFiles promises.                *)
(*                                                                         *)
(* The functions of cache.c are described by what they do to the record of *)
(* each BFD (Evicted) and to the ring (Ring); the actions need no more.    *)
(***************************************************************************)
EXTENDS BfdCache, FiniteSetTheorems, WellFoundedInduction, TLAPS

Ref == BFDs \cup {"NULL"}
Record ==
  [live : BOOLEAN, iostream : BOOLEAN, stream : 0..Size, pending : SUBSET (0..Size),
   cacheable : BOOLEAN, where : (-Size)..Size, opened_once : BOOLEAN, next : Ref, prev : Ref]
Caches ==
  [bfd : [All -> Record], last : Ref, open_files : Int, disk : [BFDs -> SUBSET (0..Size)]]

Streams(c) == {x \in All : c.bfd[x].iostream}

\* The BFDs of S are linked with each other.
Links(c, S) ==
  \A b \in S : /\ c.bfd[b].next \in S /\ c.bfd[b].prev \in S
               /\ c.bfd[c.bfd[b].next].prev = b /\ c.bfd[c.bfd[b].prev].next = b

\* S is what the cache has.
Ring(c, S) ==
  /\ S \subseteq BFDs /\ c.last \in S \cup {"NULL"} /\ Links(c, S)
  /\ c.open_files = Cardinality(S)

\* Nothing but the links differs.
Alike(r, q) ==
  /\ q.live = r.live /\ q.iostream = r.iostream /\ q.stream = r.stream /\ q.pending = r.pending
  /\ q.cacheable = r.cacheable /\ q.where = r.where /\ q.opened_once = r.opened_once
OnlyLinks(c, d) == d.disk = c.disk /\ \A x \in All : Alike(c.bfd[x], d.bfd[x])

\* The file was closed, and its place kept; or not.
Evicted(r, q) ==
  /\ q.live = r.live /\ q.stream = r.stream /\ q.cacheable = r.cacheable
  /\ q.opened_once = r.opened_once
  /\ \/ q.iostream = r.iostream /\ q.where = r.where /\ q.pending = r.pending
     \/ r.iostream /\ ~q.iostream /\ q.where = r.stream /\ q.pending = {}

\* What was written to b, on the disk or in the buffer.
Output(c, b) == c.disk[b] \cup c.bfd[b].pending

-----------------------------------------------------------------------------
(* Going along links.                                                      *)

\* Every nonempty set of numbers has a least one.
LEMMA LeastNumber ==
  ASSUME NEW T, T \subseteq Nat, T # {}
  PROVE  \E x \in T : \A y \in T : x <= y
<1>1. PICK x \in T : \A y \in T : ~(<<y, x>> \in OpToRel(<, Nat))
  BY NatLessThanWellFounded, WFMin
<1>2. \A y \in T : ~(y < x)
  BY <1>1 DEF OpToRel
<1> QED BY <1>2

\* g is the beginning of the walk from s along h.
Start(n, g, B, h, s) ==
  g \in [0..n -> B] /\ g[0] = s /\ \A i \in 0..(n - 1) : g[i + 1] = h[g[i]]

\* Such a beginning exists for every length, and agrees with every longer one.
LEMMA StartExists ==
  ASSUME NEW B, NEW h \in [B -> B], NEW s \in B
  PROVE  \A n \in Nat : \E g : Start(n, g, B, h, s)
<1> DEFINE T == {n \in Nat : ~\E g : Start(n, g, B, h, s)}
<1>1. SUFFICES ASSUME T # {} PROVE FALSE
  OBVIOUS
<1>2. PICK n \in T : \A k \in T : n <= k
  BY <1>1, LeastNumber
<1>3. CASE n = 0
  <2> DEFINE g == [i \in 0..0 |-> s]
  <2>1. Start(0, g, B, h, s)
    BY DEF Start
  <2> QED BY <1>2, <1>3, <2>1
<1>4. CASE n # 0
  <2>1. n - 1 \in Nat /\ n - 1 \notin T
    BY <1>2, <1>4
  <2>2. PICK g : Start(n - 1, g, B, h, s)
    BY <2>1
  <2> DEFINE k == [i \in 0..n |-> IF i < n THEN g[i] ELSE h[g[n - 1]]]
  <2>3. g \in [0..(n - 1) -> B] /\ g[0] = s /\ \A i \in 0..(n - 2) : g[i + 1] = h[g[i]]
    BY <2>1, <2>2 DEF Start
  <2>4. k \in [0..n -> B] /\ k[0] = s
    BY <1>4, <2>1, <2>3
  <2>5. ASSUME NEW i \in 0..(n - 1) PROVE k[i + 1] = h[k[i]]
    <3>1. CASE i = n - 1
      BY <2>1, <2>3, <3>1
    <3>2. CASE i # n - 1
      <4>1. i \in 0..(n - 2) /\ i + 1 < n /\ i < n
        BY <2>1, <3>2
      <4>2. g[i + 1] = h[g[i]]
        BY <2>3, <4>1
      <4> QED BY <4>1, <4>2
    <3> QED BY <3>1, <3>2
  <2>6. Start(n, k, B, h, s)
    BY <2>4, <2>5 DEF Start
  <2> QED BY <1>2, <2>6
<1> QED BY <1>3, <1>4

LEMMA StartUnique ==
  ASSUME NEW B, NEW h \in [B -> B], NEW s \in B, NEW n \in Nat, NEW m \in Nat, n <= m,
         NEW g, NEW k, Start(n, g, B, h, s), Start(m, k, B, h, s)
  PROVE  g[n] = k[n]
<1> DEFINE T == {i \in 0..n : g[i] # k[i]}
<1>1. SUFFICES ASSUME T # {} PROVE FALSE
  OBVIOUS
<1>2. PICK i \in T : \A j \in T : i <= j
  <2>1. T \subseteq Nat
    OBVIOUS
  <2> HIDE DEF T
  <2> QED BY <1>1, <2>1, LeastNumber
<1>3. i # 0
  BY <1>2 DEF Start
<1>4. i - 1 \in 0..(n - 1) /\ i - 1 \in 0..(m - 1) /\ g[i - 1] = k[i - 1]
  BY <1>2, <1>3
<1>5. g[(i - 1) + 1] = h[g[i - 1]] /\ k[(i - 1) + 1] = h[k[i - 1]]
  BY <1>4 DEF Start
<1> QED BY <1>2, <1>4, <1>5

Walk(f, B, h, s) == f \in [Nat -> B] /\ f[0] = s /\ \A n \in Nat : f[n + 1] = h[f[n]]
LEMMA WalkExists ==
  ASSUME NEW B, NEW h \in [B -> B], NEW s \in B
  PROVE  \E f : Walk(f, B, h, s)
<1> DEFINE G(n) == CHOOSE g : Start(n, g, B, h, s)
           f == [n \in Nat |-> G(n)[n]]
<1>1. \A n \in Nat : Start(n, G(n), B, h, s)
  BY StartExists
<1> HIDE DEF G
<1>2. \A n \in Nat : G(n)[n] \in B
  BY <1>1 DEF Start
<1>3. G(0)[0] = s
  BY <1>1 DEF Start
<1>4. ASSUME NEW n \in Nat PROVE G(n + 1)[n + 1] = h[G(n)[n]]
  <2>1. n + 1 \in Nat /\ n <= n + 1 /\ n \in 0..((n + 1) - 1)
    OBVIOUS
  <2>2. Start(n, G(n), B, h, s) /\ Start(n + 1, G(n + 1), B, h, s)
    BY <1>1, <2>1
  <2>3. G(n)[n] = G(n + 1)[n]
    BY <2>1, <2>2, StartUnique
  <2>4. G(n + 1)[n + 1] = h[G(n + 1)[n]]
    BY <2>1, <2>2 DEF Start
  <2> QED BY <2>3, <2>4
<1>5. Walk(f, B, h, s)
  BY <1>2, <1>3, <1>4 DEF Walk
<1> QED BY <1>5

\* The search of close_one goes from bfd_last_cache to the BFD before it, and so on.
LEMMA BackwardsGoes ==
  ASSUME NEW c, NEW S, Links(c, S), c.last \in S
  PROVE  /\ Backwards(c)[0] = c.bfd[c.last].prev
         /\ \A k \in Nat : Backwards(c)[k + 1] = c.bfd[Backwards(c)[k]].prev
<1> DEFINE h == [b \in S |-> c.bfd[b].prev]
           s == c.bfd[c.last].prev
           Is(f) == f = [k \in Nat |-> IF k = 0 THEN c.bfd[c.last].prev ELSE c.bfd[f[k - 1]].prev]
           w == Backwards(c)
<1>1. h \in [S -> S] /\ s \in S
  BY DEF Links
<1>a. PICK f : Walk(f, S, h, s)
  <2> HIDE DEF h, s
  <2> QED BY <1>1, WalkExists
<1>2. f \in [Nat -> S] /\ f[0] = s /\ \A n \in Nat : f[n + 1] = h[f[n]]
  BY <1>a DEF Walk
<1>3. Is(f)
  <2>1. ASSUME NEW k \in Nat
        PROVE  f[k] = IF k = 0 THEN c.bfd[c.last].prev ELSE c.bfd[f[k - 1]].prev
    <3>1. CASE k = 0
      BY <1>2, <3>1
    <3>2. CASE k # 0
      <4>1. k - 1 \in Nat /\ (k - 1) + 1 = k
        BY <3>2
      <4>2. f[k - 1] \in S /\ f[k] = h[f[k - 1]]
        BY <1>2, <4>1
      <4> QED BY <3>2, <4>2
    <3> QED BY <3>1, <3>2
  <2> QED BY <1>2, <2>1
<1>4. w = CHOOSE f1 : Is(f1)
  BY DEF Backwards
<1>5. Is(w)
  <2> HIDE DEF Is, w
  <2> QED BY <1>3, <1>4
<1> HIDE DEF w
<1>6. \A k \in Nat : w[k] = IF k = 0 THEN c.bfd[c.last].prev ELSE c.bfd[w[k - 1]].prev
  BY <1>5
<1>7. ASSUME NEW k \in Nat PROVE w[k + 1] = c.bfd[w[k]].prev
  <2>1. k + 1 \in Nat /\ k + 1 # 0 /\ (k + 1) - 1 = k
    OBVIOUS
  <2> QED BY <1>6, <2>1
<1>8. w[0] = c.bfd[c.last].prev
  BY <1>6
<1> QED BY <1>7, <1>8 DEF w

\* Whatever it comes to is in the ring.
LEMMA BackwardsInRing ==
  ASSUME NEW c, NEW S, Links(c, S), c.last \in S
  PROVE  \A k \in Nat : Backwards(c)[k] \in S
<1> DEFINE w == Backwards(c)
<1>6. w[0] \in S /\ \A k \in Nat : w[k] \in S => w[k + 1] \in S
  BY BackwardsGoes DEF Links
<1> HIDE DEF w
<1> DEFINE T == {k \in Nat : w[k] \notin S}
<1>7. T = {}
  <2>1. SUFFICES ASSUME T # {} PROVE FALSE
    OBVIOUS
  <2>2. PICK k \in T : \A j \in T : k <= j
    BY <2>1, LeastNumber
  <2>3. k # 0 /\ k - 1 \in Nat /\ k - 1 \notin T /\ (k - 1) + 1 = k
    BY <1>6, <2>2
  <2> QED BY <1>6, <2>2, <2>3
<1> QED BY <1>7 DEF w

-----------------------------------------------------------------------------
(* The ring.                                                               *)

\* One link is changed.
NextIs(f, g, b, v) ==
  /\ g \in [All -> Record]
  /\ \A x \in All : Alike(f[x], g[x])
  /\ \A x \in All : g[x].next = (IF x = b THEN v ELSE f[x].next)
  /\ \A x \in All : g[x].prev = f[x].prev
PrevIs(f, g, b, v) ==
  /\ g \in [All -> Record]
  /\ \A x \in All : Alike(f[x], g[x])
  /\ \A x \in All : g[x].prev = (IF x = b THEN v ELSE f[x].prev)
  /\ \A x \in All : g[x].next = f[x].next

LEMMA SetNext ==
  ASSUME NEW f \in [All -> Record], NEW b \in All, NEW v \in Ref
  PROVE  NextIs(f, [f EXCEPT ![b].next = v], b, v)
<1> DEFINE r == [f[b] EXCEPT !.next = v]
<1>1. r \in Record /\ Alike(f[b], r) /\ r.next = v /\ r.prev = f[b].prev
  BY DEF Record, Alike
<1>2. [f EXCEPT ![b].next = v] = [f EXCEPT ![b] = r]
  OBVIOUS
<1> HIDE DEF r
<1>3. \A x \in All : Alike(f[x], f[x])
  BY DEF Alike
<1> QED BY <1>1, <1>2, <1>3 DEF NextIs

LEMMA SetPrev ==
  ASSUME NEW f \in [All -> Record], NEW b \in All, NEW v \in Ref
  PROVE  PrevIs(f, [f EXCEPT ![b].prev = v], b, v)
<1> DEFINE r == [f[b] EXCEPT !.prev = v]
<1>1. r \in Record /\ Alike(f[b], r) /\ r.prev = v /\ r.next = f[b].next
  BY DEF Record, Alike
<1>2. [f EXCEPT ![b].prev = v] = [f EXCEPT ![b] = r]
  OBVIOUS
<1> HIDE DEF r
<1>3. \A x \in All : Alike(f[x], f[x])
  BY DEF Alike
<1> QED BY <1>1, <1>2, <1>3 DEF PrevIs

LEMMA AlikeAlong ==
  ASSUME NEW f, NEW g, NEW h, \A x \in All : Alike(f[x], g[x]), \A x \in All : Alike(g[x], h[x])
  PROVE  \A x \in All : Alike(f[x], h[x])
BY DEF Alike

LEMMA LinkedBack ==
  ASSUME NEW c, NEW S, Links(c, S), NEW l \in S
  PROVE  c.bfd[l].prev \in S /\ c.bfd[c.bfd[l].prev].next = l
BY DEF Links

\* How the order changes when b is put before the first, and when it is taken out.
PutFirst(c, d, S, b) ==
  /\ d.bfd[b].next = IF c.last = "NULL" THEN b ELSE c.last
  /\ \A x \in S : d.bfd[x].next = IF c.bfd[x].next = c.last THEN b ELSE c.bfd[x].next
TakenOut(c, d, S, b) ==
  /\ d.last = IF c.last # b THEN c.last ELSE IF c.bfd[b].next = b THEN "NULL" ELSE c.bfd[b].next
  /\ \A x \in S \ {b} :
       d.bfd[x].next = IF c.bfd[x].next = b THEN c.bfd[b].next ELSE c.bfd[x].next

\* What insert does to the links.
LEMMA Inserts ==
  ASSUME NEW c \in Caches, NEW S, S \subseteq BFDs, c.last \in S \cup {"NULL"}, Links(c, S),
         NEW b \in BFDs \ S, NEW d, d = insert(c, b)
  PROVE  /\ d \in Caches /\ d.last = b /\ Links(d, S \cup {b}) /\ OnlyLinks(c, d)
         /\ d.open_files = c.open_files /\ PutFirst(c, d, S, b)
<1>1. /\ S \subseteq BFDs /\ Links(c, S) /\ b \in All /\ b # "NULL" /\ b \in Ref
      /\ c.bfd \in [All -> Record] /\ S \subseteq All
  BY BfdCacheAssumption DEF All, Ref, Caches
<1>2. CASE c.last = "NULL"
  <2> DEFINE f1 == [c.bfd EXCEPT ![b].next = b]
             f2 == [f1 EXCEPT ![b].prev = b]
  <2>1. d = [c EXCEPT !.bfd = f2, !.last = b]
    BY <1>1, <1>2 DEF insert, Caches
  <2>2. NextIs(c.bfd, f1, b, b)
    BY <1>1, SetNext
  <2> HIDE DEF f1
  <2>3. PrevIs(f1, f2, b, b)
    BY <1>1, <2>2, SetPrev DEF NextIs
  <2> HIDE DEF f2
  <2>4. d \in Caches /\ d.last = b /\ d.open_files = c.open_files /\ d.disk = c.disk /\ d.bfd = f2
    BY <1>1, <2>1, <2>3 DEF Caches, PrevIs
  <2>5. OnlyLinks(c, d)
    BY <2>2, <2>3, <2>4, AlikeAlong DEF OnlyLinks, NextIs, PrevIs
  <2>6. \A x \in All : /\ d.bfd[x].next = (IF x = b THEN b ELSE c.bfd[x].next)
                       /\ d.bfd[x].prev = (IF x = b THEN b ELSE c.bfd[x].prev)
    BY <2>2, <2>3, <2>4 DEF NextIs, PrevIs
  <2>7. Links(d, S \cup {b})
    <3> SUFFICES ASSUME NEW x \in S \cup {b}
                 PROVE  /\ d.bfd[x].next \in S \cup {b} /\ d.bfd[x].prev \in S \cup {b}
                        /\ d.bfd[d.bfd[x].next].prev = x /\ d.bfd[d.bfd[x].prev].next = x
      BY DEF Links
    <3>1. CASE x = b
      BY <1>1, <2>6, <3>1
    <3>2. CASE x \in S
      <4>1. /\ c.bfd[x].next \in S /\ c.bfd[x].prev \in S
            /\ c.bfd[c.bfd[x].next].prev = x /\ c.bfd[c.bfd[x].prev].next = x
        BY <1>1, <3>2 DEF Links
      <4> QED BY <1>1, <2>6, <3>2, <4>1
    <3> QED BY <3>1, <3>2
  <2>8. PutFirst(c, d, S, b)
    <3>1. \A x \in S : x # b /\ c.bfd[x].next # "NULL"
      BY <1>1, BfdCacheAssumption DEF Links
    <3> QED BY <1>1, <1>2, <2>6, <3>1 DEF PutFirst
  <2> QED BY <2>4, <2>5, <2>7, <2>8
<1>3. CASE c.last # "NULL"
  <2> DEFINE l == c.last
             p == c.bfd[l].prev
             f1 == [c.bfd EXCEPT ![b].next = l]
             f2 == [f1 EXCEPT ![b].prev = p]
             f3 == [f2 EXCEPT ![p].next = b]
             f4 == [f3 EXCEPT ![l].prev = b]
  <2>1. l \in S /\ p \in S /\ l \in All /\ p \in All /\ b # l /\ b # p /\ l \in Ref /\ p \in Ref
        /\ c.bfd[p].next = l
    <3>1. l \in S
      BY <1>3
    <3> HIDE DEF l
    <3>2. p \in S /\ c.bfd[p].next = l
      BY <3>1, LinkedBack
    <3> HIDE DEF p
    <3> QED BY <1>1, <3>1, <3>2 DEF Ref
  <2>2. d = [c EXCEPT !.bfd = f4, !.last = b]
    BY <1>1, <1>3, <2>1 DEF insert, Caches
  <2>3. c.bfd[l].prev = p
    OBVIOUS
  <2> HIDE DEF l, p
  <2>4. NextIs(c.bfd, f1, b, l)
    BY <1>1, <2>1, SetNext
  <2> HIDE DEF f1
  <2>5. PrevIs(f1, f2, b, p)
    BY <1>1, <2>1, <2>4, SetPrev DEF NextIs
  <2> HIDE DEF f2
  <2>6. NextIs(f2, f3, p, b)
    BY <1>1, <2>1, <2>5, SetNext DEF PrevIs
  <2> HIDE DEF f3
  <2>7. PrevIs(f3, f4, l, b)
    BY <1>1, <2>1, <2>6, SetPrev DEF NextIs
  <2> HIDE DEF f4
  <2>8. d \in Caches /\ d.last = b /\ d.open_files = c.open_files /\ d.disk = c.disk /\ d.bfd = f4
    BY <1>1, <2>2, <2>7 DEF Caches, PrevIs
  <2>9. OnlyLinks(c, d)
    <3>1. \A x \in All : Alike(c.bfd[x], f2[x])
      BY <2>4, <2>5, AlikeAlong DEF NextIs, PrevIs
    <3>2. \A x \in All : Alike(f2[x], f4[x])
      BY <2>6, <2>7, AlikeAlong DEF NextIs, PrevIs
    <3> QED BY <2>8, <3>1, <3>2, AlikeAlong DEF OnlyLinks
  <2>10. \A x \in All :
           /\ d.bfd[x].next = (IF x = p THEN b ELSE IF x = b THEN l ELSE c.bfd[x].next)
           /\ d.bfd[x].prev = (IF x = l THEN b ELSE IF x = b THEN p ELSE c.bfd[x].prev)
    BY <2>4, <2>5, <2>6, <2>7, <2>8 DEF NextIs, PrevIs
  <2>11. Links(d, S \cup {b})
    <3> SUFFICES ASSUME NEW x \in S \cup {b}
                 PROVE  /\ d.bfd[x].next \in S \cup {b} /\ d.bfd[x].prev \in S \cup {b}
                        /\ d.bfd[d.bfd[x].next].prev = x /\ d.bfd[d.bfd[x].prev].next = x
      BY DEF Links
    <3>1. CASE x = b
      BY <1>1, <2>1, <2>10, <3>1
    <3>2. CASE x \in S
      <4>1. /\ c.bfd[x].next \in S /\ c.bfd[x].prev \in S
            /\ c.bfd[c.bfd[x].next].prev = x /\ c.bfd[c.bfd[x].prev].next = x
        BY <1>1, <3>2 DEF Links
      <4>2. d.bfd[x].next \in S \cup {b} /\ d.bfd[d.bfd[x].next].prev = x
        BY <1>1, <2>1, <2>3, <2>10, <3>2, <4>1
      <4>3. d.bfd[x].prev \in S \cup {b} /\ d.bfd[d.bfd[x].prev].next = x
        BY <1>1, <2>1, <2>3, <2>10, <3>2, <4>1
      <4> QED BY <4>2, <4>3
    <3> QED BY <3>1, <3>2
  <2>12. PutFirst(c, d, S, b)
    <3>1. \A x \in S : x # b /\ (c.bfd[x].next = l <=> x = p)
      BY <1>1, <2>1, <2>3 DEF Links
    <3>2. c.last = l
      BY DEF l
    <3> QED BY <1>1, <1>3, <2>1, <2>10, <3>1, <3>2 DEF PutFirst
  <2> QED BY <2>8, <2>9, <2>11, <2>12
<1> QED BY <1>2, <1>3

\* What snip does to the links.
LEMMA Snips ==
  ASSUME NEW c \in Caches, NEW S, Ring(c, S), NEW b \in S, NEW d, d = snip(c, b)
  PROVE  /\ d \in Caches /\ d.last \in (S \ {b}) \cup {"NULL"} /\ Links(d, S \ {b})
         /\ OnlyLinks(c, d) /\ d.open_files = c.open_files /\ TakenOut(c, d, S, b)
<1> DEFINE n == c.bfd[b].next
           p == c.bfd[b].prev
           f1 == [c.bfd EXCEPT ![p].next = n]
           f2 == [f1 EXCEPT ![n].prev = p]
           l == IF c.last # b THEN c.last ELSE IF n = b THEN "NULL" ELSE n
<1>1. /\ S \subseteq BFDs /\ S \subseteq All /\ Links(c, S) /\ b \in All /\ n \in S /\ p \in S
      /\ n \in Ref /\ p \in Ref /\ c.bfd \in [All -> Record] /\ c.last \in S \cup {"NULL"}
      /\ c.bfd[n].prev = b /\ c.bfd[p].next = b
  BY BfdCacheAssumption DEF Ring, All, Ref, Caches, Links
<1>2. d = [c EXCEPT !.bfd = f2, !.last = l]
  BY <1>1 DEF snip, Caches
<1>3. l \in (S \ {b}) \cup {"NULL"} /\ l \in Ref
  BY <1>1 DEF Ref
<1>4. n = c.bfd[b].next /\ p = c.bfd[b].prev
  OBVIOUS
<1> HIDE DEF n, p, l
<1>5. NextIs(c.bfd, f1, p, n)
  BY <1>1, SetNext
<1> HIDE DEF f1
<1>6. PrevIs(f1, f2, n, p)
  BY <1>1, <1>5, SetPrev DEF NextIs
<1> HIDE DEF f2
<1>7. d \in Caches /\ d.last = l /\ d.open_files = c.open_files /\ d.disk = c.disk /\ d.bfd = f2
  BY <1>1, <1>2, <1>3, <1>6 DEF Caches, PrevIs
<1>8. OnlyLinks(c, d)
  BY <1>5, <1>6, <1>7, AlikeAlong DEF OnlyLinks, NextIs, PrevIs
<1>9. \A x \in All : /\ d.bfd[x].next = (IF x = p THEN n ELSE c.bfd[x].next)
                     /\ d.bfd[x].prev = (IF x = n THEN p ELSE c.bfd[x].prev)
  BY <1>5, <1>6, <1>7 DEF NextIs, PrevIs
<1>10. Links(d, S \ {b})
  <2> SUFFICES ASSUME NEW x \in S \ {b}
               PROVE  /\ d.bfd[x].next \in S \ {b} /\ d.bfd[x].prev \in S \ {b}
                      /\ d.bfd[d.bfd[x].next].prev = x /\ d.bfd[d.bfd[x].prev].next = x
    BY DEF Links
  <2>1. /\ c.bfd[x].next \in S /\ c.bfd[x].prev \in S
        /\ c.bfd[c.bfd[x].next].prev = x /\ c.bfd[c.bfd[x].prev].next = x
    BY <1>1 DEF Links
  <2>2. d.bfd[x].next \in S \ {b} /\ d.bfd[d.bfd[x].next].prev = x
    BY <1>1, <1>4, <1>9, <2>1
  <2>3. d.bfd[x].prev \in S \ {b} /\ d.bfd[d.bfd[x].prev].next = x
    BY <1>1, <1>4, <1>9, <2>1
  <2> QED BY <2>2, <2>3
<1>11. TakenOut(c, d, S, b)
  <2>1. \A x \in S : c.bfd[x].next = b <=> x = p
    BY <1>1, <1>4 DEF Links
  <2> QED BY <1>1, <1>4, <1>7, <1>9, <2>1 DEF TakenOut, l
<1> QED BY <1>3, <1>7, <1>8, <1>10, <1>11

\* The ring of another cache with the same links.
LEMMA SameRing ==
  ASSUME NEW c, NEW d, NEW S, Ring(c, S), d.last = c.last, d.open_files = c.open_files,
         \A x \in S : d.bfd[x].next = c.bfd[x].next /\ d.bfd[x].prev = c.bfd[x].prev
  PROVE  Ring(d, S)
BY DEF Ring, Links

-----------------------------------------------------------------------------
(* The order of the ring.  h says of each BFD which were looked up after   *)
(* it.  Whatever h is, the ring stays in its order when a BFD is taken     *)
(* out, and a BFD that is put first is one that was just looked up.        *)

Used(h, b) == [y \in DOMAIN h \cup {b} |-> IF y = b THEN {} ELSE h[y] \cup {b}]

\* The ring S has the order of h, from the BFD used last on.
Ordered(c, S, h) ==
  /\ S \subseteq DOMAIN h
  /\ S # {} => c.last \in S /\ h[c.last] \cap S = {}
  /\ \A b \in S : b \notin h[b]
  /\ \A a, b \in S : a # b => a \in h[b] \/ b \in h[a]
  /\ \A b \in S : IF (h[b] \cap S) \cup {b} = S
                    THEN c.bfd[b].next = c.last
                    ELSE h[c.bfd[b].next] \cap S = (h[b] \cap S) \cup {b}

\* A file that was opened by name may be closed; the others were given.
Named(c, S) == \A b \in S : Direction[b] # "fd" => c.bfd[b].cacheable
Given == {b \in BFDs : Direction[b] = "fd"}
Limited(n) == n <= BFD_CACHE_MAX_OPEN \/ n <= 1 + Cardinality(Given)

\* What RingIsRecency and WithinLimit need of the cache, and how it is kept.
Tidy(c, S, h) == Ordered(c, S, h) /\ Named(c, S) /\ Limited(c.open_files)
Keeps(c, S, d, T) == \A h : Tidy(c, S, h) => Tidy(d, T, h)

LEMMA KeepsAlong ==
  ASSUME NEW c, NEW S, NEW d, NEW T, NEW e, NEW U, Keeps(c, S, d, T), Keeps(d, T, e, U)
  PROVE  Keeps(c, S, e, U)
BY DEF Keeps

\* A cache with the same ring.
LEMMA SameTidy ==
  ASSUME NEW c, NEW S, Links(c, S), NEW d, d.last = c.last, d.open_files = c.open_files,
         \A x \in S : d.bfd[x].next = c.bfd[x].next /\ d.bfd[x].cacheable = c.bfd[x].cacheable
  PROVE  Keeps(c, S, d, S)
BY DEF Keeps, Tidy, Ordered, Named

\* The order does not depend on a BFD that is not in the ring.
Forgot(h, b) == [y \in DOMAIN h \ {b} |-> h[y] \ {b}]
LEMMA OrderForgotten ==
  ASSUME NEW c, NEW S, Links(c, S), NEW h, Tidy(c, S, h), NEW b, b \notin S
  PROVE  Tidy(c, S, Forgot(h, b))
<1> DEFINE g == Forgot(h, b)
<1>1. \A x \in S : c.bfd[x].next \in S
  BY DEF Links
<1>2. /\ S \subseteq DOMAIN h /\ (S # {} => c.last \in S /\ h[c.last] \cap S = {})
      /\ \A x \in S : x \notin h[x]
      /\ \A a, x \in S : a # x => a \in h[x] \/ x \in h[a]
      /\ \A x \in S : IF (h[x] \cap S) \cup {x} = S THEN c.bfd[x].next = c.last
                        ELSE h[c.bfd[x].next] \cap S = (h[x] \cap S) \cup {x}
  BY DEF Tidy, Ordered
<1>3. S \subseteq DOMAIN g /\ \A x \in S : g[x] = h[x] \ {b}
  BY <1>2 DEF Forgot
<1> HIDE DEF g
<1>4. \A x \in S : g[x] \cap S = h[x] \cap S
  BY <1>3
<1>5. S # {} => c.last \in S /\ g[c.last] \cap S = {}
  BY <1>2, <1>4
<1>6. \A x \in S : x \notin g[x]
  BY <1>2, <1>3
<1>7. \A a, x \in S : a # x => a \in g[x] \/ x \in g[a]
  BY <1>2, <1>3
<1>8. \A x \in S : IF (g[x] \cap S) \cup {x} = S THEN c.bfd[x].next = c.last
                     ELSE g[c.bfd[x].next] \cap S = (g[x] \cap S) \cup {x}
  BY <1>1, <1>2, <1>4
<1>9. Ordered(c, S, g)
  BY <1>3, <1>5, <1>6, <1>7, <1>8 DEF Ordered
<1> QED BY <1>9 DEF g, Tidy

\* A ring without b.
LEMMA OrderWithout ==
  ASSUME NEW c, NEW S, Links(c, S), NEW b \in S, c.last \in S, NEW h, Ordered(c, S, h),
         NEW d, TakenOut(c, d, S, b)
  PROVE  Ordered(d, S \ {b}, h)
<1> DEFINE n == c.bfd[b].next
           R == S \ {b}
<1>1. /\ S \subseteq DOMAIN h /\ h[c.last] \cap S = {}
      /\ \A x \in S : x \notin h[x]
      /\ \A a, x \in S : a # x => a \in h[x] \/ x \in h[a]
      /\ \A x \in S : IF (h[x] \cap S) \cup {x} = S THEN c.bfd[x].next = c.last
                        ELSE h[c.bfd[x].next] \cap S = (h[x] \cap S) \cup {x}
  BY DEF Ordered
<1>2. \A x \in S : c.bfd[x].next \in S /\ (c.bfd[x].next = b => c.bfd[c.bfd[x].next].prev = x)
  BY DEF Links
<1>3. n \in S /\ IF (h[b] \cap S) \cup {b} = S THEN n = c.last ELSE h[n] \cap S = (h[b] \cap S) \cup {b}
  BY <1>1, <1>2
<1>4. /\ d.last = IF c.last # b THEN c.last ELSE IF n = b THEN "NULL" ELSE n
      /\ \A x \in R : d.bfd[x].next = IF c.bfd[x].next = b THEN n ELSE c.bfd[x].next
  BY DEF TakenOut
<1> HIDE DEF n
<1>5. n = b => R = {}
  <2> SUFFICES ASSUME n = b PROVE R = {}
    OBVIOUS
  <2>1. h[b] \cap S = {}
    BY <1>1, <1>3
  <2>2. (h[b] \cap S) \cup {b} = S
    BY <1>1, <1>3, <2>1
  <2> QED BY <2>1, <2>2
<1>6. R # {} => d.last \in R /\ h[d.last] \cap R = {}
  <2>1. CASE c.last # b
    BY <1>1, <1>4, <2>1
  <2>2. CASE c.last = b /\ n # b
    <3>1. h[n] \cap S = {b}
      BY <1>1, <1>3, <2>2
    <3> QED BY <1>3, <1>4, <2>2, <3>1
  <2> QED BY <1>5, <2>1, <2>2
<1>7. ASSUME NEW x \in R
      PROVE  IF (h[x] \cap R) \cup {x} = R THEN d.bfd[x].next = d.last
                ELSE h[d.bfd[x].next] \cap R = (h[x] \cap R) \cup {x}
  <2>0. /\ x \in S /\ x # b /\ n # b
        /\ IF (h[x] \cap S) \cup {x} = S THEN c.bfd[x].next = c.last
             ELSE h[c.bfd[x].next] \cap S = (h[x] \cap S) \cup {x}
    BY <1>1, <1>5, <1>7
  <2>1. CASE c.bfd[x].next = b
    <3>1. d.bfd[x].next = n
      BY <1>4, <2>1
    <3>2. CASE c.last = b
      <4>1. (h[x] \cap S) \cup {x} = S
        BY <1>1, <2>0, <2>1, <3>2
      <4>2. (h[x] \cap R) \cup {x} = R
        BY <2>0, <4>1
      <4> QED BY <1>4, <2>0, <3>1, <3>2, <4>2
    <3>3. CASE c.last # b
      <4>1. h[b] \cap S = (h[x] \cap S) \cup {x}
        BY <2>0, <2>1, <3>3
      <4>2. h[b] \cap S = (h[x] \cap R) \cup {x}
        BY <1>1, <2>0, <4>1
      <4>3. CASE (h[b] \cap S) \cup {b} = S
        <5>1. (h[x] \cap R) \cup {x} = R
          BY <1>1, <4>2, <4>3
        <5> QED BY <1>3, <1>4, <3>1, <3>3, <4>3, <5>1
      <4>4. CASE (h[b] \cap S) \cup {b} # S
        <5>1. h[n] \cap S = (h[b] \cap S) \cup {b}
          BY <1>3, <4>4
        <5>2. h[n] \cap R = (h[x] \cap R) \cup {x}
          BY <1>1, <4>2, <5>1
        <5>3. (h[x] \cap R) \cup {x} # R
          BY <4>2, <4>4
        <5> QED BY <3>1, <5>2, <5>3
      <4> QED BY <4>3, <4>4
    <3> QED BY <3>2, <3>3
  <2>2. CASE c.bfd[x].next # b
    <3>1. d.bfd[x].next = c.bfd[x].next /\ c.bfd[x].next \in R
      BY <1>2, <1>4, <1>7, <2>0, <2>2
    <3>2. CASE (h[x] \cap S) \cup {x} = S
      <4>1. (h[x] \cap R) \cup {x} = R
        BY <2>0, <3>2
      <4> QED BY <1>4, <2>0, <2>2, <3>1, <3>2, <4>1
    <3>3. CASE (h[x] \cap S) \cup {x} # S
      <4>1. h[c.bfd[x].next] \cap S = (h[x] \cap S) \cup {x}
        BY <2>0, <3>3
      <4>2. h[c.bfd[x].next] \cap R = (h[x] \cap R) \cup {x}
        BY <2>0, <4>1
      <4>3. (h[x] \cap R) \cup {x} # R
        BY <1>1, <3>1, <4>2
      <4> QED BY <3>1, <4>2, <4>3
    <3> QED BY <3>2, <3>3
  <2> QED BY <2>1, <2>2
<1>8. R \subseteq DOMAIN h /\ (\A x \in R : x \notin h[x]) /\ \A a, x \in R : a # x => a \in h[x] \/ x \in h[a]
  BY <1>1
<1> HIDE DEF R
<1>9. Ordered(d, R, h)
  BY <1>6, <1>7, <1>8 DEF Ordered
<1> QED BY <1>9 DEF R

\* A ring with b before the first.
LEMMA OrderWith ==
  ASSUME NEW c, NEW S, Links(c, S), c.last \in S \cup {"NULL"}, NEW b, b \notin S, NEW h,
         Ordered(c, S, h), "NULL" \notin S, NEW d, d.last = b, PutFirst(c, d, S, b)
  PROVE  Ordered(d, S \cup {b}, Used(h, b))
<1> DEFINE R == S \cup {b}
           g == Used(h, b)
<1>1. /\ S \subseteq DOMAIN h /\ (S # {} => c.last \in S /\ h[c.last] \cap S = {})
      /\ \A x \in S : x \notin h[x]
      /\ \A a, x \in S : a # x => a \in h[x] \/ x \in h[a]
      /\ \A x \in S : IF (h[x] \cap S) \cup {x} = S THEN c.bfd[x].next = c.last
                        ELSE h[c.bfd[x].next] \cap S = (h[x] \cap S) \cup {x}
  BY DEF Ordered
<1>2. g[b] = {} /\ R \subseteq DOMAIN g /\ \A x \in S : x # b /\ g[x] = h[x] \cup {b}
  BY <1>1 DEF Used
<1> HIDE DEF g
<1>3. (\A x \in R : x \notin g[x]) /\ \A a, x \in R : a # x => a \in g[x] \/ x \in g[a]
  BY <1>1, <1>2
<1>4. /\ d.bfd[b].next = IF c.last = "NULL" THEN b ELSE c.last
      /\ \A x \in S : d.bfd[x].next = IF c.bfd[x].next = c.last THEN b ELSE c.bfd[x].next
  BY DEF PutFirst
<1>5. \A x \in S : c.bfd[x].next \in S
  BY DEF Links
<1>6. IF (g[b] \cap R) \cup {b} = R THEN d.bfd[b].next = b
        ELSE g[d.bfd[b].next] \cap R = (g[b] \cap R) \cup {b}
  <2>1. CASE S = {}
    BY <1>2, <1>4, <2>1
  <2>2. CASE S # {}
    <3>1. c.last \in S /\ c.last # "NULL" /\ d.bfd[b].next = c.last
      BY <1>1, <1>4, <2>2
    <3>2. g[c.last] \cap R = {b}
      BY <1>1, <1>2, <3>1
    <3>3. (g[b] \cap R) \cup {b} = {b} /\ R # {b}
      BY <1>2, <2>2
    <3> QED BY <3>1, <3>2, <3>3
  <2> QED BY <2>1, <2>2
<1>7. ASSUME NEW x \in S
      PROVE  IF (g[x] \cap R) \cup {x} = R THEN d.bfd[x].next = b
               ELSE g[d.bfd[x].next] \cap R = (g[x] \cap R) \cup {x}
  <2>1. x # b /\ g[x] \cap R = (h[x] \cap S) \cup {b}
    BY <1>2
  <2>2. CASE (h[x] \cap S) \cup {x} = S
    BY <1>1, <1>4, <2>1, <2>2
  <2>3. CASE (h[x] \cap S) \cup {x} # S
    <3> DEFINE m == c.bfd[x].next
    <3>1. m \in S /\ h[m] \cap S = (h[x] \cap S) \cup {x}
      BY <1>1, <1>5, <2>3
    <3>2. d.bfd[x].next = m
      BY <1>1, <1>4, <3>1
    <3> HIDE DEF m
    <3>3. g[m] \cap R = (g[x] \cap R) \cup {x}
      BY <1>2, <2>1, <3>1
    <3>4. (g[x] \cap R) \cup {x} # R
      BY <2>1, <2>3
    <3> QED BY <3>2, <3>3, <3>4
  <2> QED BY <2>2, <2>3
<1>8. d.last \in R /\ g[d.last] \cap R = {}
  BY <1>2
<1>9. Ordered(d, R, g)
  <2>1. \A x \in R : IF (g[x] \cap R) \cup {x} = R THEN d.bfd[x].next = d.last
               ELSE g[d.bfd[x].next] \cap R = (g[x] \cap R) \cup {x}
    BY <1>6, <1>7
  <2> HIDE DEF R
  <2> QED BY <1>2, <1>3, <1>8, <2>1 DEF Ordered
<1> QED BY <1>9 DEF g

\* The first BFD of the ring is looked up once more.
LEMMA OrderFirst ==
  ASSUME NEW c, NEW S, NEW h, Ordered(c, S, h), Links(c, S), c.last \in S
  PROVE  Ordered(c, S, Used(h, c.last))
<1> DEFINE b == c.last
           g == Used(h, b)
<1>1. /\ S \subseteq DOMAIN h /\ h[b] \cap S = {}
      /\ \A x \in S : x \notin h[x]
      /\ \A a, x \in S : a # x => a \in h[x] \/ x \in h[a]
      /\ \A x \in S : IF (h[x] \cap S) \cup {x} = S THEN c.bfd[x].next = b
                        ELSE h[c.bfd[x].next] \cap S = (h[x] \cap S) \cup {x}
  BY DEF Ordered
<1>2. g[b] = {} /\ S \subseteq DOMAIN g /\ \A x \in S : x # b => g[x] = h[x] \cup {b}
  BY <1>1 DEF Used
<1>3. b = c.last /\ b \in S
  OBVIOUS
<1> HIDE DEF g, b
<1>4. \A x \in S : g[x] \cap S = h[x] \cap S
  <2> SUFFICES ASSUME NEW x \in S PROVE g[x] \cap S = h[x] \cap S
    OBVIOUS
  <2>1. CASE x = b
    BY <1>1, <1>2, <2>1
  <2>2. CASE x # b
    BY <1>1, <1>2, <1>3, <2>2
  <2> QED BY <2>1, <2>2
<1>5. \A x \in S : c.bfd[x].next \in S
  BY DEF Links
<1>6. \A x \in S : x \notin g[x]
  BY <1>1, <1>2
<1>7. \A a, x \in S : a # x => a \in g[x] \/ x \in g[a]
  BY <1>1, <1>4
<1>8. \A x \in S : IF (g[x] \cap S) \cup {x} = S THEN c.bfd[x].next = b
                     ELSE g[c.bfd[x].next] \cap S = (g[x] \cap S) \cup {x}
  BY <1>1, <1>4, <1>5
<1>9. Ordered(c, S, g)
  BY <1>2, <1>3, <1>6, <1>7, <1>8 DEF Ordered
<1> QED BY <1>9 DEF g, b

\* How many BFDs of the ring are before b.
LEMMA Ranks ==
  ASSUME NEW S, S \subseteq BFDs, NEW h, NEW b \in S, b \notin h[b]
  PROVE  /\ Cardinality(S) \in Nat /\ Cardinality(h[b] \cap S) \in 0..(Cardinality(S) - 1)
         /\ Cardinality(S) <= Cardinality(BFDs) /\ Cardinality(BFDs) \in Nat
         /\ Cardinality(h[b] \cap S) = Cardinality(S) - 1 => (h[b] \cap S) \cup {b} = S
         /\ Cardinality((h[b] \cap S) \cup {b}) = Cardinality(h[b] \cap S) + 1
<1> DEFINE L == h[b] \cap S
<1>1. IsFiniteSet(S) /\ IsFiniteSet(L) /\ Cardinality(S) <= Cardinality(BFDs) /\ IsFiniteSet(BFDs)
  BY BfdCacheAssumption, FS_Subset
<1>2. Cardinality(S) \in Nat /\ Cardinality(L) \in Nat /\ Cardinality(BFDs) \in Nat
  BY <1>1, FS_CardinalityType
<1>3. b \notin L /\ L \cup {b} \subseteq S /\ IsFiniteSet(L \cup {b})
  BY <1>1, FS_AddElement
<1>4. Cardinality(L \cup {b}) = Cardinality(L) + 1
  BY <1>1, <1>3, FS_AddElement
<1>5. Cardinality(L \cup {b}) <= Cardinality(S) /\ (Cardinality(L \cup {b}) = Cardinality(S) => L \cup {b} = S)
  BY <1>1, <1>3, FS_Subset
<1> HIDE DEF L
<1>6. Cardinality(L) = Cardinality(S) - 1 => L \cup {b} = S
  BY <1>2, <1>4, <1>5
<1>7. Cardinality(L) \in 0..(Cardinality(S) - 1)
  BY <1>2, <1>4, <1>5
<1> QED BY <1>1, <1>2, <1>4, <1>6, <1>7 DEF L

\* The search of close_one comes to the BFDs in the order of h, the oldest one first: m steps
\* back is the one with all but m of the others before it.
LEMMA BackwardsOrder ==
  ASSUME NEW c, NEW S, Ring(c, S), c.last \in S, NEW h, Ordered(c, S, h)
  PROVE  \A m \in Nat : \A b \in S : Cardinality(h[b] \cap S) = Cardinality(S) - 1 - m =>
           /\ Backwards(c)[m] = b
           /\ \A j \in 0..m : /\ Backwards(c)[j] \in S
                              /\ Cardinality(h[Backwards(c)[j]] \cap S) = Cardinality(S) - 1 - j
<1> DEFINE w == Backwards(c)
           r(b) == Cardinality(h[b] \cap S)
           n == Cardinality(S)
           Is(m) == \A b \in S : r(b) = n - 1 - m =>
                      w[m] = b /\ \A j \in 0..m : w[j] \in S /\ r(w[j]) = n - 1 - j
<1>1. /\ S \subseteq BFDs /\ Links(c, S) /\ \A b \in S : b \notin h[b]
      /\ \A b \in S : IF (h[b] \cap S) \cup {b} = S THEN c.bfd[b].next = c.last
                        ELSE h[c.bfd[b].next] \cap S = (h[b] \cap S) \cup {b}
  BY DEF Ring, Ordered
<1>2. w[0] = c.bfd[c.last].prev /\ \A k \in Nat : w[k + 1] = c.bfd[w[k]].prev
  BY <1>1, BackwardsGoes
<1> HIDE DEF w
<1>3. \A b \in S : /\ c.bfd[b].next \in S /\ c.bfd[c.bfd[b].next].prev = b
  BY <1>1 DEF Links
<1>4. \A b \in S : /\ n \in Nat /\ r(b) \in 0..(n - 1) /\ (r(b) = n - 1 => (h[b] \cap S) \cup {b} = S)
                   /\ Cardinality((h[b] \cap S) \cup {b}) = r(b) + 1
  BY <1>1, Ranks
<1>5. \A b \in S : IF r(b) = n - 1 THEN c.bfd[b].next = c.last
                     ELSE r(c.bfd[b].next) = r(b) + 1
  <2> SUFFICES ASSUME NEW b \in S
               PROVE  IF r(b) = n - 1 THEN c.bfd[b].next = c.last ELSE r(c.bfd[b].next) = r(b) + 1
    OBVIOUS
  <2>1. CASE (h[b] \cap S) \cup {b} = S
    <3>1. n = r(b) + 1 /\ r(b) \in 0..(n - 1) /\ n \in Nat
      BY <1>4, <2>1
    <3>2. r(b) = n - 1
      BY <3>1
    <3> QED BY <1>1, <2>1, <3>2
  <2>2. CASE (h[b] \cap S) \cup {b} # S
    <3>1. r(b) # n - 1
      BY <1>4, <2>2
    <3>2. h[c.bfd[b].next] \cap S = (h[b] \cap S) \cup {b}
      BY <1>1, <2>2
    <3>3. r(c.bfd[b].next) = r(b) + 1
      BY <1>4, <3>2
    <3> QED BY <3>1, <3>3
  <2> QED BY <2>1, <2>2
<1>6. \A b \in S : n \in Nat /\ r(b) \in 0..(n - 1)
  BY <1>4
<1> HIDE DEF r, n
<1>7. Is(0)
  <2> SUFFICES ASSUME NEW b \in S, r(b) = n - 1 - 0
               PROVE  w[0] = b /\ \A j \in 0..0 : w[j] \in S /\ r(w[j]) = n - 1 - j
    OBVIOUS
  <2>1. r(b) = n - 1
    BY <1>6
  <2>2. w[0] = b
    BY <1>2, <1>3, <1>5, <2>1
  <2> QED BY <2>2
<1>8. ASSUME NEW m \in Nat, Is(m) PROVE Is(m + 1)
  <2> SUFFICES ASSUME NEW b \in S, r(b) = n - 1 - (m + 1)
               PROVE  w[m + 1] = b /\ \A j \in 0..(m + 1) : w[j] \in S /\ r(w[j]) = n - 1 - j
    OBVIOUS
  <2> DEFINE a == c.bfd[b].next
  <2>1. a \in S /\ c.bfd[a].prev = b
    BY <1>3
  <2>2. r(a) = n - 1 - m
    BY <1>5, <1>6
  <2> HIDE DEF a
  <2>3. w[m] = a /\ \A j \in 0..m : w[j] \in S /\ r(w[j]) = n - 1 - j
    BY <1>8, <2>1, <2>2
  <2>4. w[m + 1] = b
    BY <1>2, <2>1, <2>3
  <2>5. \A j \in 0..(m + 1) : j \in 0..m \/ j = m + 1
    OBVIOUS
  <2> QED BY <2>3, <2>4, <2>5
<1> DEFINE T == {m \in Nat : ~Is(m)}
<1>9. T = {}
  <2> HIDE DEF Is
  <2>1. SUFFICES ASSUME T # {} PROVE FALSE
    OBVIOUS
  <2>2. PICK m \in T : \A j \in T : m <= j
    BY <2>1, LeastNumber
  <2>3. m \in Nat /\ ~Is(m)
    BY <2>2
  <2>4. m # 0
    BY <1>7, <2>3
  <2>5. m - 1 \in Nat /\ m - 1 \notin T /\ (m - 1) + 1 = m
    BY <2>2, <2>3, <2>4
  <2>6. Is(m - 1)
    BY <2>5
  <2>7. Is((m - 1) + 1)
    BY <1>8, <2>5, <2>6
  <2> QED BY <2>3, <2>5, <2>7
<1>10. \A m \in Nat : Is(m)
  <2> HIDE DEF Is
  <2> QED BY <1>9
<1> QED BY <1>10 DEF w, r, n

\* The search finds a BFD of the ring that may be closed, if there is one.
LEMMA SearchFinds ==
  ASSUME NEW c, NEW S, Ring(c, S), NEW h, Ordered(c, S, h), NEW b \in S, c.bfd[b].cacheable
  PROVE  c.last # "NULL" /\ Victims(c) # {}
<1> DEFINE w == Backwards(c)
           r(x) == Cardinality(h[x] \cap S)
           n == Cardinality(S)
           k == n - 1 - r(b)
<1>1. S \subseteq BFDs /\ c.last \in S /\ h[c.last] \cap S = {} /\ \A x \in S : x \notin h[x]
  BY DEF Ring, Ordered
<1>2. n \in Nat /\ r(b) \in 0..(n - 1) /\ n <= Cardinality(BFDs) /\ Cardinality(BFDs) \in Nat
  BY <1>1, Ranks
<1>3. k \in 0..Cardinality(BFDs) /\ k \in Nat /\ k <= n - 1 /\ r(b) = n - 1 - k
  <2> HIDE DEF r, n
  <2> QED BY <1>2
<1>4. w[k] = b /\ \A j \in 0..k : r(w[j]) = n - 1 - j
  <2> HIDE DEF w, k
  <2> QED BY <1>1, <1>3, BackwardsOrder DEF w
<1>5. r(c.last) = 0
  BY <1>1, FS_EmptySet
<1> HIDE DEF w, r, n, k
<1>6. \A j \in 0..(k - 1) : w[j] # c.last
  <2> SUFFICES ASSUME NEW j \in 0..(k - 1), w[j] = c.last PROVE FALSE
    OBVIOUS
  <2>1. j \in 0..k /\ j < n - 1
    BY <1>2, <1>3
  <2>2. 0 = n - 1 - j
    BY <1>4, <1>5, <2>1
  <2> QED BY <1>2, <2>1, <2>2
<1>7. k \in Victims(c)
  BY <1>3, <1>4, <1>6 DEF Victims, w
<1> QED BY <1>1, <1>7, BfdCacheAssumption

\* There is room for one more file.
HasRoom(c, S, o) == o.ok /\ (\E h : Tidy(c, S, h)) => Limited(o.c.open_files + 1)

\* There is, when the cache is not full, and when there is no file that may be closed.
LEMMA RoomLeft ==
  ASSUME NEW c, NEW S, Ring(c, S),
         \/ c.open_files < BFD_CACHE_MAX_OPEN /\ c.open_files \in Int
         \/ c.last = "NULL" \/ Victims(c) = {}
  PROVE  HasRoom(c, S, Ok(c))
<1>1. CASE c.open_files < BFD_CACHE_MAX_OPEN /\ c.open_files \in Int
  BY <1>1, BfdCacheAssumption DEF HasRoom, Limited, Ok
<1>2. CASE c.last = "NULL" \/ Victims(c) = {}
  <2> SUFFICES ASSUME NEW h, Tidy(c, S, h) PROVE Limited(c.open_files + 1)
    BY DEF HasRoom, Ok
  <2>1. S \subseteq Given
    <3>1. \A b \in S : ~c.bfd[b].cacheable
      BY <1>2, SearchFinds DEF Tidy
    <3> QED BY <3>1 DEF Tidy, Named, Given, Ring
  <2>2. IsFiniteSet(Given) /\ Given \subseteq BFDs
    BY BfdCacheAssumption, FS_Subset DEF Given
  <2>3. Cardinality(S) <= Cardinality(Given) /\ Cardinality(S) \in Nat /\ Cardinality(Given) \in Nat
    BY <2>1, <2>2, FS_Subset, FS_CardinalityType
  <2>4. c.open_files = Cardinality(S)
    BY DEF Ring
  <2> QED BY <2>3, <2>4 DEF Limited
<1> QED BY <1>1, <1>2

-----------------------------------------------------------------------------
(* Closing files.                                                          *)

\* The stream is gone, and the rest as it was.
Closed(r, q) ==
  /\ q.live = r.live /\ q.stream = r.stream /\ q.cacheable = r.cacheable /\ q.where = r.where
  /\ q.opened_once = r.opened_once /\ ~q.iostream /\ q.pending = {}

\* fclose leaves the ring alone, and all output when it succeeds.
LEMMA Fcloses ==
  ASSUME NEW c \in Caches, NEW b \in BFDs, NEW o \in fclose(c, b)
  PROVE  /\ o.ok \in BOOLEAN /\ o.c \in Caches /\ o.c.last = c.last
         /\ o.c.open_files = c.open_files
         /\ o.c.bfd = [c.bfd EXCEPT ![b].pending = {}]
         /\ o = [c |-> o.c, ok |-> o.ok]
         /\ o.ok => \A y \in BFDs : Output(o.c, y) = Output(c, y)
         /\ world # "failing" => o.ok
<1>1. b \in All /\ c.bfd \in [All -> Record] /\ c.disk \in [BFDs -> SUBSET (0..Size)]
  BY DEF All, Caches
<1>2. PICK D \in SUBSET (0..Size) :
        /\ o.c = [c EXCEPT !.disk[b] = D, !.bfd[b].pending = {}] /\ o.ok \in BOOLEAN
        /\ o = [c |-> o.c, ok |-> o.ok]
        /\ o.ok => D = c.disk[b] \cup c.bfd[b].pending
        /\ world # "failing" => o.ok
  <2>1. c.disk[b] \in SUBSET (0..Size) /\ c.bfd[b].pending \in SUBSET (0..Size)
    BY <1>1 DEF Record
  <2> DEFINE shut(D) == [c EXCEPT !.disk[b] = D, !.bfd[b].pending = {}]
  <2>2. CASE o = Ok(shut(c.disk[b] \cup c.bfd[b].pending))
    <3>1. /\ o.c = shut(c.disk[b] \cup c.bfd[b].pending) /\ o.ok = TRUE
          /\ o = [c |-> o.c, ok |-> o.ok]
      BY <2>2 DEF Ok
    <3> DEFINE E == c.disk[b] \cup c.bfd[b].pending
    <3>2. E \in SUBSET (0..Size)
      BY <2>1
    <3>3. o.c = [c EXCEPT !.disk[b] = E, !.bfd[b].pending = {}] /\ o.ok /\ E = c.disk[b] \cup c.bfd[b].pending
      BY <3>1
    <3> HIDE DEF E
    <3> QED BY <3>1, <3>2, <3>3
  <2>3. CASE o = Bad(shut(c.disk[b])) /\ world = "failing"
    <3>1. /\ o.c = shut(c.disk[b]) /\ o.ok = FALSE
          /\ o = [c |-> o.c, ok |-> o.ok]
      BY <2>3 DEF Bad
    <3> QED BY <2>1, <2>3, <3>1
  <2> QED BY <2>2, <2>3 DEF fclose
<1> DEFINE f == [c.bfd EXCEPT ![b].pending = {}]
           g == [c.disk EXCEPT ![b] = D]
<1>3. o.c = [c EXCEPT !.bfd = f, !.disk = g]
  BY <1>1, <1>2 DEF Caches
<1>4. f \in [All -> Record] /\ g \in [BFDs -> SUBSET (0..Size)]
  <2>1. [c.bfd[b] EXCEPT !.pending = {}] \in Record
    BY <1>1 DEF Record
  <2> QED BY <1>1, <2>1
<1>5. \A y \in BFDs : f[y].pending = (IF y = b THEN {} ELSE c.bfd[y].pending)
  BY <1>1 DEF All, Record
<1> HIDE DEF f
<1>6. o.c \in Caches /\ o.c.last = c.last /\ o.c.open_files = c.open_files /\ o.c.bfd = f
      /\ o.c.disk = g
  BY <1>3, <1>4 DEF Caches
<1>7. o.ok => \A y \in BFDs : Output(o.c, y) = Output(c, y)
  BY <1>1, <1>2, <1>5, <1>6 DEF Output
<1> QED BY <1>2, <1>6, <1>7 DEF f

\* Only the stream of b has gone.
Gone(f, g, b) ==
  /\ g \in [All -> Record]
  /\ \A x \in All : g[x].next = f[x].next /\ g[x].prev = f[x].prev
  /\ \A x \in All : x # b => g[x] = f[x]
  /\ g[b].live = f[b].live /\ g[b].stream = f[b].stream /\ g[b].pending = f[b].pending
  /\ g[b].cacheable = f[b].cacheable /\ g[b].where = f[b].where
  /\ g[b].opened_once = f[b].opened_once /\ g[b].iostream = FALSE

LEMMA StreamGone ==
  ASSUME NEW f \in [All -> Record], NEW b \in All
  PROVE  Gone(f, [f EXCEPT ![b].iostream = FALSE], b)
<1> DEFINE r == [f[b] EXCEPT !.iostream = FALSE]
           g == [f EXCEPT ![b].iostream = FALSE]
<1>1. /\ r \in Record /\ r.next = f[b].next /\ r.prev = f[b].prev
      /\ r.live = f[b].live /\ r.stream = f[b].stream /\ r.pending = f[b].pending
      /\ r.cacheable = f[b].cacheable /\ r.where = f[b].where
      /\ r.opened_once = f[b].opened_once /\ r.iostream = FALSE
  BY DEF Record
<1>2. g = [f EXCEPT ![b] = r]
  OBVIOUS
<1> HIDE DEF r
<1>3. Gone(f, g, b)
  BY <1>1, <1>2 DEF Gone
<1> QED BY <1>3

\* A smaller ring has one open file less.
LEMMA OneLess ==
  ASSUME NEW S, S \subseteq BFDs, NEW b \in S
  PROVE  Cardinality(S \ {b}) = Cardinality(S) - 1
BY BfdCacheAssumption, FS_Subset, FS_RemoveElement
LEMMA OneMore ==
  ASSUME NEW S, S \subseteq BFDs, NEW b \in BFDs \ S
  PROVE  Cardinality(S \cup {b}) = Cardinality(S) + 1
BY BfdCacheAssumption, FS_Subset, FS_AddElement

\* bfd_cache_delete takes b off the ring and out of the count.
LEMMA Deletes ==
  ASSUME NEW c \in Caches, NEW S, Ring(c, S), NEW b \in S, NEW o \in bfd_cache_delete(c, b)
  PROVE  /\ o.ok \in BOOLEAN /\ o.c \in Caches /\ Ring(o.c, S \ {b})
         /\ \A x \in All : x # b => Alike(c.bfd[x], o.c.bfd[x])
         /\ Closed(c.bfd[b], o.c.bfd[b])
         /\ o.ok => \A y \in BFDs : Output(o.c, y) = Output(c, y)
         /\ world # "failing" => o.ok
         /\ Keeps(c, S, o.c, S \ {b}) /\ o.c.open_files = c.open_files - 1
<1>1. b \in BFDs /\ b \in All /\ c.bfd \in [All -> Record] /\ S \subseteq All /\ S \subseteq BFDs
      /\ c.open_files = Cardinality(S)
  BY DEF Ring, All, Caches
<1>2. PICK q \in fclose(c, b) :
        o = [q EXCEPT !.c = [snip(q.c, b) EXCEPT !.bfd[b].iostream = FALSE, !.open_files = @ - 1]]
  BY DEF bfd_cache_delete
<1>3. /\ q.ok \in BOOLEAN /\ q.c \in Caches /\ q.c.last = c.last
      /\ q.c.open_files = c.open_files /\ q.c.bfd = [c.bfd EXCEPT ![b].pending = {}]
      /\ q = [c |-> q.c, ok |-> q.ok]
      /\ q.ok => \A y \in BFDs : Output(q.c, y) = Output(c, y)
      /\ world # "failing" => q.ok
  BY <1>1, Fcloses
<1>4. /\ \A x \in All : q.c.bfd[x].next = c.bfd[x].next /\ q.c.bfd[x].prev = c.bfd[x].prev
      /\ \A x \in All : x # b => q.c.bfd[x] = c.bfd[x]
      /\ q.c.bfd[b].live = c.bfd[b].live /\ q.c.bfd[b].stream = c.bfd[b].stream
      /\ q.c.bfd[b].pending = {} /\ q.c.bfd[b].cacheable = c.bfd[b].cacheable
      /\ q.c.bfd[b].where = c.bfd[b].where /\ q.c.bfd[b].opened_once = c.bfd[b].opened_once
  BY <1>1, <1>3 DEF Record
<1>5. Ring(q.c, S)
  BY <1>1, <1>3, <1>4, SameRing
<1> DEFINE e == snip(q.c, b)
           g == [e.bfd EXCEPT ![b].iostream = FALSE]
<1>6. /\ e \in Caches /\ e.last \in (S \ {b}) \cup {"NULL"} /\ Links(e, S \ {b})
      /\ OnlyLinks(q.c, e) /\ e.open_files = c.open_files /\ TakenOut(q.c, e, S, b)
  BY <1>3, <1>5, Snips
<1> HIDE DEF e
<1>7. o.ok = q.ok /\ o.c = [e EXCEPT !.bfd = g, !.open_files = @ - 1]
  BY <1>1, <1>2, <1>3, <1>6 DEF e, Caches
<1>8. e.bfd \in [All -> Record]
  BY <1>6 DEF Caches
<1>9. Gone(e.bfd, g, b)
  BY <1>1, <1>8, StreamGone
<1> HIDE DEF g
<1>10. /\ o.c \in Caches /\ o.c.bfd = g /\ o.c.last = e.last /\ o.c.disk = e.disk
       /\ o.c.open_files = c.open_files - 1
  <2>1. g \in [All -> Record] /\ e.open_files \in Int /\ e.open_files - 1 \in Int
    BY <1>6, <1>9 DEF Caches, Gone
  <2> QED BY <1>6, <1>7, <2>1 DEF Caches
<1>11. Ring(o.c, S \ {b})
  <2>1. Links(o.c, S \ {b})
    BY <1>1, <1>6, <1>9, <1>10 DEF Links, Gone
  <2>2. Cardinality(S \ {b}) = c.open_files - 1
    BY <1>1, OneLess
  <2> QED BY <1>1, <1>6, <1>10, <2>1, <2>2 DEF Ring
<1>12. \A x \in All : x # b => Alike(c.bfd[x], o.c.bfd[x])
  BY <1>4, <1>6, <1>9, <1>10 DEF OnlyLinks, Alike, Gone
<1>13. Closed(c.bfd[b], o.c.bfd[b])
  BY <1>1, <1>4, <1>6, <1>9, <1>10 DEF OnlyLinks, Alike, Closed, Gone
<1>14. \A y \in BFDs : Output(o.c, y) = Output(q.c, y)
  <2>1. \A y \in All : o.c.bfd[y].pending = q.c.bfd[y].pending
    BY <1>1, <1>6, <1>9, <1>10 DEF OnlyLinks, Alike, Gone
  <2> QED BY <1>6, <1>10, <2>1 DEF OnlyLinks, Output, All
<1>15. Keeps(c, S, o.c, S \ {b})
  <2> SUFFICES ASSUME NEW h, Tidy(c, S, h) PROVE Tidy(o.c, S \ {b}, h)
    BY DEF Keeps
  <2>1. TakenOut(c, o.c, S, b)
    <3>1. \A x \in S : q.c.bfd[x].next = c.bfd[x].next
      BY <1>1, <1>4
    <3>2. \A x \in S : o.c.bfd[x].next = e.bfd[x].next
      BY <1>1, <1>9, <1>10 DEF Gone
    <3>3. q.c.last = c.last /\ o.c.last = e.last
      BY <1>3, <1>10
    <3> QED BY <1>6, <3>1, <3>2, <3>3 DEF TakenOut
  <2>2. Ordered(c, S, h) /\ Named(c, S) /\ Limited(c.open_files)
    BY DEF Tidy
  <2>3. Ordered(o.c, S \ {b}, h)
    <3>1. c.last \in S
      BY <2>2 DEF Ordered
    <3>2. Links(c, S)
      BY DEF Ring
    <3> QED BY <2>1, <2>2, <3>1, <3>2, OrderWithout
  <2>4. Named(o.c, S \ {b})
    BY <1>1, <1>12, <2>2 DEF Named, Alike
  <2>5. Limited(o.c.open_files)
    <3>1. Cardinality(Given) \in Nat
      BY BfdCacheAssumption, FS_Subset, FS_CardinalityType DEF Given
    <3>2. c.open_files \in Int
      BY DEF Caches
    <3> QED BY <1>10, <2>2, <3>1, <3>2, BfdCacheAssumption DEF Limited
  <2> QED BY <2>3, <2>4, <2>5 DEF Tidy
<1> QED BY <1>3, <1>7, <1>10, <1>11, <1>12, <1>13, <1>14, <1>15

\* What happens to the records and to the ring S when room is made.
Shrinks(c, S, o) ==
  /\ o.ok \in BOOLEAN /\ o.c \in Caches /\ Ring(o.c, S \cap Streams(o.c))
  /\ \A x \in All : Evicted(c.bfd[x], o.c.bfd[x])
  /\ \A x \in All \ S : Alike(c.bfd[x], o.c.bfd[x])
  /\ o.ok => \A y \in BFDs : Output(o.c, y) = Output(c, y)
  /\ world # "failing" => o.ok
  /\ Keeps(c, S, o.c, S \cap Streams(o.c)) /\ HasRoom(c, S, o)

LEMMA NothingClosed ==
  ASSUME NEW c \in Caches, NEW S, Ring(c, S), S \subseteq Streams(c), HasRoom(c, S, Ok(c))
  PROVE  Shrinks(c, S, Ok(c))
<1> DEFINE o == Ok(c)
<1>1. o.c = c /\ o.ok = TRUE
  BY DEF Ok
<1>2. \A x \in All : Evicted(c.bfd[x], c.bfd[x]) /\ Alike(c.bfd[x], c.bfd[x])
  BY DEF Evicted, Alike
<1>3. S \cap Streams(c) = S
  OBVIOUS
<1>4. Shrinks(c, S, o)
  <2>1. HasRoom(c, S, o) /\ Keeps(c, S, c, S)
    BY DEF Keeps
  <2> HIDE DEF o
  <2> QED BY <1>1, <1>2, <1>3, <2>1 DEF Shrinks
<1> QED BY <1>4

\* close_one evicts at most one BFD, one of the ring.
LEMMA ClosesOne ==
  ASSUME NEW c \in Caches, NEW S, Ring(c, S), S \subseteq Streams(c), NEW o \in close_one(c)
  PROVE  Shrinks(c, S, o)
<1>1. CASE (c.last = "NULL" \/ Victims(c) = {}) /\ o = Ok(c)
  BY <1>1, RoomLeft, NothingClosed
<1>2. CASE c.last # "NULL" /\ Victims(c) # {}
  <2> DEFINE k == Min(Victims(c))
             b == Backwards(c)[k]
             e == [c EXCEPT !.bfd[b].where = c.bfd[b].stream]
  <2>1. k \in Nat
    <3>1. Victims(c) \subseteq Nat
      BY BfdCacheAssumption, FS_CardinalityType DEF Victims
    <3>2. \E x \in Victims(c) : \A y \in Victims(c) : x <= y
      BY <1>2, <3>1, LeastNumber
    <3>3. k \in Victims(c)
      <4> HIDE DEF Victims
      <4> QED BY <3>2 DEF Min
    <3> QED BY <3>1, <3>3
  <2>2. b \in S
    <3>1. Links(c, S) /\ c.last \in S
      BY <1>2 DEF Ring
    <3> HIDE DEF k
    <3> QED BY <2>1, <3>1, BackwardsInRing
  <2>3. o \in bfd_cache_delete(e, b)
    BY <1>2 DEF close_one
  <2> HIDE DEF k, b
  <2>4. b \in BFDs /\ b \in All /\ c.bfd \in [All -> Record] /\ S \subseteq All
        /\ c.bfd[b].iostream = TRUE
    BY <2>2 DEF Ring, All, Caches, Streams, Record
  <2> DEFINE r == [c.bfd[b] EXCEPT !.where = c.bfd[b].stream]
  <2>5. /\ r \in Record /\ r.next = c.bfd[b].next /\ r.prev = c.bfd[b].prev /\ r.live = c.bfd[b].live
        /\ r.iostream = TRUE /\ r.stream = c.bfd[b].stream /\ r.pending = c.bfd[b].pending
        /\ r.cacheable = c.bfd[b].cacheable /\ r.where = c.bfd[b].stream
        /\ r.opened_once = c.bfd[b].opened_once
    <3>1. c.bfd[b] \in Record /\ c.bfd[b].stream \in (-Size)..Size
      BY <2>4, BfdCacheAssumption DEF Record
    <3> QED BY <2>4, <3>1 DEF Record
  <2>6. e = [c EXCEPT !.bfd = [c.bfd EXCEPT ![b] = r]]
    BY <2>4 DEF Caches
  <2> HIDE DEF r
  <2>7. /\ e \in Caches /\ e.bfd = [c.bfd EXCEPT ![b] = r] /\ e.last = c.last
        /\ e.open_files = c.open_files /\ e.disk = c.disk
    BY <2>4, <2>5, <2>6 DEF Caches
  <2> HIDE DEF e
  <2>8. /\ \A x \in All : e.bfd[x].next = c.bfd[x].next /\ e.bfd[x].prev = c.bfd[x].prev
        /\ \A x \in All : x # b => e.bfd[x] = c.bfd[x]
        /\ e.bfd[b] = r
    BY <2>4, <2>5, <2>7
  <2>9. Ring(e, S)
    BY <2>4, <2>7, <2>8 DEF Ring, Links
  <2>10. /\ o.ok \in BOOLEAN /\ o.c \in Caches /\ Ring(o.c, S \ {b})
         /\ \A x \in All : x # b => Alike(e.bfd[x], o.c.bfd[x])
         /\ Closed(e.bfd[b], o.c.bfd[b])
         /\ o.ok => \A y \in BFDs : Output(o.c, y) = Output(e, y)
         /\ world # "failing" => o.ok
         /\ Keeps(e, S, o.c, S \ {b}) /\ o.c.open_files = e.open_files - 1
    <3>1. e \in Caches /\ Ring(e, S) /\ b \in S /\ o \in bfd_cache_delete(e, b)
      BY <2>2, <2>3, <2>7, <2>9
    <3> QED BY <3>1, Deletes, SMTT(60)
  <2>11. \A x \in All : x # b => Alike(c.bfd[x], o.c.bfd[x]) /\ Evicted(c.bfd[x], o.c.bfd[x])
    BY <2>8, <2>10 DEF Alike, Evicted
  <2>12. Evicted(c.bfd[b], o.c.bfd[b])
    BY <2>4, <2>5, <2>8, <2>10 DEF Closed, Evicted
  <2>13. \A x \in All : Evicted(c.bfd[x], o.c.bfd[x])
    BY <2>11, <2>12
  <2>14. S \cap Streams(o.c) = S \ {b}
    <3>1. ~o.c.bfd[b].iostream
      BY <2>10 DEF Closed
    <3>2. ASSUME NEW x \in S, x # b PROVE o.c.bfd[x].iostream
      <4>1. x \in All /\ c.bfd[x].iostream
        BY <3>2, <2>4 DEF Streams
      <4> QED BY <2>11, <3>2, <4>1 DEF Alike
    <3> QED BY <2>4, <3>1, <3>2 DEF Streams
  <2>15. \A y \in BFDs : Output(e, y) = Output(c, y)
    BY <2>4, <2>5, <2>7, <2>8 DEF Output, All
  <2>16. \A x \in All \ S : Alike(c.bfd[x], o.c.bfd[x])
    BY <2>2, <2>11
  <2>17. Ring(o.c, S \cap Streams(o.c))
    BY <2>10, <2>14
  <2>18. o.ok => \A y \in BFDs : Output(o.c, y) = Output(c, y)
    BY <2>10, <2>15
  <2>19. Keeps(c, S, o.c, S \cap Streams(o.c))
    <3>1. \A x \in S : e.bfd[x].next = c.bfd[x].next /\ e.bfd[x].cacheable = c.bfd[x].cacheable
      BY <2>4, <2>5, <2>8
    <3>2. Keeps(c, S, e, S)
      BY <2>7, <3>1, SameTidy DEF Ring
    <3> QED BY <2>10, <2>14, <3>2, KeepsAlong
  <2>20. HasRoom(c, S, o)
    <3>1. c.open_files \in Int /\ o.c.open_files + 1 = c.open_files
      BY <2>7, <2>10 DEF Caches
    <3> QED BY <3>1 DEF HasRoom, Tidy
  <2> QED BY <2>10, <2>13, <2>16, <2>17, <2>18, <2>19, <2>20 DEF Shrinks
<1> QED BY <1>1, <1>2 DEF close_one

LEMMA RoomMade ==
  ASSUME NEW c \in Caches, NEW S, Ring(c, S), S \subseteq Streams(c), NEW o \in MakeRoom(c)
  PROVE  Shrinks(c, S, o)
<1>1. c.open_files \in Int /\ BFD_CACHE_MAX_OPEN \in Int
  BY BfdCacheAssumption DEF Caches
<1>2. CASE c.open_files >= BFD_CACHE_MAX_OPEN
  BY <1>2, ClosesOne DEF MakeRoom
<1>3. CASE c.open_files < BFD_CACHE_MAX_OPEN
  <2>1. o = Ok(c)
    BY <1>1, <1>3 DEF MakeRoom
  <2> QED BY <1>1, <1>3, <2>1, NothingClosed, RoomLeft
<1> QED BY <1>1, <1>2, <1>3

-----------------------------------------------------------------------------
(* Opening files.                                                          *)

LEMMA EvictedAlong ==
  ASSUME NEW r, NEW q, NEW t, Evicted(r, q), Evicted(q, t)
  PROVE  Evicted(r, t)
BY DEF Evicted

\* b, which may have a stream already, is put before the others of the ring.
Fronts(c, d, b) ==
  \A h : Tidy(c, Streams(c) \ {b}, h) => Tidy(d, Streams(d), Used(h, b))

\* b, which may have been evicted, is looked up: in the order of the ring it is the first.
Uses(c, d, b) ==
  \A h : Tidy(c, Streams(c), h) => Tidy(d, Streams(d), Used(h, b))

\* The ring with the stream of b in it.
LEMMA Inserted ==
  ASSUME NEW c \in Caches, NEW b \in BFDs, Ring(c, Streams(c) \ {b}), c.bfd[b].iostream = TRUE,
         NEW d, d = [insert(c, b) EXCEPT !.open_files = @ + 1]
  PROVE  /\ d \in Caches /\ Ring(d, Streams(d)) /\ OnlyLinks(c, d)
         /\ Limited(c.open_files + 1) /\ (Direction[b] # "fd" => c.bfd[b].cacheable) => Fronts(c, d, b)
<1> DEFINE S == Streams(c) \ {b}
           e == insert(c, b)
<1>1. b \in BFDs \ S /\ S \subseteq BFDs /\ c.open_files = Cardinality(S) /\ b \in All
  BY DEF Ring, All
<1>2. /\ e \in Caches /\ e.last = b /\ Links(e, S \cup {b}) /\ OnlyLinks(c, e)
      /\ e.open_files = c.open_files /\ PutFirst(c, e, S, b)
  <2>1. c.last \in S \cup {"NULL"} /\ Links(c, S)
    BY DEF Ring
  <2> HIDE DEF S
  <2> QED BY <1>1, <2>1, Inserts
<1> HIDE DEF e
<1>3. Streams(c) = S \cup {b}
  BY <1>1 DEF Streams
<1> HIDE DEF S
<1>4. /\ d \in Caches /\ d.bfd = e.bfd /\ d.last = b /\ d.disk = e.disk
      /\ d.open_files = c.open_files + 1
  <2>1. e.open_files + 1 \in Int
    BY <1>2 DEF Caches
  <2> QED BY <1>2, <2>1 DEF Caches, e
<1>5. Streams(d) = S \cup {b} /\ OnlyLinks(c, d)
  BY <1>2, <1>3, <1>4 DEF OnlyLinks, Alike, Streams
<1>6. Cardinality(S \cup {b}) = c.open_files + 1
  BY <1>1, OneMore
<1>7. Links(d, S \cup {b})
  BY <1>2, <1>4 DEF Links
<1>8. ASSUME Limited(c.open_files + 1), Direction[b] # "fd" => c.bfd[b].cacheable
      PROVE  Fronts(c, d, b)
  <2>1. S = Streams(c) \ {b} /\ Links(c, S) /\ c.last \in S \cup {"NULL"}
    BY DEF S, Ring
  <2> SUFFICES ASSUME NEW h, Tidy(c, S, h) PROVE Tidy(d, Streams(d), Used(h, b))
    BY <2>1 DEF Fronts
  <2>2. PutFirst(c, d, S, b)
    BY <1>2, <1>4 DEF PutFirst
  <2>3. Ordered(d, S \cup {b}, Used(h, b))
    BY <1>1, <1>4, <2>1, <2>2, OrderWith, BfdCacheAssumption DEF Tidy
  <2>4. Named(d, S \cup {b})
    <3>1. \A x \in S \cup {b} : x \in All /\ d.bfd[x].cacheable = c.bfd[x].cacheable
      BY <1>1, <1>5 DEF OnlyLinks, Alike, All
    <3> QED BY <1>8, <3>1 DEF Named, Tidy
  <2> QED BY <1>4, <1>5, <1>8, <2>3, <2>4 DEF Tidy
<1> QED BY <1>1, <1>4, <1>5, <1>6, <1>7, <1>8 DEF Ring

\* b, which has a stream, enters the ring, or there is no room.
Enters(c, b, o) ==
  /\ o.ok \in BOOLEAN /\ o.c \in Caches
  /\ \A x \in All : x # b => Evicted(c.bfd[x], o.c.bfd[x])
  /\ Alike(c.bfd[b], o.c.bfd[b])
  /\ o.ok => Ring(o.c, Streams(o.c))
  /\ ~o.ok => Ring(o.c, Streams(o.c) \ {b})
  /\ o.ok => \A y \in BFDs : Output(o.c, y) = Output(c, y)
  /\ world # "failing" => o.ok
  /\ o.ok /\ (Direction[b] # "fd" => c.bfd[b].cacheable) => Fronts(c, o.c, b)
  /\ ~o.ok => Keeps(c, Streams(c) \ {b}, o.c, Streams(o.c) \ {b})

\* bfd_cache_init.
LEMMA CacheInit ==
  ASSUME NEW c \in Caches, NEW b \in BFDs, Ring(c, Streams(c) \ {b}), c.bfd[b].iostream = TRUE,
         NEW o \in bfd_cache_init(c, b)
  PROVE  Enters(c, b, o)
<1> DEFINE S == Streams(c) \ {b}
<1>1. PICK q \in MakeRoom(c) :
        \/ q.ok /\ o = Ok([insert(q.c, b) EXCEPT !.open_files = @ + 1])
        \/ ~q.ok /\ o = q
  BY DEF bfd_cache_init, Then
<1>2. Shrinks(c, S, q)
  BY RoomMade
<1>3. b \in All /\ b \notin S
  BY DEF All
<1>4. q.ok \in BOOLEAN /\ q.c \in Caches /\ Alike(c.bfd[b], q.c.bfd[b])
  BY <1>2, <1>3 DEF Shrinks
<1>5. /\ Ring(q.c, Streams(q.c) \ {b}) /\ HasRoom(c, S, q)
      /\ Keeps(c, Streams(c) \ {b}, q.c, Streams(q.c) \ {b})
  <2>1. S \cap Streams(q.c) = Streams(q.c) \ {b}
    BY <1>2 DEF Shrinks, Evicted, Alike, Streams
  <2> QED BY <1>2, <2>1 DEF Shrinks
<1>6. q.c.bfd[b].iostream = TRUE
  BY <1>4 DEF Alike
<1>7. /\ \A x \in All : x # b => Evicted(c.bfd[x], q.c.bfd[x])
      /\ q.ok => \A y \in BFDs : Output(q.c, y) = Output(c, y)
      /\ world # "failing" => q.ok
  BY <1>2 DEF Shrinks
<1>8. CASE ~q.ok /\ o = q
  BY <1>4, <1>5, <1>7, <1>8 DEF Enters
<1>9. CASE q.ok /\ o = Ok([insert(q.c, b) EXCEPT !.open_files = @ + 1])
  <2>1. o.ok = TRUE /\ o.c = [insert(q.c, b) EXCEPT !.open_files = @ + 1]
    BY <1>9 DEF Ok
  <2>2. /\ o.c \in Caches /\ Ring(o.c, Streams(o.c)) /\ OnlyLinks(q.c, o.c)
        /\ Limited(q.c.open_files + 1) /\ (Direction[b] # "fd" => q.c.bfd[b].cacheable) =>
             Fronts(q.c, o.c, b)
    BY <1>4, <1>5, <1>6, <2>1, Inserted
  <2>3. \A x \in All : x # b => Evicted(c.bfd[x], o.c.bfd[x])
    BY <1>7, <2>2 DEF OnlyLinks, Alike, Evicted
  <2>4. Alike(c.bfd[b], o.c.bfd[b])
    BY <1>3, <1>4, <2>2 DEF OnlyLinks, Alike
  <2>5. \A y \in BFDs : Output(o.c, y) = Output(q.c, y)
    BY <2>2 DEF OnlyLinks, Alike, Output, All
  <2>6. ASSUME Direction[b] # "fd" => c.bfd[b].cacheable PROVE Fronts(c, o.c, b)
    <3> SUFFICES ASSUME NEW h, Tidy(c, S, h) PROVE Tidy(o.c, Streams(o.c), Used(h, b))
      BY DEF Fronts
    <3>1. Tidy(q.c, Streams(q.c) \ {b}, h)
      BY <1>5 DEF Keeps
    <3>2. Limited(q.c.open_files + 1)
      BY <1>5, <1>9 DEF HasRoom
    <3>3. Direction[b] # "fd" => q.c.bfd[b].cacheable
      BY <1>4, <2>6 DEF Alike
    <3> QED BY <2>2, <3>1, <3>2, <3>3 DEF Fronts
  <2> QED BY <1>7, <1>9, <2>1, <2>2, <2>3, <2>4, <2>5, <2>6 DEF Enters
<1> QED BY <1>1, <1>8, <1>9

\* The file is to be written from its beginning.
Anew(c, b) == Direction[b] = "write" /\ ~c.bfd[b].opened_once

\* What fopen does.
Fopened(c, b, o) ==
  /\ o.ok \in BOOLEAN /\ o.c \in Caches
  /\ o.c.last = c.last /\ o.c.open_files = c.open_files
  /\ \A x \in All : x # b => o.c.bfd[x] = c.bfd[x]
  /\ o.c.bfd[b].next = c.bfd[b].next /\ o.c.bfd[b].prev = c.bfd[b].prev
  /\ o.c.bfd[b].live = c.bfd[b].live /\ o.c.bfd[b].where = c.bfd[b].where
  /\ o.c.bfd[b].pending = c.bfd[b].pending /\ o.c.bfd[b].cacheable = c.bfd[b].cacheable
  /\ \A y \in BFDs : y # b => o.c.disk[y] = c.disk[y]
  /\ world # "failing" => o.c.disk[b] = IF Anew(c, b) THEN {} ELSE c.disk[b]
  /\ o.c.bfd[b].opened_once = (c.bfd[b].opened_once \/ Direction[b] = "write")
  /\ o.c.bfd[b].iostream = (o.ok \/ c.bfd[b].iostream)
  /\ o.ok => o.c.bfd[b].stream = 0
  /\ world # "failing" => o.ok

\* fopen in bfd_open_file.
LEMMA Fopens ==
  ASSUME NEW c \in Caches, NEW b \in BFDs, NEW o \in fopen(c, b)
  PROVE  Fopened(c, b, o)
<1>1. b \in All /\ c.bfd \in [All -> Record] /\ c.disk \in [BFDs -> SUBSET (0..Size)]
      /\ c.bfd[b] \in Record /\ 0 \in 0..Size
  BY BfdCacheAssumption DEF All, Caches
<1> DEFINE d == IF Anew(c, b) THEN [c EXCEPT !.bfd[b].opened_once = TRUE, !.disk[b] = {}] ELSE c
           r == IF Anew(c, b) THEN [c.bfd[b] EXCEPT !.opened_once = TRUE] ELSE c.bfd[b]
           g == [c.disk EXCEPT ![b] = IF Anew(c, b) THEN {} ELSE @]
           r1 == [r EXCEPT !.iostream = TRUE, !.stream = 0]
<1>2. d = [c EXCEPT !.bfd = [c.bfd EXCEPT ![b] = r], !.disk = g]
  <2>1. CASE Anew(c, b)
    BY <1>1, <2>1 DEF Caches
  <2>2. CASE ~Anew(c, b)
    <3>1. [c.bfd EXCEPT ![b] = r] = c.bfd /\ g = c.disk
      BY <1>1, <2>2
    <3> QED BY <2>2, <3>1 DEF Caches
  <2> QED BY <2>1, <2>2
<1>3. /\ r \in Record /\ r.next = c.bfd[b].next /\ r.prev = c.bfd[b].prev
      /\ r.live = c.bfd[b].live /\ r.where = c.bfd[b].where /\ r.pending = c.bfd[b].pending
      /\ r.cacheable = c.bfd[b].cacheable /\ r.iostream = c.bfd[b].iostream
      /\ r.opened_once = (c.bfd[b].opened_once \/ Direction[b] = "write")
  BY <1>1 DEF Record, Anew
<1>4. /\ r1 \in Record /\ r1.next = r.next /\ r1.prev = r.prev
      /\ r1.live = r.live /\ r1.where = r.where /\ r1.pending = r.pending
      /\ r1.cacheable = r.cacheable /\ r1.iostream = TRUE /\ r1.stream = 0
      /\ r1.opened_once = r.opened_once
  <2> HIDE DEF r
  <2> QED BY <1>1, <1>3 DEF Record
<1>5. /\ g \in [BFDs -> SUBSET (0..Size)] /\ g[b] = IF Anew(c, b) THEN {} ELSE c.disk[b]
      /\ \A y \in BFDs : y # b => g[y] = c.disk[y]
  BY <1>1
<1>6. \/ \E e \in {d, [d EXCEPT !.disk[b] = {}]} :
             /\ o = Ok([e EXCEPT !.bfd[b].iostream = TRUE, !.bfd[b].stream = 0])
             /\ e = d \/ world = "failing"
      \/ o = Bad(d) /\ world = "failing"
  <2> DEFINE opened(e) == Ok([e EXCEPT !.bfd[b].iostream = TRUE, !.bfd[b].stream = 0])
             d2 == [d EXCEPT !.disk[b] = {}]
  <2>1. fopen(c, b) = {opened(d)} \cup
                        IF world = "failing"
                          THEN {Bad(d)} \cup IF Direction[b] = "write" THEN {opened(d2)} ELSE {}
                          ELSE {}
    BY DEF fopen, Anew
  <2> HIDE DEF d, d2
  <2>2. \/ o = opened(d) \/ (o = opened(d2) /\ world = "failing")
        \/ o = Bad(d) /\ world = "failing"
    <3> HIDE DEF opened
    <3> QED BY <2>1
  <2> QED BY <2>2 DEF d2
<1> HIDE DEF r, g
<1>7. d \in Caches /\ d.bfd = [c.bfd EXCEPT ![b] = r] /\ d.disk = g /\ d.last = c.last
      /\ d.open_files = c.open_files
  <2> HIDE DEF d
  <2> QED BY <1>1, <1>2, <1>3, <1>5 DEF Caches
<1> HIDE DEF d
<1>8. CASE o = Bad(d) /\ world = "failing"
  <2>1. o.ok = FALSE /\ o.c = d
    BY <1>8 DEF Bad
  <2>2. o.c.bfd[b] = r /\ \A x \in All : x # b => o.c.bfd[x] = c.bfd[x]
    BY <1>1, <1>7, <2>1
  <2>3. c.bfd[b].iostream = (o.ok \/ c.bfd[b].iostream)
    BY <1>1, <2>1 DEF Record
  <2> QED BY <1>3, <1>5, <1>7, <1>8, <2>1, <2>2, <2>3 DEF Fopened
<1>9. ASSUME NEW e \in {d, [d EXCEPT !.disk[b] = {}]}, e = d \/ world = "failing",
             o = Ok([e EXCEPT !.bfd[b].iostream = TRUE, !.bfd[b].stream = 0])
      PROVE  Fopened(c, b, o)
  <2>1. o.ok = TRUE /\ o.c = [e EXCEPT !.bfd[b].iostream = TRUE, !.bfd[b].stream = 0]
    BY <1>9 DEF Ok
  <2>2. d.bfd[b] = r /\ d.bfd \in [All -> Record]
    BY <1>1, <1>3, <1>7
  <2>3. /\ e \in Caches /\ e.bfd = d.bfd /\ e.last = c.last /\ e.open_files = c.open_files
        /\ \A y \in BFDs : y # b => e.disk[y] = c.disk[y]
        /\ world # "failing" => e.disk[b] = IF Anew(c, b) THEN {} ELSE c.disk[b]
    <3>1. CASE e = d
      BY <1>5, <1>7, <3>1
    <3>2. CASE e = [d EXCEPT !.disk[b] = {}] /\ world = "failing"
      <4>1. [d.disk EXCEPT ![b] = {}] \in [BFDs -> SUBSET (0..Size)]
        BY <1>5, <1>7
      <4>2. e = [d EXCEPT !.disk = [d.disk EXCEPT ![b] = {}]]
        BY <1>7, <3>2 DEF Caches
      <4> QED BY <1>5, <1>7, <3>2, <4>1, <4>2 DEF Caches
    <3> QED BY <1>9, <3>1, <3>2
  <2>4. o.c = [e EXCEPT !.bfd = [e.bfd EXCEPT ![b] = r1]]
    BY <1>1, <1>7, <2>1, <2>2, <2>3, ZenonT(40) DEF Caches
  <2> HIDE DEF r1
  <2>5. /\ o.c \in Caches /\ o.c.bfd = [d.bfd EXCEPT ![b] = r1] /\ o.c.disk = e.disk
        /\ o.c.last = c.last /\ o.c.open_files = c.open_files
    BY <1>4, <1>7, <2>2, <2>3, <2>4 DEF Caches
  <2>6. o.c.bfd[b] = r1 /\ \A x \in All : x # b => o.c.bfd[x] = c.bfd[x]
    BY <1>1, <1>7, <2>2, <2>5
  <2>7. /\ \A y \in BFDs : y # b => o.c.disk[y] = c.disk[y]
        /\ world # "failing" => o.c.disk[b] = IF Anew(c, b) THEN {} ELSE c.disk[b]
    BY <2>3, <2>5
  <2>8. /\ o.c.bfd[b].next = c.bfd[b].next /\ o.c.bfd[b].prev = c.bfd[b].prev
        /\ o.c.bfd[b].live = c.bfd[b].live /\ o.c.bfd[b].where = c.bfd[b].where
        /\ o.c.bfd[b].pending = c.bfd[b].pending /\ o.c.bfd[b].cacheable = c.bfd[b].cacheable
        /\ o.c.bfd[b].opened_once = (c.bfd[b].opened_once \/ Direction[b] = "write")
        /\ o.c.bfd[b].iostream = TRUE /\ o.c.bfd[b].stream = 0
    BY <1>3, <1>4, <2>6
  <2>9. o.ok \in BOOLEAN /\ o.c.bfd[b].iostream = (o.ok \/ c.bfd[b].iostream)
    BY <2>1, <2>8
  <2> QED BY <2>1, <2>5, <2>6, <2>7, <2>8, <2>9 DEF Fopened
<1> QED BY <1>6, <1>8, <1>9

\* b had no stream and gets one, or not.
Opens(c, b, o) ==
  /\ o.ok \in BOOLEAN /\ o.c \in Caches
  /\ \A x \in All : x # b => Evicted(c.bfd[x], o.c.bfd[x])
  /\ o.c.bfd[b].live = c.bfd[b].live /\ o.c.bfd[b].where = c.bfd[b].where
  /\ o.c.bfd[b].pending = c.bfd[b].pending
  /\ o.ok => /\ Ring(o.c, Streams(o.c)) /\ o.c.bfd[b].iostream /\ o.c.bfd[b].stream = 0
             /\ o.c.bfd[b].opened_once = (c.bfd[b].opened_once \/ Direction[b] = "write")
             /\ \A y \in BFDs : y # b => Output(o.c, y) = Output(c, y)
             /\ world # "failing" =>
                  Output(o.c, b) = IF Anew(c, b) THEN c.bfd[b].pending ELSE Output(c, b)
             /\ Uses(c, o.c, b)
  /\ ~o.ok => /\ Ring(o.c, Streams(o.c) \ {b})
              /\ Keeps(c, Streams(c), o.c, Streams(o.c) \ {b})
  /\ world # "failing" => o.ok

\* bfd_open_file: room is made, the file is opened, and the BFD enters the ring.
LEMMA OpensFile ==
  ASSUME NEW c \in Caches, NEW b \in BFDs, Ring(c, Streams(c)), ~c.bfd[b].iostream,
         NEW o \in bfd_open_file(c, b)
  PROVE  Opens(c, b, o)
<1> DEFINE c1 == [c EXCEPT !.bfd[b].cacheable = TRUE]
           r == [c.bfd[b] EXCEPT !.cacheable = TRUE]
           S == Streams(c)
<1>1. b \in All /\ c.bfd \in [All -> Record] /\ b \notin S /\ c.bfd[b].iostream = FALSE
      /\ S \subseteq All
  BY DEF All, Caches, Streams, Record
<1>2. PICK q \in MakeRoom(c1) :
        \/ ~q.ok /\ o = q
        \/ q.ok /\ \E t \in fopen(q.c, b) : \/ ~t.ok /\ o = t
                                            \/ t.ok /\ o \in bfd_cache_init(t.c, b)
  <2> DEFINE open(d) == fopen(d, b)
             init(d) == bfd_cache_init(d, b)
  <2>1. PICK t \in Then(MakeRoom(c1), open) : IF t.ok THEN o \in bfd_cache_init(t.c, b) ELSE o = t
    <3> HIDE DEF open
    <3>1. o \in Then(Then(MakeRoom(c1), open), init)
      BY DEF bfd_open_file, open
    <3> DEFINE Z == Then(MakeRoom(c1), open)
    <3>2. o \in UNION {IF t.ok THEN init(t.c) ELSE {t} : t \in Z}
      BY <3>1 DEF Then
    <3> HIDE DEF Z
    <3>3. \E t \in Z : IF t.ok THEN o \in bfd_cache_init(t.c, b) ELSE o = t
      BY <3>2
    <3> QED BY <3>3 DEF Z
  <2>2. PICK q \in MakeRoom(c1) : IF q.ok THEN t \in fopen(q.c, b) ELSE t = q
    BY <2>1 DEF Then
  <2> QED BY <2>1, <2>2
<1>3. /\ r \in Record /\ r.next = c.bfd[b].next /\ r.prev = c.bfd[b].prev /\ r.live = c.bfd[b].live
      /\ r.where = c.bfd[b].where /\ r.pending = c.bfd[b].pending /\ r.iostream = FALSE
      /\ r.opened_once = c.bfd[b].opened_once /\ r.cacheable = TRUE
  BY <1>1 DEF Record
<1>4. c1 = [c EXCEPT !.bfd = [c.bfd EXCEPT ![b] = r]]
  BY <1>1 DEF Caches
<1> HIDE DEF r
<1>5. /\ c1 \in Caches /\ c1.bfd = [c.bfd EXCEPT ![b] = r] /\ c1.last = c.last
      /\ c1.open_files = c.open_files /\ c1.disk = c.disk
  BY <1>1, <1>3, <1>4 DEF Caches
<1> HIDE DEF c1
<1>6. c1.bfd[b] = r /\ \A x \in All : x # b => c1.bfd[x] = c.bfd[x]
  BY <1>1, <1>5
<1>7. Ring(c1, S) /\ S \subseteq Streams(c1)
  <2>1. \A x \in S : x \in All /\ x # b /\ c1.bfd[x] = c.bfd[x]
    BY <1>1, <1>6
  <2>2. S \subseteq Streams(c1)
    BY <2>1 DEF Streams
  <2>3. \A x \in S : c1.bfd[x].next = c.bfd[x].next /\ c1.bfd[x].prev = c.bfd[x].prev
    BY <2>1
  <2> HIDE DEF S
  <2>4. Ring(c, S)
    BY DEF S
  <2>5. c1.last = c.last /\ c1.open_files = c.open_files
    BY <1>5
  <2>6. Ring(c1, S)
    BY <2>3, <2>4, <2>5, SameRing
  <2> QED BY <2>2, <2>6
<1>8. Shrinks(c1, S, q)
  BY <1>5, <1>7, RoomMade
<1>9. /\ q.ok \in BOOLEAN /\ q.c \in Caches /\ Alike(r, q.c.bfd[b])
      /\ \A x \in All : x # b => Evicted(c.bfd[x], q.c.bfd[x])
      /\ world # "failing" => q.ok
  BY <1>1, <1>6, <1>8 DEF Shrinks
<1>10. \A y \in BFDs : Output(c1, y) = Output(c, y)
  BY <1>3, <1>5, <1>6 DEF Output, All
<1>11. q.ok => \A y \in BFDs : Output(q.c, y) = Output(c, y)
  BY <1>8, <1>10 DEF Shrinks
<1>12. q.c.bfd[b].iostream = FALSE
  BY <1>3, <1>9 DEF Alike
<1>13. Ring(q.c, Streams(q.c) \ {b}) /\ Keeps(c, S, q.c, Streams(q.c) \ {b})
  <2>1. ASSUME NEW x \in Streams(q.c) PROVE x \in S
    <3>1. x \in All /\ x # b /\ Evicted(c.bfd[x], q.c.bfd[x]) /\ q.c.bfd[x].iostream
      BY <1>9, <1>12, <2>1 DEF Streams
    <3> QED BY <3>1 DEF Evicted, Streams
  <2>2. S \cap Streams(q.c) = Streams(q.c) \ {b}
    BY <1>12, <2>1 DEF Streams
  <2>3. Keeps(c, S, c1, S)
    <3>1. /\ \A x \in S : c1.bfd[x].next = c.bfd[x].next /\ c1.bfd[x].cacheable = c.bfd[x].cacheable
          /\ Links(c, S) /\ c1.last = c.last /\ c1.open_files = c.open_files
      BY <1>1, <1>5, <1>6 DEF Ring
    <3> HIDE DEF S
    <3> QED BY <3>1, SameTidy
  <2>4. Ring(q.c, Streams(q.c) \ {b}) /\ Keeps(c1, S, q.c, Streams(q.c) \ {b})
    BY <1>8, <2>2 DEF Shrinks
  <2> QED BY <2>3, <2>4, KeepsAlong
<1>14. q.c.bfd[b].live = c.bfd[b].live /\ q.c.bfd[b].where = c.bfd[b].where
       /\ q.c.bfd[b].pending = c.bfd[b].pending /\ q.c.bfd[b].opened_once = c.bfd[b].opened_once
       /\ q.c.bfd[b].cacheable = TRUE
  BY <1>3, <1>9 DEF Alike
<1>15. CASE ~q.ok /\ o = q
  BY <1>9, <1>13, <1>14, <1>15 DEF Opens
<1>16. CASE q.ok /\ \E t \in fopen(q.c, b) : \/ ~t.ok /\ o = t
                                             \/ t.ok /\ o \in bfd_cache_init(t.c, b)
  <2>1. PICK t \in fopen(q.c, b) : (~t.ok /\ o = t) \/ (t.ok /\ o \in bfd_cache_init(t.c, b))
    BY <1>16
  <2>2. Fopened(q.c, b, t)
    BY <1>9, Fopens
  <2>3. /\ t.ok \in BOOLEAN /\ t.c \in Caches
        /\ \A x \in All : x # b => Evicted(c.bfd[x], t.c.bfd[x])
        /\ t.c.bfd[b].live = c.bfd[b].live /\ t.c.bfd[b].where = c.bfd[b].where
        /\ t.c.bfd[b].pending = c.bfd[b].pending
        /\ t.c.bfd[b].iostream = t.ok /\ t.c.bfd[b].cacheable = TRUE
        /\ t.ok => t.c.bfd[b].stream = 0
        /\ t.c.bfd[b].opened_once = (c.bfd[b].opened_once \/ Direction[b] = "write")
        /\ world # "failing" => t.ok
    BY <1>9, <1>12, <1>14, <2>2 DEF Fopened
  <2>4. Ring(t.c, Streams(t.c) \ {b}) /\ Keeps(c, S, t.c, Streams(t.c) \ {b})
    <3>1. Streams(t.c) \ {b} = Streams(q.c) \ {b}
      BY <2>2 DEF Fopened, Streams
    <3>2. \A x \in Streams(q.c) \ {b} : t.c.bfd[x] = q.c.bfd[x]
      BY <2>2 DEF Fopened, Streams
    <3>3. t.c.last = q.c.last /\ t.c.open_files = q.c.open_files
      BY <2>2 DEF Fopened
    <3>4. Ring(t.c, Streams(q.c) \ {b})
      BY <1>13, <3>2, <3>3, SameRing
    <3>5. Keeps(q.c, Streams(q.c) \ {b}, t.c, Streams(q.c) \ {b})
      BY <1>13, <3>2, <3>3, SameTidy DEF Ring
    <3> QED BY <1>13, <3>1, <3>4, <3>5, KeepsAlong
  <2>5. /\ \A y \in BFDs : y # b => Output(t.c, y) = Output(c, y)
        /\ world # "failing" =>
             Output(t.c, b) = IF Anew(c, b) THEN c.bfd[b].pending ELSE Output(c, b)
    <3>1. q.c.disk \in [BFDs -> SUBSET (0..Size)] /\ Anew(q.c, b) = Anew(c, b)
      BY <1>9, <1>14 DEF Caches, Anew
    <3>2. \A y \in BFDs : y # b => Output(t.c, y) = Output(q.c, y)
      BY <2>2 DEF Fopened, Output, All
    <3>3. world # "failing" =>
             Output(t.c, b) = IF Anew(c, b) THEN c.bfd[b].pending ELSE Output(q.c, b)
      BY <1>14, <2>2, <3>1 DEF Fopened, Output
    <3> QED BY <1>11, <1>16, <3>2, <3>3
  <2>6. CASE ~t.ok /\ o = t
    BY <2>3, <2>4, <2>6 DEF Opens
  <2>7. CASE t.ok /\ o \in bfd_cache_init(t.c, b)
    <3>1. t.c.bfd[b].iostream = TRUE
      BY <2>3, <2>7
    <3>2. Enters(t.c, b, o)
      BY <2>3, <2>4, <2>7, <3>1, CacheInit
    <3>3. \A x \in All : x # b => Evicted(c.bfd[x], o.c.bfd[x])
      BY <2>3, <3>2, EvictedAlong DEF Enters
    <3>4. /\ o.c.bfd[b].live = c.bfd[b].live /\ o.c.bfd[b].where = c.bfd[b].where
          /\ o.c.bfd[b].pending = c.bfd[b].pending
          /\ o.c.bfd[b].iostream /\ o.c.bfd[b].stream = 0
          /\ o.c.bfd[b].opened_once = (c.bfd[b].opened_once \/ Direction[b] = "write")
      BY <2>3, <2>7, <3>1, <3>2 DEF Enters, Alike
    <3>5. o.ok => /\ \A y \in BFDs : y # b => Output(o.c, y) = Output(c, y)
                  /\ world # "failing" =>
                       Output(o.c, b) = IF Anew(c, b) THEN c.bfd[b].pending ELSE Output(c, b)
      BY <2>5, <3>2 DEF Enters
    <3>6. o.ok => Uses(c, o.c, b)
      <4>1. o.ok => Fronts(t.c, o.c, b)
        BY <2>3, <3>2 DEF Enters
      <4> QED BY <2>4, <4>1 DEF Uses, Fronts, Keeps
    <3>7. ~o.ok => Keeps(c, S, o.c, Streams(o.c) \ {b})
      BY <2>4, <3>2, KeepsAlong DEF Enters
    <3> QED BY <3>2, <3>3, <3>4, <3>5, <3>6, <3>7 DEF Opens, Enters
  <2> QED BY <2>1, <2>6, <2>7
<1> QED BY <1>2, <1>15, <1>16

\* The place in the file of b.
Spot(c, b) == IF c.bfd[b].iostream THEN c.bfd[b].stream ELSE c.bfd[b].where

\* b is looked up: it has its stream, at its place; or there is none in the ring, or one that
\* fseek did not move.
Finds(c, b, o) ==
  /\ o.ok \in BOOLEAN /\ o.c \in Caches
  /\ \A x \in All : x # b => Evicted(c.bfd[x], o.c.bfd[x])
  /\ o.c.bfd[b].live = c.bfd[b].live /\ o.c.bfd[b].where = c.bfd[b].where
  /\ o.c.bfd[b].pending = c.bfd[b].pending
  /\ o.ok => /\ Ring(o.c, Streams(o.c)) /\ o.c.bfd[b].iostream
             /\ o.c.bfd[b].stream = Spot(c, b)
             /\ c.bfd[b].opened_once => o.c.bfd[b].opened_once
             /\ \A y \in BFDs : y # b => Output(o.c, y) = Output(c, y)
             /\ world # "failing" /\ (Direction[b] = "write" => c.bfd[b].opened_once) =>
                  Output(o.c, b) = Output(c, b)
             /\ Uses(c, o.c, b)
  /\ ~o.ok => /\ ~c.bfd[b].iostream
              /\ \/ /\ Ring(o.c, Streams(o.c) \ {b})
                    /\ Keeps(c, Streams(c), o.c, Streams(o.c) \ {b})
                 \/ Ring(o.c, Streams(o.c)) /\ o.c.bfd[b].iostream /\ Uses(c, o.c, b)
  /\ world # "failing" => o.ok

\* What follows from the three ways of looking b up.
LEMMA FindsFirst ==
  ASSUME NEW c \in Caches, Ring(c, Streams(c)), NEW b \in BFDs, c.bfd[b].iostream, b = c.last,
         NEW o, o = Ok(c)
  PROVE  Finds(c, b, o)
<1>1. o.c = c /\ o.ok = TRUE
  BY DEF Ok
<1>2. Spot(c, b) = c.bfd[b].stream
  BY DEF Spot
<1>3. \A y \in All : Evicted(c.bfd[y], c.bfd[y])
  BY DEF Evicted
<1>4. Uses(c, c, b)
  <2>1. c.last \in Streams(c) /\ Links(c, Streams(c))
    BY DEF Ring, Streams, All
  <2> QED BY <2>1, OrderFirst DEF Uses, Tidy
<1> QED BY <1>1, <1>2, <1>3, <1>4 DEF Finds

\* The BFD is in the ring: it goes to its front.
LEMMA FindsOpen ==
  ASSUME NEW c \in Caches, Ring(c, Streams(c)), NEW b \in BFDs, c.bfd[b].iostream,
         NEW o, o = Ok(insert(snip(c, b), b))
  PROVE  Finds(c, b, o)
<1> DEFINE S == Streams(c)
           e == snip(c, b)
<1>1. b \in All /\ b \in S /\ S \subseteq BFDs /\ c.open_files = Cardinality(S)
  BY DEF Streams, Ring, All
<1>2. /\ e \in Caches /\ e.last \in (S \ {b}) \cup {"NULL"} /\ Links(e, S \ {b})
      /\ OnlyLinks(c, e) /\ e.open_files = c.open_files /\ TakenOut(c, e, S, b)
  <2> HIDE DEF S
  <2> QED BY <1>1, Snips DEF S
<1>3. o.ok = TRUE /\ o.c = insert(e, b)
  BY DEF Ok
<1> HIDE DEF e
<1>4. S \ {b} \subseteq BFDs /\ b \in BFDs \ (S \ {b}) /\ (S \ {b}) \cup {b} = S
  BY <1>1
<1>5. /\ o.c \in Caches /\ o.c.last = b /\ Links(o.c, (S \ {b}) \cup {b}) /\ OnlyLinks(e, o.c)
      /\ o.c.open_files = e.open_files /\ PutFirst(e, o.c, S \ {b}, b)
  <2> DEFINE R == S \ {b}
  <2> HIDE DEF S, R
  <2>1. R \subseteq BFDs /\ b \in BFDs \ R /\ e.last \in R \cup {"NULL"} /\ Links(e, R)
    BY <1>2, <1>4 DEF R
  <2>2. /\ o.c \in Caches /\ o.c.last = b /\ Links(o.c, R \cup {b}) /\ OnlyLinks(e, o.c)
        /\ o.c.open_files = e.open_files /\ PutFirst(e, o.c, R, b)
    BY <1>2, <1>3, <2>1, Inserts
  <2> QED BY <2>2 DEF R
<1>6. OnlyLinks(c, o.c)
  BY <1>2, <1>5 DEF OnlyLinks, Alike
<1>7. Streams(o.c) = S
  BY <1>6 DEF Streams, OnlyLinks, Alike
<1>8. Ring(o.c, S)
  <2> HIDE DEF S
  <2> QED BY <1>1, <1>2, <1>4, <1>5 DEF Ring
<1>9. \A y \in All : Evicted(c.bfd[y], o.c.bfd[y])
  BY <1>6 DEF OnlyLinks, Alike, Evicted
<1>10. Alike(c.bfd[b], o.c.bfd[b]) /\ Spot(c, b) = c.bfd[b].stream
  BY <1>1, <1>6 DEF OnlyLinks, Spot
<1>11. \A y \in BFDs : Output(o.c, y) = Output(c, y)
  BY <1>6 DEF OnlyLinks, Alike, Output, All
<1>12. Uses(c, o.c, b)
  <2> DEFINE R == S \ {b}
  <2>0. S = R \cup {b} /\ Streams(c) = S /\ b \notin R
    BY <1>1
  <2>1. Links(c, S) /\ Links(e, R) /\ e.last \in R \cup {"NULL"}
        /\ TakenOut(c, e, S, b) /\ PutFirst(e, o.c, R, b)
    BY <1>2, <1>5 DEF Ring
  <2>6. "NULL" \notin R
    BY <1>1, BfdCacheAssumption
  <2>2. \A x \in S : o.c.bfd[x].cacheable = c.bfd[x].cacheable
    BY <1>6 DEF OnlyLinks, Alike, Streams
  <2> HIDE DEF R, S
  <2> SUFFICES ASSUME NEW h, Tidy(c, S, h) PROVE Tidy(o.c, S, Used(h, b))
    BY <1>7, <2>0 DEF Uses
  <2>3. Ordered(e, R, h)
    <3>1. Ordered(c, S, h) /\ c.last \in S
      BY <1>1 DEF Tidy, Ordered
    <3> QED BY <1>1, <2>1, <3>1, OrderWithout DEF R
  <2>4. Ordered(o.c, R \cup {b}, Used(h, b))
    BY <1>5, <2>0, <2>1, <2>3, <2>6, OrderWith
  <2>5. Named(o.c, S) /\ Limited(o.c.open_files)
    BY <1>2, <1>5, <2>2 DEF Tidy, Named
  <2> QED BY <2>0, <2>4, <2>5 DEF Tidy
<1> QED BY <1>3, <1>5, <1>7, <1>8, <1>9, <1>10, <1>11, <1>12 DEF Finds, Alike

\* It was evicted: its file is opened again, and the stream moved to its place.
LEMMA FindsClosed ==
  ASSUME NEW c \in Caches, Ring(c, Streams(c)), NEW b \in BFDs, ~c.bfd[b].iostream,
         c.bfd[b].where >= 0, NEW q \in bfd_open_file(c, b), NEW o,
         \/ ~q.ok /\ o = q
         \/ q.ok /\ o = Bad(q.c) /\ world = "failing"
         \/ q.ok /\ o = Ok([q.c EXCEPT !.bfd[b].stream = q.c.bfd[b].where])
  PROVE  Finds(c, b, o)
<1>1. b \in All /\ c.bfd[b] \in Record
  BY DEF All, Caches
<1>2. Opens(c, b, q)
  BY OpensFile
<1>3. CASE ~q.ok /\ o = q
  BY <1>2, <1>3 DEF Opens, Finds
<1>4. CASE q.ok /\ o = Bad(q.c) /\ world = "failing"
  <2>1. o.c = q.c /\ o.ok = FALSE
    BY <1>4 DEF Bad
  <2> QED BY <1>2, <1>4, <2>1 DEF Opens, Finds
<1>5. CASE q.ok /\ o = Ok([q.c EXCEPT !.bfd[b].stream = q.c.bfd[b].where])
  <2> DEFINE w == q.c.bfd[b]
             r == [w EXCEPT !.stream = w.where]
  <2>1. q.c \in Caches /\ q.c.bfd \in [All -> Record] /\ w \in Record /\ w.where = c.bfd[b].where
    BY <1>1, <1>2 DEF Opens, Caches
  <2>2. w.where \in 0..Size
    <3>1. c.bfd[b].where \in (-Size)..Size /\ Size \in Nat
      BY <1>1, BfdCacheAssumption DEF Record
    <3> HIDE DEF w
    <3> QED BY <2>1, <3>1
  <2>3. o.ok = TRUE /\ o.c = [q.c EXCEPT !.bfd = [q.c.bfd EXCEPT ![b] = r]]
    BY <1>1, <1>5, <2>1 DEF Ok, Caches
  <2>4. /\ r \in Record /\ r.next = w.next /\ r.prev = w.prev /\ r.live = w.live
        /\ r.where = w.where /\ r.pending = w.pending /\ r.iostream = w.iostream
        /\ r.opened_once = w.opened_once /\ r.stream = w.where /\ r.cacheable = w.cacheable
    <3> HIDE DEF w
    <3> QED BY <2>1, <2>2 DEF Record
  <2>5. w = q.c.bfd[b]
    OBVIOUS
  <2> HIDE DEF r, w
  <2>6. /\ o.c \in Caches /\ o.c.bfd = [q.c.bfd EXCEPT ![b] = r] /\ o.c.last = q.c.last
        /\ o.c.disk = q.c.disk /\ o.c.open_files = q.c.open_files
    BY <1>1, <2>1, <2>3, <2>4 DEF Caches
  <2>7. o.c.bfd[b] = r /\ \A y \in All : y # b => o.c.bfd[y] = q.c.bfd[y]
    BY <1>1, <2>1, <2>6
  <2>8. \A y \in All : /\ o.c.bfd[y].next = q.c.bfd[y].next /\ o.c.bfd[y].prev = q.c.bfd[y].prev
                       /\ o.c.bfd[y].iostream = q.c.bfd[y].iostream
                       /\ o.c.bfd[y].pending = q.c.bfd[y].pending
                       /\ o.c.bfd[y].cacheable = q.c.bfd[y].cacheable
    BY <2>4, <2>5, <2>7
  <2>9. Streams(o.c) = Streams(q.c)
    BY <2>8 DEF Streams
  <2>10. Ring(o.c, Streams(q.c))
    <3>1. Ring(q.c, Streams(q.c))
      BY <1>2, <1>5 DEF Opens
    <3>2. \A y \in Streams(q.c) : o.c.bfd[y].next = q.c.bfd[y].next /\ o.c.bfd[y].prev = q.c.bfd[y].prev
      BY <2>8 DEF Streams
    <3>3. o.c.last = q.c.last /\ o.c.open_files = q.c.open_files
      BY <2>6
    <3> QED BY <3>1, <3>2, <3>3, SameRing
  <2>11. \A y \in All : y # b => Evicted(c.bfd[y], o.c.bfd[y])
    BY <1>2, <2>7 DEF Opens
  <2>12. \A y \in BFDs : Output(o.c, y) = Output(q.c, y)
    BY <2>6, <2>8 DEF Output, All
  <2>13. Spot(c, b) = c.bfd[b].where
    BY DEF Spot
  <2>14. /\ w.live = c.bfd[b].live /\ w.where = c.bfd[b].where /\ w.pending = c.bfd[b].pending
         /\ w.iostream /\ w.opened_once = (c.bfd[b].opened_once \/ Direction[b] = "write")
         /\ \A y \in BFDs : y # b => Output(q.c, y) = Output(c, y)
         /\ world # "failing" =>
              Output(q.c, b) = IF Anew(c, b) THEN c.bfd[b].pending ELSE Output(c, b)
    BY <1>2, <1>5, <2>5 DEF Opens
  <2>15. /\ \A y \in BFDs : y # b => Output(o.c, y) = Output(c, y)
         /\ world # "failing" /\ (Direction[b] = "write" => c.bfd[b].opened_once) =>
              Output(o.c, b) = Output(c, b)
    BY <2>12, <2>14 DEF Anew
  <2>16. Uses(c, o.c, b)
    <3>1. Uses(c, q.c, b) /\ Links(q.c, Streams(q.c))
      BY <1>2, <1>5 DEF Opens, Ring
    <3>2. \A y \in Streams(q.c) : /\ o.c.bfd[y].next = q.c.bfd[y].next
                                  /\ o.c.bfd[y].cacheable = q.c.bfd[y].cacheable
      BY <2>8 DEF Streams
    <3>3. Keeps(q.c, Streams(q.c), o.c, Streams(q.c))
      BY <2>6, <3>1, <3>2, SameTidy
    <3> QED BY <2>9, <3>1, <3>3 DEF Uses, Keeps
  <2> QED BY <2>3, <2>4, <2>6, <2>7, <2>9, <2>10, <2>11, <2>13, <2>14, <2>15, <2>16 DEF Finds
<1> QED BY <1>3, <1>4, <1>5

\* bfd_cache_lookup.
LEMMA LooksUp ==
  ASSUME NEW c \in Caches, NEW x \in All, Ring(c, Streams(c)), c.bfd[Home[x]].where >= 0,
         NEW o \in bfd_cache_lookup(c, x)
  PROVE  Finds(c, Home[x], o)
<1> DEFINE b == Home[x]
           seek(d) == {Ok([d EXCEPT !.bfd[b].stream = d.bfd[b].where])}
                      \cup IF world = "failing" THEN {Bad(d)} ELSE {}
<1>1. b \in BFDs /\ b \in All /\ (x \in BFDs => x = b) /\ c.bfd[b] \in Record
  BY BfdCacheAssumption DEF Home, All, Caches
<1>2. /\ x = c.last => x = b
      /\ b = c.last => c.bfd[b].iostream
  BY <1>1, BfdCacheAssumption DEF Ring, Streams, All
<1>3. c.bfd[b].where >= 0
  OBVIOUS
<1>4. \/ x = c.last /\ o = Ok(c)
      \/ c.bfd[b].iostream /\ o = Ok(IF b = c.last THEN c ELSE insert(snip(c, b), b))
      \/ ~c.bfd[b].iostream /\ o \in Then(bfd_open_file(c, b), seek)
  BY DEF bfd_cache_lookup
<1> HIDE DEF b
<1>5. CASE x = c.last /\ o = Ok(c)
  <2>1. Finds(c, b, o)
    BY <1>1, <1>2, <1>5, FindsFirst
  <2> QED BY <2>1 DEF b
<1>6. CASE c.bfd[b].iostream /\ o = Ok(IF b = c.last THEN c ELSE insert(snip(c, b), b))
  <2>1. Finds(c, b, o)
    BY <1>1, <1>6, FindsFirst, FindsOpen
  <2> QED BY <2>1 DEF b
<1>7. CASE ~c.bfd[b].iostream /\ o \in Then(bfd_open_file(c, b), seek)
  <2>1. PICK q \in bfd_open_file(c, b) :
             \/ ~q.ok /\ o = q
             \/ q.ok /\ o = Bad(q.c) /\ world = "failing"
             \/ q.ok /\ o = Ok([q.c EXCEPT !.bfd[b].stream = q.c.bfd[b].where])
    BY <1>7 DEF Then
  <2>2. Finds(c, b, o)
    BY <1>1, <1>3, <1>7, <2>1, FindsClosed
  <2> QED BY <2>2 DEF b
<1> QED BY <1>4, <1>5, <1>6, <1>7

-----------------------------------------------------------------------------
(* Using the stream that was looked up.                                    *)

\* Nothing but the place and the output of b differs, and the places of elements.
Touched(c, d, b) ==
  /\ d \in Caches /\ d.last = c.last /\ d.open_files = c.open_files
  /\ \A y \in All : /\ d.bfd[y].next = c.bfd[y].next /\ d.bfd[y].prev = c.bfd[y].prev
                    /\ d.bfd[y].live = c.bfd[y].live /\ d.bfd[y].iostream = c.bfd[y].iostream
                    /\ d.bfd[y].opened_once = c.bfd[y].opened_once
                    /\ d.bfd[y].cacheable = c.bfd[y].cacheable
  /\ \A y \in All : y # b => d.bfd[y].stream = c.bfd[y].stream /\ d.bfd[y].pending = c.bfd[y].pending
  /\ \A y \in BFDs : y # b => d.bfd[y].where = c.bfd[y].where /\ d.disk[y] = c.disk[y]

\* The file of a BFD, and where it starts in it.
LEMMA HomeIn ==
  ASSUME NEW x \in All
  PROVE  /\ Home[x] \in BFDs /\ Home[x] \in All /\ (x \in BFDs => Home[x] = x)
         /\ (x \notin BFDs => x \in Elements /\ Home[x] = my_archive[x]) /\ Origin[x] \in 0..Size
         /\ (x \in BFDs => Origin[x] = 0)
BY BfdCacheAssumption DEF Home, Origin, All

\* One field of one record is set.
StreamSet(c, d, b, s) ==
  /\ d \in Caches /\ d.last = c.last /\ d.open_files = c.open_files /\ d.disk = c.disk
  /\ \A y \in All : y # b => d.bfd[y] = c.bfd[y]
  /\ d.bfd[b].next = c.bfd[b].next /\ d.bfd[b].prev = c.bfd[b].prev
  /\ d.bfd[b].live = c.bfd[b].live /\ d.bfd[b].iostream = c.bfd[b].iostream
  /\ d.bfd[b].cacheable = c.bfd[b].cacheable
  /\ d.bfd[b].opened_once = c.bfd[b].opened_once /\ d.bfd[b].pending = c.bfd[b].pending
  /\ d.bfd[b].where = c.bfd[b].where /\ d.bfd[b].stream = s
WhereSet(c, d, b, w) ==
  /\ d \in Caches /\ d.last = c.last /\ d.open_files = c.open_files /\ d.disk = c.disk
  /\ \A y \in All : y # b => d.bfd[y] = c.bfd[y]
  /\ d.bfd[b].next = c.bfd[b].next /\ d.bfd[b].prev = c.bfd[b].prev
  /\ d.bfd[b].live = c.bfd[b].live /\ d.bfd[b].iostream = c.bfd[b].iostream
  /\ d.bfd[b].cacheable = c.bfd[b].cacheable
  /\ d.bfd[b].opened_once = c.bfd[b].opened_once /\ d.bfd[b].pending = c.bfd[b].pending
  /\ d.bfd[b].stream = c.bfd[b].stream /\ d.bfd[b].where = w
PendingSet(c, d, b, P) ==
  /\ d \in Caches /\ d.last = c.last /\ d.open_files = c.open_files /\ d.disk = c.disk
  /\ \A y \in All : y # b => d.bfd[y] = c.bfd[y]
  /\ d.bfd[b].next = c.bfd[b].next /\ d.bfd[b].prev = c.bfd[b].prev
  /\ d.bfd[b].live = c.bfd[b].live /\ d.bfd[b].iostream = c.bfd[b].iostream
  /\ d.bfd[b].cacheable = c.bfd[b].cacheable
  /\ d.bfd[b].opened_once = c.bfd[b].opened_once /\ d.bfd[b].pending = P
  /\ d.bfd[b].stream = c.bfd[b].stream /\ d.bfd[b].where = c.bfd[b].where

LEMMA SetsStream ==
  ASSUME NEW c \in Caches, NEW b \in All, NEW s \in 0..Size
  PROVE  StreamSet(c, [c EXCEPT !.bfd[b].stream = s], b, s)
<1> DEFINE r == [c.bfd[b] EXCEPT !.stream = s]
           d == [c EXCEPT !.bfd[b].stream = s]
<1>1. c.bfd \in [All -> Record] /\ c.bfd[b] \in Record
  BY DEF Caches
<1>2. d = [c EXCEPT !.bfd = [c.bfd EXCEPT ![b] = r]]
  BY <1>1 DEF Caches
<1>3. /\ r \in Record /\ r.next = c.bfd[b].next /\ r.prev = c.bfd[b].prev
      /\ r.live = c.bfd[b].live /\ r.iostream = c.bfd[b].iostream
      /\ r.cacheable = c.bfd[b].cacheable
      /\ r.opened_once = c.bfd[b].opened_once /\ r.pending = c.bfd[b].pending
      /\ r.where = c.bfd[b].where /\ r.stream = s
  BY <1>1 DEF Record
<1> HIDE DEF r, d
<1>4. /\ d \in Caches /\ d.last = c.last /\ d.open_files = c.open_files /\ d.disk = c.disk
      /\ d.bfd = [c.bfd EXCEPT ![b] = r]
  BY <1>1, <1>2, <1>3 DEF Caches
<1>5. StreamSet(c, d, b, s)
  BY <1>1, <1>3, <1>4 DEF StreamSet
<1> QED BY <1>5 DEF d

LEMMA SetsWhere ==
  ASSUME NEW c \in Caches, NEW b \in All, NEW w \in (-Size)..Size
  PROVE  WhereSet(c, [c EXCEPT !.bfd[b].where = w], b, w)
<1> DEFINE r == [c.bfd[b] EXCEPT !.where = w]
           d == [c EXCEPT !.bfd[b].where = w]
<1>1. c.bfd \in [All -> Record] /\ c.bfd[b] \in Record
  BY DEF Caches
<1>2. d = [c EXCEPT !.bfd = [c.bfd EXCEPT ![b] = r]]
  BY <1>1 DEF Caches
<1>3. /\ r \in Record /\ r.next = c.bfd[b].next /\ r.prev = c.bfd[b].prev
      /\ r.live = c.bfd[b].live /\ r.iostream = c.bfd[b].iostream
      /\ r.cacheable = c.bfd[b].cacheable
      /\ r.opened_once = c.bfd[b].opened_once /\ r.pending = c.bfd[b].pending
      /\ r.where = w /\ r.stream = c.bfd[b].stream
  BY <1>1 DEF Record
<1> HIDE DEF r, d
<1>4. /\ d \in Caches /\ d.last = c.last /\ d.open_files = c.open_files /\ d.disk = c.disk
      /\ d.bfd = [c.bfd EXCEPT ![b] = r]
  BY <1>1, <1>2, <1>3 DEF Caches
<1>5. WhereSet(c, d, b, w)
  BY <1>1, <1>3, <1>4 DEF WhereSet
<1> QED BY <1>5 DEF d

LEMMA SetsPending ==
  ASSUME NEW c \in Caches, NEW b \in All, NEW P \in SUBSET (0..Size)
  PROVE  PendingSet(c, [c EXCEPT !.bfd[b].pending = P], b, P)
<1> DEFINE r == [c.bfd[b] EXCEPT !.pending = P]
           d == [c EXCEPT !.bfd[b].pending = P]
<1>1. c.bfd \in [All -> Record] /\ c.bfd[b] \in Record
  BY DEF Caches
<1>2. d = [c EXCEPT !.bfd = [c.bfd EXCEPT ![b] = r]]
  BY <1>1 DEF Caches
<1>3. /\ r \in Record /\ r.next = c.bfd[b].next /\ r.prev = c.bfd[b].prev
      /\ r.live = c.bfd[b].live /\ r.iostream = c.bfd[b].iostream
      /\ r.cacheable = c.bfd[b].cacheable
      /\ r.opened_once = c.bfd[b].opened_once /\ r.pending = P
      /\ r.where = c.bfd[b].where /\ r.stream = c.bfd[b].stream
  BY <1>1 DEF Record
<1> HIDE DEF r, d
<1>4. /\ d \in Caches /\ d.last = c.last /\ d.open_files = c.open_files /\ d.disk = c.disk
      /\ d.bfd = [c.bfd EXCEPT ![b] = r]
  BY <1>1, <1>2, <1>3 DEF Caches
<1>5. PendingSet(c, d, b, P)
  BY <1>1, <1>3, <1>4 DEF PendingSet
<1> QED BY <1>5 DEF d

\* The stream is moved, and "where" set; all output stays.
Moved(c, d, x, s, w) ==
  /\ Touched(c, d, Home[x]) /\ d.disk = c.disk
  /\ \A y \in All : d.bfd[y].pending = c.bfd[y].pending
  /\ d.bfd[Home[x]].stream = s /\ d.bfd[x].where = w
  /\ x # Home[x] => d.bfd[Home[x]].where = c.bfd[Home[x]].where
Places(c, x, s, w) == [[c EXCEPT !.bfd[Home[x]].stream = s] EXCEPT !.bfd[x].where = w]

LEMMA Moves ==
  ASSUME NEW c \in Caches, NEW x \in All, NEW s \in 0..Size, NEW w \in (-Size)..Size
  PROVE  Moved(c, Places(c, x, s, w), x, s, w)
<1> DEFINE b == Home[x]
           d1 == [c EXCEPT !.bfd[b].stream = s]
           d == [d1 EXCEPT !.bfd[x].where = w]
<1>1. b \in BFDs /\ b \in All /\ (x \in BFDs => b = x)
  BY HomeIn
<1>2. Home[x] = b
  OBVIOUS
<1>3. d = Places(c, x, s, w)
  BY DEF Places
<1> HIDE DEF b
<1>4. StreamSet(c, d1, b, s)
  BY <1>1, SetsStream
<1> HIDE DEF d1
<1>5. WhereSet(d1, d, x, w)
  BY <1>4, SetsWhere DEF StreamSet
<1> HIDE DEF d
<1>6. Touched(c, d, b)
  BY <1>1, <1>4, <1>5 DEF StreamSet, WhereSet, Touched, All
<1>7. /\ d.disk = c.disk /\ \A y \in All : d.bfd[y].pending = c.bfd[y].pending
      /\ d.bfd[b].stream = s /\ d.bfd[x].where = w
      /\ x # b => d.bfd[b].where = c.bfd[b].where
  BY <1>1, <1>4, <1>5 DEF StreamSet, WhereSet
<1> QED BY <1>2, <1>3, <1>6, <1>7 DEF Moved

\* Advance moves the stream and "where" alike.
LEMMA Advances ==
  ASSUME NEW c \in Caches, NEW x \in All, NEW n \in Int
  PROVE  Advance(c, x, n) = Places(c, x, c.bfd[Home[x]].stream + n, c.bfd[x].where + n)
<1> DEFINE b == Home[x]
<1>1. b \in All /\ c.bfd \in [All -> Record] /\ c.bfd[b] \in Record
  BY HomeIn DEF Caches
<1> HIDE DEF b
<1> DEFINE s == c.bfd[b].stream + n
           r == [c.bfd[b] EXCEPT !.stream = s]
           d1 == [c EXCEPT !.bfd[b].stream = s]
<1>2. d1.bfd = [c.bfd EXCEPT ![b] = r] /\ r.where = c.bfd[b].where
  BY <1>1 DEF Caches, Record
<1>3. d1.bfd[x].where = c.bfd[x].where
  BY <1>1, <1>2
<1> HIDE DEF r
<1> QED BY <1>3 DEF Advance, Places, b

-----------------------------------------------------------------------------
(* The invariant.                                                          *)

FilesOK(c) ==
  /\ c \in Caches
  /\ \A x \in All : c.bfd[x].iostream => c.bfd[x].live /\ x \in BFDs
  /\ \A x \in All : c.bfd[x].pending # {} => c.bfd[x].iostream
  /\ \A b \in BFDs : c.bfd[b].where >= 0
  /\ \A e \in Elements : c.bfd[e].live => c.bfd[my_archive[e]].live

\* A file that is being written was created.
Once(c) == \A b \in BFDs : c.bfd[b].live /\ Direction[b] = "write" => c.bfd[b].opened_once

\* The inductive invariant, of the cache c, "crashed" and the world.
Good(c, k, w) ==
  /\ FilesOK(c) /\ k \in BOOLEAN /\ w \in Worlds
  /\ w # "failing" => ~k /\ Once(c)
  /\ c.open_files \in 0..Cardinality(BFDs)
  /\ ~k => Ring(c, Streams(c))

\* What WhereRight says, of the BFDs that were not given a file standing somewhere.
Sure == {b \in BFDs \ Archives : Direction[b] = "fd" => FdOffsets \subseteq {0}}
Told(c, A) == \A b \in Sure \ A : c.bfd[b].iostream => c.bfd[b].where = c.bfd[b].stream

\* The ring has the order in which its BFDs were looked up, and the limit is kept.
InOrder == Limited(open_files) /\ (~crashed => Tidy(Cache, Streams(Cache), since))

FilesInv ==
  /\ Good(Cache, crashed, world) /\ (~crashed => Told(Cache, astray)) /\ InOrder
  /\ world # "failing" => astray = {}

\* The BFDs other than b are where they were, and their files as they were.
Apart(c, d, b) ==
  /\ \A y \in All : d.bfd[y].live = c.bfd[y].live
  /\ \A y \in BFDs : y # b => Spot(d, y) = Spot(c, y)
  /\ \A y \in BFDs : y # b => Output(d, y) = Output(c, y)

\* The count stays within the number of BFDs.
LEMMA RingCounts ==
  ASSUME NEW c, NEW S, Ring(c, S)
  PROVE  c.open_files \in 0..Cardinality(BFDs)
<1>1. IsFiniteSet(BFDs) /\ S \subseteq BFDs /\ c.open_files = Cardinality(S)
  BY BfdCacheAssumption DEF Ring
<1>2. Cardinality(S) \in Nat /\ Cardinality(BFDs) \in Nat /\ Cardinality(S) <= Cardinality(BFDs)
  BY <1>1, FS_Subset, FS_CardinalityType
<1> QED BY <1>1, <1>2

\* Other BFDs, evicted or not, keep what FilesOK says of them.
LEMMA EvictedKeeps ==
  ASSUME NEW c, NEW d, FilesOK(c), c \in Caches, d \in Caches, NEW y \in All,
         Evicted(c.bfd[y], d.bfd[y])
  PROVE  /\ d.bfd[y].live = c.bfd[y].live
         /\ d.bfd[y].opened_once = c.bfd[y].opened_once
         /\ d.bfd[y].iostream => c.bfd[y].iostream
         /\ d.bfd[y].pending # {} => d.bfd[y].iostream
         /\ y \in BFDs => d.bfd[y].where >= 0
         /\ Spot(d, y) = Spot(c, y)
<1>1. c.bfd[y] \in Record /\ d.bfd[y] \in Record
  BY DEF Caches
<1>2. /\ c.bfd[y].iostream \in BOOLEAN /\ d.bfd[y].iostream \in BOOLEAN /\ c.bfd[y].stream \in 0..Size
      /\ Size \in Nat
  BY <1>1, BfdCacheAssumption DEF Record
<1>3. CASE d.bfd[y].iostream = c.bfd[y].iostream /\ d.bfd[y].where = c.bfd[y].where
           /\ d.bfd[y].pending = c.bfd[y].pending
  BY <1>3 DEF FilesOK, Evicted, Spot
<1>4. CASE c.bfd[y].iostream /\ ~d.bfd[y].iostream /\ d.bfd[y].where = c.bfd[y].stream
           /\ d.bfd[y].pending = {}
  BY <1>2, <1>4 DEF FilesOK, Evicted, Spot
<1> QED BY <1>3, <1>4 DEF Evicted

\* All but b as Evicted says, and b as it was: that is enough for FilesOK.
LEMMA StaysOK ==
  ASSUME NEW c, NEW d, FilesOK(c), d \in Caches, NEW b \in BFDs,
         \A y \in All : y # b => Evicted(c.bfd[y], d.bfd[y]),
         d.bfd[b].live = c.bfd[b].live, c.bfd[b].live, d.bfd[b].where >= 0,
         d.bfd[b].pending # {} => d.bfd[b].iostream
  PROVE  FilesOK(d)
<1>1. c \in Caches /\ b \in All
  BY DEF FilesOK, All
<1>2. \A y \in All : y # b =>
         /\ d.bfd[y].live = c.bfd[y].live /\ (d.bfd[y].iostream => c.bfd[y].iostream)
         /\ (d.bfd[y].pending # {} => d.bfd[y].iostream)
         /\ (y \in BFDs => d.bfd[y].where >= 0)
  BY <1>1, EvictedKeeps
<1>3. \A y \in All : d.bfd[y].live = c.bfd[y].live
  BY <1>2
<1>4. \A y \in All : d.bfd[y].iostream => d.bfd[y].live /\ y \in BFDs
  BY <1>2, <1>3 DEF FilesOK
<1>5. \A e \in Elements : e \in All /\ my_archive[e] \in All
  BY BfdCacheAssumption DEF All
<1>6. \A e \in Elements : d.bfd[e].live => d.bfd[my_archive[e]].live
  BY <1>3, <1>5 DEF FilesOK
<1>7. \A y \in All : d.bfd[y].pending # {} => d.bfd[y].iostream
  BY <1>2
<1>8. \A y \in BFDs : d.bfd[y].where >= 0
  BY <1>2 DEF All
<1> QED BY <1>4, <1>6, <1>7, <1>8 DEF FilesOK

\* After a lookup that went well and what the call did with the stream.
LEMMA AfterLookup ==
  ASSUME NEW c, NEW k, Good(c, k, world), NEW b \in BFDs, c.bfd[b].live, NEW o, Finds(c, b, o), o.ok,
         NEW d, Touched(o.c, d, b), d.bfd[b].where >= 0
  PROVE  Good(d, FALSE, world) /\ Apart(c, d, b)
<1>1. FilesOK(c) /\ c \in Caches /\ b \in All
  BY DEF Good, FilesOK, All
<1>2. /\ o.c \in Caches /\ \A x \in All : x # b => Evicted(c.bfd[x], o.c.bfd[x])
      /\ o.c.bfd[b].live = c.bfd[b].live /\ Ring(o.c, Streams(o.c)) /\ o.c.bfd[b].iostream
      /\ c.bfd[b].opened_once => o.c.bfd[b].opened_once
      /\ \A y \in BFDs : y # b => Output(o.c, y) = Output(c, y)
  BY DEF Finds
<1>3. d \in Caches /\ d.last = o.c.last /\ d.open_files = o.c.open_files
  BY DEF Touched
<1>4. \A y \in All : /\ d.bfd[y].next = o.c.bfd[y].next /\ d.bfd[y].prev = o.c.bfd[y].prev
                     /\ d.bfd[y].live = o.c.bfd[y].live /\ d.bfd[y].iostream = o.c.bfd[y].iostream
                     /\ d.bfd[y].opened_once = o.c.bfd[y].opened_once
  BY DEF Touched
<1>5. Ring(d, Streams(d))
  <2>1. Streams(d) = Streams(o.c)
    BY <1>4 DEF Streams
  <2>2. Ring(d, Streams(o.c))
    <3>1. \A y \in Streams(o.c) : d.bfd[y].next = o.c.bfd[y].next /\ d.bfd[y].prev = o.c.bfd[y].prev
      BY <1>4 DEF Streams
    <3> QED BY <1>2, <1>3, <3>1, SameRing
  <2> QED BY <2>1, <2>2
<1>6. \A y \in All : y # b =>
         /\ o.c.bfd[y].live = c.bfd[y].live /\ o.c.bfd[y].opened_once = c.bfd[y].opened_once
         /\ (o.c.bfd[y].iostream => c.bfd[y].iostream)
         /\ (o.c.bfd[y].pending # {} => o.c.bfd[y].iostream)
         /\ (y \in BFDs => o.c.bfd[y].where >= 0)
         /\ Spot(o.c, y) = Spot(c, y)
  BY <1>1, <1>2, EvictedKeeps
<1>7. \A y \in All : d.bfd[y].live = c.bfd[y].live
  BY <1>2, <1>4, <1>6
<1>8. \A y \in BFDs : y # b => Spot(d, y) = Spot(c, y)
  <2>1. \A y \in BFDs : y # b => Spot(d, y) = Spot(o.c, y)
    BY <1>4 DEF Spot, Touched, All
  <2> QED BY <1>6, <2>1 DEF All
<1>9. Once(c) => Once(d)
  BY <1>2, <1>4, <1>6, <1>7 DEF Once, All
<1>10. \A y \in BFDs : y # b => Output(d, y) = Output(c, y)
  <2>1. \A y \in BFDs : y # b => Output(d, y) = Output(o.c, y)
    BY DEF Touched, Output, All
  <2> QED BY <1>2, <2>1
<1>11. FilesOK(d)
  <2>1. \A y \in All : d.bfd[y].iostream => d.bfd[y].live /\ y \in BFDs
    BY <1>1, <1>4, <1>6, <1>7 DEF FilesOK
  <2>2. \A y \in All : d.bfd[y].pending # {} => d.bfd[y].iostream
    BY <1>2, <1>4, <1>6 DEF Touched
  <2>3. \A y \in BFDs : d.bfd[y].where >= 0
    BY <1>6 DEF Touched, All
  <2>4. \A e \in Elements : e \in All /\ my_archive[e] \in All
    BY BfdCacheAssumption DEF All
  <2>5. \A e \in Elements : d.bfd[e].live => d.bfd[my_archive[e]].live
    BY <1>1, <1>7, <2>4 DEF FilesOK
  <2> QED BY <1>3, <2>1, <2>2, <2>3, <2>5 DEF FilesOK
<1>12. d.open_files \in 0..Cardinality(BFDs)
  BY <1>5, RingCounts
<1>13. Good(d, FALSE, world)
  BY <1>5, <1>9, <1>11, <1>12 DEF Good
<1> QED BY <1>7, <1>8, <1>10, <1>13 DEF Apart

\* After one that did not go well: the call crashes, or (bfd_stat) gives up when there is no
\* stream, or one in the ring.
LEMMA AfterFailure ==
  ASSUME NEW c, NEW k, Good(c, k, world), NEW b \in BFDs, c.bfd[b].live, NEW o, Finds(c, b, o), ~o.ok,
         NEW j \in BOOLEAN, o.c.bfd[b].iostream /\ o.c.last # b => j
  PROVE  Good(o.c, j, world)
<1>1. /\ FilesOK(c) /\ c \in Caches /\ b \in All /\ world \in Worlds /\ world = "failing"
  BY DEF Good, FilesOK, All, Finds
<1>2. /\ o.c \in Caches /\ \A x \in All : x # b => Evicted(c.bfd[x], o.c.bfd[x])
      /\ o.c.bfd[b].live = c.bfd[b].live /\ o.c.bfd[b].where = c.bfd[b].where
      /\ o.c.bfd[b].pending = c.bfd[b].pending /\ ~c.bfd[b].iostream
      /\ Ring(o.c, Streams(o.c) \ {b}) \/ Ring(o.c, Streams(o.c))
  BY DEF Finds
<1>3. o.c.bfd[b].where >= 0 /\ o.c.bfd[b].pending = {}
  BY <1>1, <1>2 DEF FilesOK
<1>4. FilesOK(o.c)
  BY <1>1, <1>2, <1>3, StaysOK
<1>5. o.c.open_files \in 0..Cardinality(BFDs)
  BY <1>2, RingCounts
<1>6. ~j => Ring(o.c, Streams(o.c))
  <2> SUFFICES ASSUME ~j, Ring(o.c, Streams(o.c) \ {b}) PROVE Ring(o.c, Streams(o.c))
    BY <1>2
  <2>1. o.c.last # b
    BY BfdCacheAssumption DEF Ring
  <2>2. Streams(o.c) \ {b} = Streams(o.c)
    BY <2>1 DEF Streams
  <2> QED BY <2>2
<1> QED BY <1>1, <1>2, <1>4, <1>5, <1>6 DEF Good

\* All but b as Evicted says, and b open and standing where it was: WhereRight stays.
LEMMA ToldAfter ==
  ASSUME NEW c \in Caches, NEW A, Told(c, A), NEW b \in BFDs, NEW o, Finds(c, b, o)
  PROVE  /\ \A y \in Sure \ A : y # b =>
              (o.c.bfd[y].iostream => o.c.bfd[y].where = o.c.bfd[y].stream)
         /\ o.ok /\ b \in Sure \ A => o.c.bfd[b].where = o.c.bfd[b].stream
         /\ Told(o.c, A \cup {b})
<1>1. \A y \in All : y # b => Evicted(c.bfd[y], o.c.bfd[y])
  BY DEF Finds
<1>2. \A y \in Sure \ A : y # b =>
              (o.c.bfd[y].iostream => o.c.bfd[y].where = o.c.bfd[y].stream)
  BY <1>1 DEF Evicted, Told, Sure, All
<1>3. o.ok /\ b \in Sure \ A => o.c.bfd[b].where = o.c.bfd[b].stream
  BY DEF Finds, Told, Spot
<1> QED BY <1>2, <1>3 DEF Told

LEMMA ToldMoved ==
  ASSUME NEW c \in Caches, NEW A, Told(c, A), NEW b \in BFDs, NEW o, Finds(c, b, o), o.ok,
         NEW d, Touched(o.c, d, b), NEW S, (A \cap BFDs) \ {b} \subseteq S,
         b \in Sure \ S => d.bfd[b].where = d.bfd[b].stream
  PROVE  Told(d, S)
<1>1. \A y \in All : y # b => Evicted(c.bfd[y], o.c.bfd[y])
  BY DEF Finds
<1>2. \A y \in Sure \ A : y # b =>
              (o.c.bfd[y].iostream => o.c.bfd[y].where = o.c.bfd[y].stream)
  BY <1>1 DEF Evicted, Told, Sure, All
<1> QED BY <1>2 DEF Told, Sure, Touched, All

-----------------------------------------------------------------------------
(* The calls that look a BFD up.                                           *)

\* A call went well: the file of b stands at p, and W was written to it; the streams that are
\* not at their place are among those of S.
Well(c, d, b, p, W, S) ==
  /\ Good(d, FALSE, world) /\ Apart(c, d, b) /\ Spot(d, b) = p
  /\ world # "failing" /\ Once(c) => Output(d, b) = W
  /\ Told(c, astray) => Told(d, S)
  /\ Uses(c, d, b)

LEMMA GoesWell ==
  ASSUME NEW c, NEW k, Good(c, k, world), NEW b \in BFDs, c.bfd[b].live, NEW o, Finds(c, b, o), o.ok,
         NEW d, Touched(o.c, d, b), d.bfd[b].where >= 0, NEW p, d.bfd[b].stream = p,
         NEW W, world # "failing" /\ Once(c) => Output(d, b) = W,
         NEW S, (astray \cap BFDs) \ {b} \subseteq S,
         Told(c, astray) /\ b \in Sure \ S => d.bfd[b].where = p
  PROVE  Well(c, d, b, p, W, S)
<1>1. c \in Caches /\ b \in All
  BY DEF Good, FilesOK, All
<1>2. Good(d, FALSE, world) /\ Apart(c, d, b)
  BY AfterLookup
<1>3. d.bfd[b].iostream
  BY <1>1 DEF Finds, Touched
<1>4. Told(c, astray) => Told(d, S)
  BY <1>1, ToldMoved
<1>5. Uses(c, d, b)
  <2>1. Streams(d) = Streams(o.c)
    BY DEF Touched, Streams
  <2>2. \A y \in Streams(o.c) : d.bfd[y].next = o.c.bfd[y].next /\ d.bfd[y].cacheable = o.c.bfd[y].cacheable
    BY DEF Touched, Streams
  <2>3. Links(o.c, Streams(o.c)) /\ d.last = o.c.last /\ d.open_files = o.c.open_files /\ Uses(c, o.c, b)
    BY DEF Finds, Ring, Touched
  <2>4. Keeps(o.c, Streams(o.c), d, Streams(o.c))
    BY <2>2, <2>3, SameTidy
  <2> QED BY <2>1, <2>3, <2>4 DEF Uses, Keeps
<1> QED BY <1>2, <1>3, <1>4, <1>5 DEF Well, Spot

\* The place of an element is not touched by the search for its archive, nor that of a BFD
\* by its own.
LEMMA WhereKept ==
  ASSUME NEW c, FilesOK(c), NEW x \in All, NEW o, Finds(c, Home[x], o)
  PROVE  o.c.bfd[x].where = c.bfd[x].where
<1>1. CASE x = Home[x]
  BY <1>1 DEF Finds
<1>2. CASE x # Home[x]
  <2>1. Evicted(c.bfd[x], o.c.bfd[x]) /\ ~c.bfd[x].iostream
    BY <1>2, HomeIn DEF Finds, FilesOK
  <2> QED BY <2>1 DEF Evicted
<1> QED BY <1>1, <1>2

\* Any output is kept by the search, when the file was created.
LEMMA OutputKept ==
  ASSUME NEW c, NEW b \in BFDs, c.bfd[b].live, NEW o, Finds(c, b, o), o.ok, Once(c),
         world # "failing"
  PROVE  Output(o.c, b) = Output(c, b)
BY DEF Finds, Once

\* A call that only moves the stream goes well.
LEMMA MovesWell ==
  ASSUME NEW c, NEW k, Good(c, k, world), NEW x \in All, c.bfd[Home[x]].live,
         NEW o, Finds(c, Home[x], o), o.ok,
         NEW s \in 0..Size, NEW w \in (-Size)..Size, x \in BFDs => w >= 0,
         NEW S, astray \ {x} \subseteq S, Told(c, astray) /\ x \in Sure \ S => w = s,
         NEW d, d = Places(o.c, x, s, w)
  PROVE  Well(c, d, Home[x], s, Output(c, Home[x]), S)
<1> DEFINE b == Home[x]
<1>1. /\ b \in BFDs /\ b \in All /\ (x \in BFDs => b = x)
      /\ (x \notin BFDs => x \in Elements /\ b = my_archive[x])
  BY HomeIn
<1>2. b = Home[x]
  OBVIOUS
<1> HIDE DEF b
<1>3. o.c \in Caches /\ FilesOK(c)
  BY DEF Finds, Good
<1>4. Moved(o.c, d, x, s, w)
  BY <1>3, Moves
<1>5. /\ Touched(o.c, d, b) /\ d.disk = o.c.disk /\ d.bfd[b].pending = o.c.bfd[b].pending
      /\ d.bfd[b].stream = s /\ d.bfd[x].where = w
      /\ x # b => d.bfd[b].where = o.c.bfd[b].where
  BY <1>1, <1>2, <1>4 DEF Moved
<1>6. o.c.bfd[b].where = c.bfd[b].where /\ c.bfd[b].where >= 0
  BY <1>1, <1>2, <1>3 DEF Finds, FilesOK
<1>7. d.bfd[b].where >= 0
  BY <1>1, <1>5, <1>6
<1>8. (b \in Sure => x \in Sure /\ x = b) /\ (astray \cap BFDs) \ {b} \subseteq S
  BY <1>1 DEF Archives, Sure
<1>9. Told(c, astray) /\ b \in Sure \ S => d.bfd[b].where = s
  BY <1>5, <1>8
<1>10. world # "failing" /\ Once(c) => Output(d, b) = Output(c, b)
  <2>1. Output(d, b) = Output(o.c, b)
    BY <1>5 DEF Output
  <2> QED BY <1>1, <1>2, <2>1, OutputKept
<1>11. Well(c, d, b, s, Output(c, b), S)
  <2> DEFINE W == Output(c, b)
  <2> HIDE DEF W
  <2>1. world # "failing" /\ Once(c) => Output(d, b) = W
    BY <1>10 DEF W
  <2>2. Well(c, d, b, s, W, S)
    BY <1>1, <1>2, <1>5, <1>7, <1>8, <1>9, <2>1, GoesWell
  <2> QED BY <2>2 DEF W
<1> QED BY <1>2, <1>11

\* The limit is kept, and the order of the ring, unless there is a crash.
Orderly ==
  Tidy(Cache, Streams(Cache), since) =>
    Limited(Cache'.open_files) /\ (~crashed' => Tidy(Cache', Streams(Cache'), since'))

\* The streams that are not at the place of their BFD are those of "astray"; there are no
\* more of them unless something fails.
Placed ==
  /\ Told(Cache, astray) /\ ~crashed' => Told(Cache', astray')
  /\ world # "failing" => astray' \subseteq astray

LEMMA Placing ==
  ASSUME NEW S, Stray(S), crashed' \/ (Told(Cache, astray) => Told(Cache', S)),
         world # "failing" => S \subseteq astray
  PROVE  Placed
<1>1. Cache'.bfd = bfd' /\ astray' = {b \in S : bfd'[b].iostream}
  BY DEF Cache, Stray
<1>2. Told(Cache', S) => Told(Cache', astray')
  BY <1>1 DEF Told
<1> QED BY <1>1, <1>2 DEF Placed

\* What a call that looks x up comes to: it fails, and may crash, or goes well.
Happens(x, p, W) ==
  /\ world' = world /\ bfd[x].live /\ ~crashed /\ Orderly /\ Placed
  /\ \/ world = "failing" /\ Good(Cache', crashed', world)
     \/ crashed' = FALSE /\ \E S : Well(Cache, Cache', Home[x], p, W, S)

\* Becomes gives the new cache.
LEMMA BecomesCache ==
  ASSUME NEW d \in Caches, Becomes(d)
  PROVE  Cache' = d
BY DEF Becomes, Cache, Caches

\* What holds before the call uses the stream.
Before(c, x, o) ==
  /\ x \in All /\ Finds(c, Home[x], o) /\ c.bfd[x].live /\ c.bfd[Home[x]].live
  /\ c \in Caches /\ o.c \in Caches /\ PlaceOf(c, x) = Spot(c, Home[x]) /\ PlaceOf(c, x) \in 0..Size
  /\ o.ok => o.c.bfd[Home[x]].stream = PlaceOf(c, x)
  /\ o.c.bfd[x].where = c.bfd[x].where /\ c.bfd[x].where \in (-Size)..Size
  /\ x \in BFDs => c.bfd[x].where >= 0
  /\ Told(c, astray) /\ x \in Sure \ astray => c.bfd[x].where = PlaceOf(c, x)

\* All that was true before the call, and what the lookup did.
LEMMA Searched ==
  ASSUME FilesInv, NEW x \in All, bfd[x].live, ~crashed, NEW o \in bfd_cache_lookup(Cache, x)
  PROVE  Before(Cache, x, o)
<1> DEFINE c == Cache
           b == Home[x]
<1>1. c.bfd = bfd
  BY DEF Cache
<1>2. /\ b \in BFDs /\ b \in All /\ (x \in BFDs => b = x)
      /\ (x \notin BFDs => x \in Elements /\ b = my_archive[x])
  BY HomeIn
<1> HIDE DEF c
<1>3. FilesOK(c) /\ c \in Caches /\ Ring(c, Streams(c))
  BY DEF FilesInv, Good, FilesOK, c
<1>4. Finds(c, b, o)
  <2>1. c.bfd[b].where >= 0
    BY <1>2, <1>3 DEF FilesOK
  <2> QED BY <1>3, <2>1, LooksUp DEF c
<1>5. c.bfd[b].live /\ c.bfd[x].live
  BY <1>1, <1>2, <1>3 DEF FilesOK
<1>6. PlaceOf(c, x) = Spot(c, b)
  BY DEF PlaceOf, Spot
<1>7. c.bfd[b] \in Record /\ c.bfd[x] \in Record
  BY <1>2, <1>3 DEF Caches
<1>8. c.bfd[x].where \in (-Size)..Size /\ c.bfd[b].where >= 0
  BY <1>2, <1>3, <1>7 DEF Record, FilesOK
<1>9. Spot(c, b) \in 0..Size
  <2>1. /\ c.bfd[b].stream \in 0..Size /\ c.bfd[b].where \in (-Size)..Size /\ Size \in Nat
        /\ c.bfd[b].where >= 0
    BY <1>7, <1>8, BfdCacheAssumption DEF Record
  <2>2. c.bfd[b].where \in 0..Size
    BY <2>1
  <2> QED BY <2>1, <2>2 DEF Spot
<1>10. o.c.bfd[x].where = c.bfd[x].where
  BY <1>3, <1>4, WhereKept
<1>11. o.c \in Caches /\ (o.ok => o.c.bfd[b].stream = Spot(c, b))
  BY <1>4 DEF Finds
<1>12. Told(c, astray) /\ x \in Sure \ astray => c.bfd[x].where = Spot(c, b)
  BY <1>2 DEF Told, Sure, Spot
<1>13. x \in BFDs => c.bfd[x].where >= 0
  BY <1>2, <1>8
<1>14. Before(c, x, o)
  BY <1>3, <1>4, <1>5, <1>6, <1>8, <1>9, <1>10, <1>11, <1>12, <1>13 DEF Before
<1> QED BY <1>14 DEF c

\* The call that finds no stream, or one that was not moved.
LEMMA FindsNone ==
  ASSUME FilesInv, NEW x, NEW o, Before(Cache, x, o), ~o.ok, ~crashed, NEW p, NEW W,
         Becomes(o.c), world' = world, crashed' \in BOOLEAN,
         o.c.bfd[Home[x]].iostream /\ o.c.last # Home[x] => crashed',
         crashed' \/ since' = IF o.c.last = Home[x] THEN Used(since, Home[x]) ELSE since,
         NEW S, Stray(S), crashed' \/ S = astray \cup {Home[x]}
  PROVE  Happens(x, p, W)
<1>1. /\ Finds(Cache, Home[x], o) /\ Home[x] \in BFDs /\ Cache.bfd[Home[x]].live /\ o.c \in Caches
      /\ Cache \in Caches /\ Cache.bfd = bfd /\ bfd[x].live
  BY HomeIn DEF Before, Cache
<1>2. Cache' = o.c
  BY <1>1, BecomesCache
<1>3. Good(o.c, crashed', world)
  BY <1>1, AfterFailure DEF FilesInv
<1>4. world = "failing"
  BY <1>1 DEF Finds
<1>5. Placed
  <2>1. crashed' \/ (Told(Cache, astray) => Told(Cache', S))
    BY <1>1, <1>2, ToldAfter
  <2> QED BY <1>4, <2>1, Placing
<1>6. Orderly
  <2> SUFFICES ASSUME Tidy(Cache, Streams(Cache), since)
               PROVE  Limited(o.c.open_files) /\ (~crashed' => Tidy(o.c, Streams(o.c), since'))
    BY <1>2 DEF Orderly
  <2> DEFINE b == Home[x]
  <2>1. \/ Ring(o.c, Streams(o.c) \ {b}) /\ Tidy(o.c, Streams(o.c) \ {b}, since)
        \/ o.c.bfd[b].iostream /\ Tidy(o.c, Streams(o.c), Used(since, b))
    BY <1>1 DEF Finds, Keeps, Uses
  <2>2. CASE Ring(o.c, Streams(o.c) \ {b}) /\ Tidy(o.c, Streams(o.c) \ {b}, since)
    <3>1. o.c.last # b
      BY <1>1, <2>2, BfdCacheAssumption DEF Ring
    <3>2. ~crashed' => Streams(o.c) \ {b} = Streams(o.c) /\ since' = since
      BY <3>1 DEF Streams
    <3> QED BY <2>2, <3>2 DEF Tidy
  <2>3. CASE o.c.bfd[b].iostream /\ Tidy(o.c, Streams(o.c), Used(since, b))
    <3>1. b \in Streams(o.c)
      BY <1>1, <2>3, HomeIn DEF Streams, All
    <3>2. o.c.last = b
      <4> DEFINE T == Streams(o.c)
      <4> HIDE DEF T, b
      <4>1. Ordered(o.c, T, Used(since, b)) /\ b \in T
        BY <2>3, <3>1 DEF Tidy, T
      <4>2. o.c.last \in DOMAIN since \cup {b} /\ Used(since, b)[o.c.last] \cap T = {}
        BY <4>1 DEF Ordered, Used
      <4> QED BY <4>1, <4>2 DEF Used
    <3> QED BY <2>3, <3>2 DEF Tidy
  <2> QED BY <2>1, <2>2, <2>3
<1> QED BY <1>1, <1>2, <1>3, <1>4, <1>5, <1>6 DEF Happens

\* The call that goes well.
LEMMA Succeeds ==
  ASSUME NEW x, NEW p, NEW W, NEW d, NEW S, Well(Cache, d, Home[x], p, W, S), Becomes(d),
         world' = world, crashed' = FALSE, bfd[x].live, ~crashed, since' = Used(since, Home[x]),
         Stray(S), world # "failing" => S \subseteq astray
  PROVE  Happens(x, p, W)
<1>1. d \in Caches
  BY DEF Well, Good, FilesOK
<1>2. Cache' = d
  BY <1>1, BecomesCache
<1>3. Orderly
  BY <1>2 DEF Orderly, Well, Uses, Tidy
<1>4. Placed
  <2>1. Told(Cache, astray) => Told(Cache', S)
    BY <1>2 DEF Well
  <2> QED BY <2>1, Placing
<1> QED BY <1>2, <1>3, <1>4 DEF Happens

\* A BFD that was looked up is the first of the ring.
LEMMA LookedUpFirst ==
  ASSUME InOrder, ~crashed, NEW b \in BFDs, NEW o, Finds(Cache, b, o), o.ok
  PROVE  o.c.last = b
<1> DEFINE T == Streams(o.c)
<1>1. Tidy(Cache, Streams(Cache), since)
  BY DEF InOrder
<1>2. Ordered(o.c, T, Used(since, b)) /\ b \in T
  BY <1>1 DEF Finds, Uses, Tidy, Streams, All
<1> HIDE DEF T
<1>3. o.c.last \in DOMAIN since \cup {b} /\ Used(since, b)[o.c.last] \cap T = {}
  BY <1>2 DEF Ordered, Used
<1> QED BY <1>2, <1>3 DEF Used

\* In a failing world it does not matter where the stream is left.
LEMMA AnyPlace ==
  ASSUME world = "failing", NEW x, NEW k, NEW V, Happens(x, k, V), NEW p, NEW W
  PROVE  Happens(x, p, W)
BY DEF Happens, Well

\* The stream and "where" have been moved, and the stream once more, and there is more output.
Filled(c, b, k, out) == [c EXCEPT !.bfd[b].stream = k, !.bfd[b].pending = @ \cup out]

LEMMA MovesFilled ==
  ASSUME NEW c \in Caches, NEW x \in All, NEW s \in 0..Size, NEW w \in (-Size)..Size,
         NEW k \in 0..Size, NEW out \in SUBSET (0..Size), NEW d,
         d = Filled(Places(c, x, s, w), Home[x], k, out)
  PROVE  /\ Touched(c, d, Home[x]) /\ d.bfd[Home[x]].stream = k
         /\ d.bfd[Home[x]].where = IF x \in BFDs THEN w ELSE c.bfd[Home[x]].where
<1> DEFINE b == Home[x]
           e == Places(c, x, s, w)
           g == [e EXCEPT !.bfd[b].stream = k]
           P == g.bfd[b].pending \cup out
           q == [g EXCEPT !.bfd[b].pending = P]
<1>1. b \in BFDs /\ b \in All /\ (x \in BFDs => b = x) /\ (x \notin BFDs => b # x)
  BY HomeIn
<1>2. Moved(c, e, x, s, w) /\ b = Home[x]
  BY Moves
<1>3. d = q
  BY DEF Filled
<1> HIDE DEF b, e
<1>4. Touched(c, e, b) /\ e \in Caches
  BY <1>2 DEF Moved, Touched
<1>5. StreamSet(e, g, b, k)
  BY <1>1, <1>4, SetsStream
<1> HIDE DEF g
<1>6. P \in SUBSET (0..Size) /\ g \in Caches
  <2>1. g \in Caches /\ g.bfd[b] \in Record
    BY <1>1, <1>5 DEF StreamSet, Caches
  <2> QED BY <2>1 DEF Record
<1> HIDE DEF P
<1>7. PendingSet(g, q, b, P)
  BY <1>1, <1>6, SetsPending
<1> HIDE DEF q
<1>8. Touched(c, q, b)
  BY <1>1, <1>4, <1>5, <1>7 DEF StreamSet, PendingSet, Touched, All
<1>9. q.bfd[b].stream = k /\ q.bfd[b].where = IF x \in BFDs THEN w ELSE c.bfd[b].where
  BY <1>1, <1>2, <1>5, <1>7 DEF Moved, StreamSet, PendingSet
<1> QED BY <1>2, <1>3, <1>8, <1>9

\* What each call comes to: first one that fails on the stream, or finds none.
LEMMA FailsHappens ==
  ASSUME FilesInv, NEW x \in All, NEW n \in {0, 1}, NEW out \in SUBSET (0..Size), Fails(x, n, out),
         PlaceOf(Cache, x) + n <= Size, bfd[x].where + n <= Size, NEW p, NEW W
  PROVE  Happens(x, p, W) /\ world = "failing"
<1> DEFINE full(c, k) == Filled(Advance(c, x, n), Home[x], k, out)
<1>1. PICK k \in 0..Size : \E o \in bfd_cache_lookup(Cache, x) :
        Becomes(IF o.ok THEN full(o.c, k) ELSE o.c) /\ crashed' = ~o.ok
  BY DEF Fails, Lookup, Filled
<1>2. PICK o \in bfd_cache_lookup(Cache, x) :
        Becomes(IF o.ok THEN full(o.c, k) ELSE o.c) /\ crashed' = ~o.ok
  BY <1>1
<1> HIDE DEF full
<1>3. /\ since' = Used(since, Home[x]) /\ ~crashed /\ bfd[x].live /\ world' = world
      /\ Cache.bfd = bfd /\ world = "failing"
  BY DEF Fails, Lookup, Cache, UsedNow, Used
<1>4. Before(Cache, x, o) /\ Home[x] \in BFDs
  BY <1>3, Searched, HomeIn
<1> DEFINE S == astray \cup {Home[x]}
<1>5. Stray(S)
  BY DEF Fails
<1> HIDE DEF S
<1>6. CASE ~o.ok
  <2>1. Becomes(o.c) /\ crashed' = TRUE
    BY <1>2, <1>6
  <2> QED BY <1>3, <1>4, <1>5, <1>6, <2>1, FindsNone
<1>7. CASE o.ok
  <2> DEFINE s == PlaceOf(Cache, x) + n
             w == bfd[x].where + n
             e == Advance(o.c, x, n)
             d == full(o.c, k)
  <2>1. /\ o.c \in Caches /\ PlaceOf(Cache, x) \in 0..Size /\ Size \in Nat
        /\ bfd[x].where \in (-Size)..Size /\ o.c.bfd[Home[x]].stream = PlaceOf(Cache, x)
        /\ o.c.bfd[x].where = bfd[x].where /\ (x \in BFDs => bfd[x].where >= 0)
        /\ Finds(Cache, Home[x], o) /\ Cache.bfd[Home[x]].live /\ Cache \in Caches
    BY <1>3, <1>4, <1>7, BfdCacheAssumption DEF Before
  <2>2. s \in 0..Size /\ w \in (-Size)..Size /\ (x \in BFDs => w >= 0)
    BY <2>1
  <2>3. e = Places(o.c, x, s, w)
    BY <2>1, Advances
  <2>4. d = Filled(Places(o.c, x, s, w), Home[x], k, out)
    BY <2>3 DEF full
  <2> HIDE DEF s, w, e, d
  <2>5. /\ Touched(o.c, d, Home[x]) /\ d.bfd[Home[x]].stream = k
        /\ d.bfd[Home[x]].where = IF x \in BFDs THEN w ELSE o.c.bfd[Home[x]].where
    <3> DEFINE a == o.c
    <3>1. a \in Caches /\ d = Filled(Places(a, x, s, w), Home[x], k, out)
      BY <2>1, <2>4
    <3>2. s \in 0..Size /\ w \in (-Size)..Size
      BY <2>2
    <3> HIDE DEF a
    <3>3. /\ Touched(a, d, Home[x]) /\ d.bfd[Home[x]].stream = k
          /\ d.bfd[Home[x]].where = IF x \in BFDs THEN w ELSE a.bfd[Home[x]].where
      BY <3>1, <3>2, MovesFilled
    <3> QED BY <3>3 DEF a
  <2>6. d.bfd[Home[x]].where >= 0
    <3>1. o.c.bfd[Home[x]].where = Cache.bfd[Home[x]].where /\ Cache.bfd[Home[x]].where >= 0
      BY <1>4, <2>1 DEF Finds, FilesInv, Good, FilesOK
    <3> QED BY <2>2, <2>5, <3>1
  <2> DEFINE V == Output(d, Home[x])
  <2>7. Well(Cache, d, Home[x], k, V, S)
    <3>1. (astray \cap BFDs) \ {Home[x]} \subseteq S /\ Home[x] \in S
      BY DEF S
    <3>2. Good(Cache, crashed, world)
      BY DEF FilesInv
    <3> QED BY <1>3, <1>4, <1>7, <2>1, <2>5, <2>6, <3>1, <3>2, GoesWell
  <2>8. Becomes(d) /\ crashed' = FALSE
    BY <1>2, <1>7 DEF d
  <2> HIDE DEF V
  <2>9. Happens(x, k, V)
    BY <1>3, <1>5, <2>7, <2>8, Succeeds
  <2> QED BY <1>3, <2>9, AnyPlace
<1>8. o.ok \in BOOLEAN
  BY <1>4 DEF Before, Finds
<1> QED BY <1>3, <1>6, <1>7, <1>8

\* One that sets the stream and "where", as read, tell, seek and a seek that failed do.
LEMMA PlacesHappens ==
  ASSUME FilesInv, NEW x \in All, bfd[x].live, ~crashed, NEW o \in bfd_cache_lookup(Cache, x),
         NEW s \in 0..Size, NEW w \in (-Size)..Size, x \in BFDs => w >= 0,
         Becomes(IF o.ok THEN Places(o.c, x, s, w) ELSE o.c), crashed' = ~o.ok,
         since' = Used(since, Home[x]), world' = world,
         NEW S, astray \ {x} \subseteq S, S \subseteq astray, Stray(S),
         Told(Cache, astray) /\ x \in Sure \ S => w = s
  PROVE  Happens(x, s, Output(Cache, Home[x]))
<1>1. Before(Cache, x, o) /\ Cache.bfd = bfd
  BY Searched DEF Cache
<1> DEFINE W == Output(Cache, Home[x])
<1> HIDE DEF W
<1>2. CASE ~o.ok
  <2>1. Becomes(o.c) /\ crashed' = TRUE
    BY <1>2
  <2> QED BY <1>1, <1>2, <2>1, FindsNone
<1>3. CASE o.ok
  <2> DEFINE d == Places(o.c, x, s, w)
  <2>1. Finds(Cache, Home[x], o) /\ Cache.bfd[Home[x]].live /\ Good(Cache, crashed, world)
    BY <1>1 DEF Before, FilesInv
  <2>2. Becomes(d) /\ crashed' = FALSE
    BY <1>3
  <2>3. d = Places(o.c, x, s, w)
    OBVIOUS
  <2> HIDE DEF d
  <2>4. Well(Cache, d, Home[x], s, W, S)
    BY <1>3, <2>1, <2>3, MovesWell DEF W
  <2>5. Happens(x, s, W)
    BY <2>2, <2>4, Succeeds
  <2> QED BY <2>5 DEF W
<1>4. o.ok \in BOOLEAN
  BY <1>1 DEF Before, Finds
<1> QED BY <1>2, <1>3, <1>4

\* When fseek has failed bfd_tell gives the place.
LEMMA SeekFailsHappens ==
  ASSUME FilesInv, NEW x \in All, SeekFails(x), NEW p, NEW W
  PROVE  Happens(x, p, W) /\ world = "failing"
<1>1. PICK k \in 0..Size : \E o \in bfd_cache_lookup(Cache, x) :
        Becomes(IF o.ok THEN Places(o.c, x, k, k - Origin[x]) ELSE o.c) /\ crashed' = ~o.ok
  BY DEF SeekFails, Lookup, Redetermined, Places
<1>2. PICK o \in bfd_cache_lookup(Cache, x) :
        Becomes(IF o.ok THEN Places(o.c, x, k, k - Origin[x]) ELSE o.c) /\ crashed' = ~o.ok
  BY <1>1
<1>3. /\ since' = Used(since, Home[x]) /\ ~crashed /\ bfd[x].live /\ world' = world
      /\ world = "failing" /\ Stray(astray \ {x})
  BY DEF SeekFails, Lookup, UsedNow, Used
<1> DEFINE w == k - Origin[x]
           S == astray \ {x}
<1>4. w \in (-Size)..Size /\ (x \in BFDs => w >= 0 /\ w = k)
  BY HomeIn, BfdCacheAssumption
<1>5. Told(Cache, astray) /\ x \in Sure \ S => w = k
  BY <1>4 DEF Sure
<1> HIDE DEF w
<1>6. Becomes(IF o.ok THEN Places(o.c, x, k, w) ELSE o.c) /\ Stray(S) /\ astray \ {x} \subseteq S
      /\ S \subseteq astray
  BY <1>2, <1>3 DEF w
<1> HIDE DEF S
<1>7. Happens(x, k, Output(Cache, Home[x]))
  BY <1>2, <1>3, <1>4, <1>5, <1>6, PlacesHappens
<1> QED BY <1>3, <1>7, AnyPlace

\* The places before a call.
LEMMA PlacesBefore ==
  ASSUME FilesInv, NEW x \in All, bfd[x].live, ~crashed, NEW o \in bfd_cache_lookup(Cache, x)
  PROVE  /\ PlaceOf(Cache, x) \in 0..Size /\ Size \in Nat /\ bfd[x].where \in (-Size)..Size
         /\ o.c \in Caches /\ o.c.bfd[x].where = bfd[x].where /\ (x \in BFDs => bfd[x].where >= 0)
         /\ (o.ok => o.c.bfd[Home[x]].stream = PlaceOf(Cache, x))
         /\ (Told(Cache, astray) /\ x \in Sure \ astray => bfd[x].where = PlaceOf(Cache, x))
<1>1. Before(Cache, x, o) /\ Cache.bfd = bfd
  BY Searched DEF Cache
<1> QED BY <1>1, BfdCacheAssumption DEF Before

\* One that moves the stream and "where" alike.
LEMMA AdvanceHappens ==
  ASSUME FilesInv, NEW x \in All, bfd[x].live, ~crashed, NEW o \in bfd_cache_lookup(Cache, x),
         NEW n \in Nat, Becomes(IF o.ok THEN Advance(o.c, x, n) ELSE o.c), crashed' = ~o.ok,
         since' = Used(since, Home[x]), world' = world, Stray(astray),
         PlaceOf(Cache, x) + n <= Size, bfd[x].where + n <= Size
  PROVE  Happens(x, PlaceOf(Cache, x) + n, Output(Cache, Home[x]))
<1> DEFINE s == PlaceOf(Cache, x) + n
           w == bfd[x].where + n
<1>1. /\ s \in 0..Size /\ w \in (-Size)..Size /\ (x \in BFDs => w >= 0)
      /\ (Told(Cache, astray) /\ x \in Sure \ astray => w = s)
  BY PlacesBefore
<1>2. o.ok => Advance(o.c, x, n) = Places(o.c, x, s, w)
  BY PlacesBefore, Advances
<1> HIDE DEF s, w
<1>3. Becomes(IF o.ok THEN Places(o.c, x, s, w) ELSE o.c)
  BY <1>2
<1>4. Happens(x, s, Output(Cache, Home[x]))
  BY <1>1, <1>3, PlacesHappens
<1> QED BY <1>4 DEF s

LEMMA ReadHappens ==
  ASSUME FilesInv, NEW x \in All, bfd_read(x), NEW at, at = PlaceOf(Cache, x)
  PROVE  Happens(x, IF at < Size THEN at + 1 ELSE at, Output(Cache, Home[x]))
<1> DEFINE n == IF at < Size THEN 1 ELSE 0
           W == Output(Cache, Home[x])
           read(c) == Advance(c, x, n)
           p == IF at < Size THEN at + 1 ELSE at
<1>1. \/ Lookup(x, read) /\ Stray(astray)
      \/ \E m \in {0, n} : Fails(x, m, {})
  BY DEF bfd_read
<1>2. bfd[x].live /\ ~crashed /\ bfd[x].where + n <= Size
  BY DEF bfd_read, Lookup, Fails
<1>3. PICK o \in bfd_cache_lookup(Cache, x) : TRUE
  BY DEF bfd_read, Lookup, Fails
<1>4. at \in 0..Size /\ Size \in Nat /\ bfd[x].where \in (-Size)..Size
  BY <1>2, <1>3, PlacesBefore
<1>5. n \in {0, 1} /\ at + n <= Size /\ at + n = p /\ bfd[x].where <= Size
  BY <1>4
<1>6. ASSUME NEW m \in {0, n}, Fails(x, m, {}) PROVE Happens(x, p, W)
  <2>1. m \in {0, 1} /\ at + m <= Size /\ bfd[x].where + m <= Size
    BY <1>2, <1>4, <1>5
  <2>2. {} \in SUBSET (0..Size)
    OBVIOUS
  <2> HIDE DEF n, p, W
  <2> QED BY <1>6, <2>1, <2>2, FailsHappens
<1>7. ASSUME Lookup(x, read), Stray(astray) PROVE Happens(x, p, W)
  <2>1. PICK r \in bfd_cache_lookup(Cache, x) :
          Becomes(IF r.ok THEN Advance(r.c, x, n) ELSE r.c) /\ crashed' = ~r.ok
    BY <1>7 DEF Lookup
  <2>2. since' = Used(since, Home[x]) /\ world' = world
    BY <1>7 DEF Lookup, UsedNow, Used
  <2>3. n \in Nat
    BY <1>5
  <2> HIDE DEF n, read
  <2>4. Happens(x, at + n, W)
    BY <1>2, <1>5, <1>7, <2>1, <2>2, <2>3, AdvanceHappens
  <2> QED BY <1>5, <2>4
<1> QED BY <1>1, <1>6, <1>7

LEMMA TellHappens ==
  ASSUME FilesInv, NEW x \in All, bfd_tell(x), NEW at, at = PlaceOf(Cache, x)
  PROVE  Happens(x, at, Output(Cache, Home[x]))
<1> DEFINE w == at - Origin[x]
           S == astray \ {x}
<1>1. PICK o \in bfd_cache_lookup(Cache, x) :
        Becomes(IF o.ok THEN [o.c EXCEPT !.bfd[x].where = w] ELSE o.c) /\ crashed' = ~o.ok
  BY DEF bfd_tell, Lookup
<1>2. /\ since' = Used(since, Home[x]) /\ ~crashed /\ bfd[x].live /\ world' = world
      /\ Stray(S) /\ astray \ {x} \subseteq S /\ S \subseteq astray
  BY DEF bfd_tell, Lookup, UsedNow, Used
<1>3. at \in 0..Size /\ Size \in Nat /\ o.c \in Caches /\ (o.ok => o.c.bfd[Home[x]].stream = at)
  BY <1>2, PlacesBefore
<1>4. Origin[x] \in 0..Size /\ (x \in BFDs => Origin[x] = 0) /\ Home[x] \in All
  BY HomeIn
<1>5. w \in (-Size)..Size /\ (x \in BFDs => w >= 0) /\ (x \in Sure => w = at)
  BY <1>3, <1>4 DEF Sure
<1>6. o.ok => [o.c EXCEPT !.bfd[x].where = w] = Places(o.c, x, at, w)
  <2> HAVE o.ok
  <2>1. [o.c EXCEPT !.bfd[Home[x]].stream = at] = o.c
    BY <1>3, <1>4 DEF Caches, Record
  <2> QED BY <2>1 DEF Places
<1> HIDE DEF w
<1>7. Becomes(IF o.ok THEN Places(o.c, x, at, w) ELSE o.c)
  BY <1>1, <1>6
<1>8. Told(Cache, astray) /\ x \in Sure \ S => w = at
  BY <1>5
<1> HIDE DEF S
<1> QED BY <1>1, <1>2, <1>3, <1>5, <1>7, <1>8, PlacesHappens

LEMMA SeekHappens ==
  ASSUME FilesInv, NEW x \in All, NEW p \in 0..Size, bfd_seek(x, p), ~Needless(x, p)
  PROVE  Happens(x, Origin[x] + p, Output(Cache, Home[x]))
<1> DEFINE s == Origin[x] + p
           S == astray \ {x}
           seek(c) == [c EXCEPT !.bfd[Home[x]].stream = s, !.bfd[x].where = p]
<1>1. (Lookup(x, seek) /\ Stray(S)) \/ SeekFails(x)
  BY DEF bfd_seek
<1>2. CASE SeekFails(x)
  BY <1>2, SeekFailsHappens
<1>3. CASE Lookup(x, seek) /\ Stray(S)
  <2>1. PICK o \in bfd_cache_lookup(Cache, x) :
          Becomes(IF o.ok THEN Places(o.c, x, s, p) ELSE o.c) /\ crashed' = ~o.ok
    BY <1>3 DEF Lookup, Places
  <2>2. /\ since' = Used(since, Home[x]) /\ ~crashed /\ bfd[x].live /\ world' = world
        /\ Stray(S) /\ astray \ {x} \subseteq S /\ S \subseteq astray
    BY <1>3 DEF Lookup, UsedNow, Used
  <2>3. s <= Size
    BY DEF bfd_seek
  <2>4. Origin[x] \in 0..Size /\ (x \in BFDs => Origin[x] = 0) /\ Size \in Nat
    BY HomeIn, BfdCacheAssumption
  <2>5. s \in 0..Size /\ p \in (-Size)..Size /\ p >= 0 /\ (x \in Sure => p = s)
    BY <2>3, <2>4 DEF Sure
  <2> HIDE DEF s, S, seek
  <2>6. Happens(x, s, Output(Cache, Home[x]))
    BY <2>1, <2>2, <2>5, PlacesHappens
  <2> QED BY <2>6 DEF s
<1> QED BY <1>1, <1>2, <1>3

LEMMA SeekCurHappens ==
  ASSUME FilesInv, NEW x \in All, NEW n \in 1..Size, bfd_seek_cur(x, n)
  PROVE  Happens(x, PlaceOf(Cache, x) + n, Output(Cache, Home[x]))
<1> DEFINE seek(c) == [c EXCEPT !.bfd[Home[x]].stream = @ + n, !.bfd[x].where = @ + n]
<1>1. (Lookup(x, seek) /\ Stray(astray)) \/ SeekFails(x)
  BY DEF bfd_seek_cur
<1>2. CASE SeekFails(x)
  BY <1>2, SeekFailsHappens
<1>3. CASE Lookup(x, seek) /\ Stray(astray)
  <2>1. PICK o \in bfd_cache_lookup(Cache, x) :
          Becomes(IF o.ok THEN Advance(o.c, x, n) ELSE o.c) /\ crashed' = ~o.ok
    BY <1>3 DEF Lookup, Advance
  <2>2. /\ since' = Used(since, Home[x]) /\ ~crashed /\ bfd[x].live /\ world' = world
        /\ Stray(astray)
    BY <1>3 DEF Lookup, UsedNow, Used
  <2>3. PlaceOf(Cache, x) + n <= Size /\ Origin[x] + bfd[x].where + n <= Size
    BY DEF bfd_seek_cur
  <2>4. bfd[x].where \in (-Size)..Size /\ Origin[x] \in 0..Size /\ Size \in Nat /\ n \in Nat
    BY <2>2, PlacesBefore, HomeIn, <2>1
  <2>5. bfd[x].where + n <= Size
    BY <2>3, <2>4
  <2> QED BY <2>1, <2>2, <2>3, <2>4, <2>5, AdvanceHappens
<1> QED BY <1>1, <1>2, <1>3

LEMMA StatHappens ==
  ASSUME FilesInv, NEW x \in All, bfd_stat(x)
  PROVE  Happens(x, PlaceOf(Cache, x), Output(Cache, Home[x]))
<1> DEFINE W == Output(Cache, Home[x])
           at == PlaceOf(Cache, x)
<1>1. PICK o \in bfd_cache_lookup(Cache, x) :
        /\ Becomes(o.c) /\ crashed' = (o.c.bfd[Home[x]].iostream /\ o.c.last # Home[x])
        /\ since' = IF o.c.last = Home[x] THEN Used(since, Home[x]) ELSE since
        /\ Stray(IF o.ok THEN astray ELSE astray \cup {Home[x]})
  BY DEF bfd_stat, UsedNow, Used
<1>2. ~crashed /\ bfd[x].live /\ world' = world /\ Cache.bfd = bfd
  BY DEF bfd_stat, Cache
<1>3. Before(Cache, x, o)
  BY <1>2, Searched
<1>4. /\ o.c \in Caches /\ Home[x] \in BFDs /\ Home[x] \in All /\ o.c.bfd[Home[x]] \in Record
      /\ o.ok \in BOOLEAN
  BY <1>3, HomeIn DEF Before, Caches, Finds
<1>5. crashed' \in BOOLEAN
  <2>1. o.c.bfd[Home[x]].iostream \in BOOLEAN
    BY <1>4 DEF Record
  <2> QED BY <1>1, <2>1
<1> HIDE DEF W, at
<1>6. CASE ~o.ok
  <2>1. Becomes(o.c) /\ Stray(astray \cup {Home[x]})
    BY <1>1, <1>6
  <2>2. o.c.bfd[Home[x]].iostream /\ o.c.last # Home[x] => crashed'
    BY <1>1
  <2>3. Happens(x, at, W)
    BY <1>1, <1>2, <1>3, <1>5, <1>6, <2>1, <2>2, FindsNone
  <2> QED BY <2>3 DEF at, W
<1>7. CASE o.ok
  <2>1. Touched(o.c, o.c, Home[x])
    BY <1>4 DEF Touched
  <2>2. /\ Finds(Cache, Home[x], o) /\ Cache.bfd[Home[x]].live /\ o.c.bfd[Home[x]].stream = at
        /\ at = Spot(Cache, Home[x]) /\ Cache \in Caches
    BY <1>3, <1>7 DEF Before, at
  <2>3. o.c.bfd[Home[x]].where >= 0 /\ o.c.bfd[Home[x]].where = Cache.bfd[Home[x]].where
    BY <1>4, <2>2 DEF Finds, FilesInv, Good, FilesOK
  <2>4. world # "failing" /\ Once(Cache) => Output(o.c, Home[x]) = W
    BY <1>4, <1>7, <2>2, OutputKept DEF W
  <2>5. Told(Cache, astray) /\ Home[x] \in Sure \ astray => o.c.bfd[Home[x]].where = at
    BY <1>4, <1>7, <2>2 DEF Told, Finds, Spot
  <2>6. (astray \cap BFDs) \ {Home[x]} \subseteq astray /\ Good(Cache, crashed, world)
    BY DEF FilesInv
  <2>7. Well(Cache, o.c, Home[x], at, W, astray)
    BY <1>4, <1>7, <2>1, <2>2, <2>3, <2>4, <2>5, <2>6, GoesWell
  <2>8. o.c.last = Home[x]
    BY <1>2, <1>4, <1>7, <2>2, LookedUpFirst DEF FilesInv
  <2>9. crashed' = FALSE /\ since' = Used(since, Home[x]) /\ Stray(astray)
    BY <1>1, <1>7, <2>8
  <2>10. Happens(x, at, W)
    BY <1>1, <1>2, <1>7, <2>7, <2>9, Succeeds
  <2> QED BY <2>10 DEF at, W
<1> QED BY <1>4, <1>6, <1>7

LEMMA WriteHappens ==
  ASSUME FilesInv, NEW x \in All, bfd_write(x)
  PROVE  Happens(x, PlaceOf(Cache, x) + 1, Output(Cache, Home[x]) \cup {PlaceOf(Cache, x)})
<1> DEFINE at == PlaceOf(Cache, x)
           W == Output(Cache, Home[x]) \cup {at}
           write(c) == [Advance(c, x, 1) EXCEPT !.bfd[x].pending = @ \cup {at}]
<1>1. (Lookup(x, write) /\ Stray(astray)) \/ Fails(x, 1, {at}) \/ Fails(x, 0, {})
  BY DEF bfd_write
<1>2. bfd[x].live /\ ~crashed /\ x \in BFDs /\ at < Size /\ bfd[x].where < Size
  BY DEF bfd_write, Lookup, Fails
<1>3. PICK q \in bfd_cache_lookup(Cache, x) : TRUE
  BY DEF bfd_write, Lookup, Fails
<1>4. at \in 0..Size /\ Size \in Nat /\ bfd[x].where \in (-Size)..Size /\ bfd[x].where >= 0
  BY <1>2, <1>3, PlacesBefore
<1>5. at + 1 <= Size /\ bfd[x].where + 1 <= Size /\ at + 0 <= Size /\ bfd[x].where + 0 <= Size
  BY <1>2, <1>4
<1>6. Home[x] = x
  BY <1>2, HomeIn
<1> HIDE DEF W, at
<1>7. CASE Fails(x, 1, {at})
  <2>1. {at} \in SUBSET (0..Size)
    BY <1>4
  <2>2. Happens(x, at + 1, W)
    BY <1>5, <1>7, <2>1, FailsHappens DEF at
  <2> QED BY <2>2 DEF at, W
<1>8. CASE Fails(x, 0, {})
  <2>1. {} \in SUBSET (0..Size)
    OBVIOUS
  <2>2. Happens(x, at + 1, W)
    BY <1>5, <1>8, <2>1, FailsHappens DEF at
  <2> QED BY <2>2 DEF at, W
<1>9. CASE Lookup(x, write) /\ Stray(astray)
  <2>1. PICK o \in bfd_cache_lookup(Cache, x) :
          Becomes(IF o.ok THEN write(o.c) ELSE o.c) /\ crashed' = ~o.ok
    <3> HIDE DEF write
    <3> QED BY <1>9 DEF Lookup
  <2>2. since' = Used(since, Home[x]) /\ world' = world /\ Cache.bfd = bfd
    BY <1>9 DEF Lookup, UsedNow, Used, Cache
  <2>3. Before(Cache, x, o)
    BY <1>2, Searched
  <2>4. CASE ~o.ok
    <3>1. Becomes(o.c) /\ crashed' = TRUE
      BY <2>1, <2>4
    <3>2. Happens(x, at + 1, W)
      BY <1>2, <1>9, <2>2, <2>3, <2>4, <3>1, FindsNone
    <3> QED BY <3>2 DEF at, W
  <2>5. CASE o.ok
    <3> DEFINE s == at + 1
               w == bfd[x].where + 1
               e == Advance(o.c, x, 1)
               P == e.bfd[x].pending \cup {at}
               d == [e EXCEPT !.bfd[x].pending = P]
    <3>1. /\ o.c \in Caches /\ o.c.bfd[x].stream = at /\ o.c.bfd[x].where = bfd[x].where
          /\ (Told(Cache, astray) /\ x \in Sure \ astray => bfd[x].where = at)
          /\ Finds(Cache, x, o) /\ Cache.bfd[x].live
      BY <1>6, <2>2, <2>3, <2>5 DEF Before, at
    <3>2. /\ s \in 0..Size /\ w \in (-Size)..Size /\ w >= 0
          /\ (Told(Cache, astray) /\ x \in Sure \ astray => w = s)
      BY <1>4, <1>5, <3>1
    <3>3. Moved(o.c, e, x, s, w)
      <4>1. e = Places(o.c, x, s, w)
        BY <1>6, <3>1, Advances
      <4> HIDE DEF e, s, w
      <4> QED BY <3>1, <3>2, <4>1, Moves
    <3>4. Becomes(d) /\ crashed' = FALSE
      BY <2>1, <2>5
    <3> HIDE DEF s, w, e, write
    <3>5. /\ Touched(o.c, e, x) /\ e.disk = o.c.disk /\ e.bfd[x].pending = o.c.bfd[x].pending
          /\ e.bfd[x].stream = s /\ e.bfd[x].where = w /\ e \in Caches
      BY <1>6, <3>3 DEF Moved, Touched
    <3>6. P \in SUBSET (0..Size)
      <4>1. e.bfd[x] \in Record
        BY <3>5 DEF Caches
      <4> QED BY <1>4, <4>1 DEF Record
    <3>7. P = o.c.bfd[x].pending \cup {at}
      BY <3>5
    <3> HIDE DEF P
    <3>8. PendingSet(e, d, x, P)
      BY <3>5, <3>6, SetsPending
    <3> HIDE DEF d
    <3>9. Touched(o.c, d, x) /\ d.bfd[x].stream = s /\ d.bfd[x].where = w
      BY <3>5, <3>8 DEF Touched, PendingSet, All
    <3>10. world # "failing" /\ Once(Cache) => Output(d, x) = W
      <4>1. Output(d, x) = Output(o.c, x) \cup {at}
        BY <3>5, <3>7, <3>8 DEF PendingSet, Output
      <4>2. world # "failing" /\ Once(Cache) => Output(o.c, x) = Output(Cache, x)
        BY <1>2, <2>5, <3>1, OutputKept
      <4> QED BY <1>6, <4>1, <4>2 DEF W
    <3>11. d.bfd[x].where >= 0 /\ Good(Cache, crashed, world) /\ (astray \cap BFDs) \ {x} \subseteq astray
      BY <3>2, <3>9 DEF FilesInv
    <3>12. Told(Cache, astray) /\ x \in Sure \ astray => d.bfd[x].where = s
      BY <3>2, <3>9
    <3>13. Well(Cache, d, x, s, W, astray)
      BY <1>2, <2>5, <3>1, <3>9, <3>10, <3>11, <3>12, GoesWell
    <3>14. Happens(x, s, W)
      BY <1>2, <1>6, <1>9, <2>2, <3>4, <3>13, Succeeds
    <3> QED BY <3>14 DEF s, at, W
  <2>6. o.ok \in BOOLEAN
    BY <2>3 DEF Before, Finds
  <2> QED BY <2>4, <2>5, <2>6
<1> QED BY <1>1, <1>7, <1>8, <1>9 DEF at

\* The output in the buffer of b is written.
LEMMA Flushes ==
  ASSUME NEW c \in Caches, NEW b \in BFDs,
         NEW d, d = [c EXCEPT !.disk[b] = @ \cup c.bfd[b].pending, !.bfd[b].pending = {}]
  PROVE  /\ Touched(c, d, b) /\ Output(d, b) = Output(c, b)
         /\ d.bfd[b].stream = c.bfd[b].stream /\ d.bfd[b].where = c.bfd[b].where
<1> DEFINE d1 == [c EXCEPT !.bfd[b].pending = {}]
           g == [c.disk EXCEPT ![b] = @ \cup c.bfd[b].pending]
<1>1. b \in All /\ c.bfd[b] \in Record /\ c.disk \in [BFDs -> SUBSET (0..Size)]
  BY DEF All, Caches
<1>2. PendingSet(c, d1, b, {})
  BY <1>1, SetsPending
<1>3. d = [d1 EXCEPT !.disk = g]
  BY DEF Caches
<1>4. g \in [BFDs -> SUBSET (0..Size)] /\ g[b] = c.disk[b] \cup c.bfd[b].pending
      /\ \A y \in BFDs : y # b => g[y] = c.disk[y]
  BY <1>1 DEF Record
<1> HIDE DEF d1, g
<1>5. /\ d \in Caches /\ d.bfd = d1.bfd /\ d.last = d1.last /\ d.open_files = d1.open_files /\ d.disk = g
  BY <1>2, <1>3, <1>4 DEF Caches, PendingSet
<1>6. Touched(c, d, b)
  BY <1>2, <1>4, <1>5 DEF PendingSet, Touched, All
<1>7. Output(d, b) = Output(c, b)
  BY <1>2, <1>4, <1>5 DEF PendingSet, Output
<1> QED BY <1>2, <1>5, <1>6, <1>7 DEF PendingSet

LEMMA FlushHappens ==
  ASSUME FilesInv, NEW x \in All, bfd_flush(x)
  PROVE  Happens(x, PlaceOf(Cache, x), Output(Cache, Home[x]))
<1> DEFINE W == Output(Cache, Home[x])
           at == PlaceOf(Cache, x)
           flushed(c) == [c EXCEPT !.disk[x] = @ \cup c.bfd[x].pending, !.bfd[x].pending = {}]
<1>1. (Lookup(x, flushed) /\ Stray(astray)) \/ Fails(x, 0, {})
  BY DEF bfd_flush
<1>2. bfd[x].live /\ ~crashed /\ x \in BFDs
  BY DEF bfd_flush, Lookup, Fails
<1>3. Home[x] = x
  BY <1>2, HomeIn
<1>4. CASE Fails(x, 0, {})
  <2>1. PICK q \in bfd_cache_lookup(Cache, x) : TRUE
    BY <1>4 DEF Lookup, Fails
  <2>2. at + 0 <= Size /\ bfd[x].where + 0 <= Size /\ {} \in SUBSET (0..Size)
    BY <1>2, <2>1, PlacesBefore
  <2> QED BY <1>4, <2>2, FailsHappens
<1>5. CASE Lookup(x, flushed) /\ Stray(astray)
  <2>1. PICK o \in bfd_cache_lookup(Cache, x) :
          Becomes(IF o.ok THEN flushed(o.c) ELSE o.c) /\ crashed' = ~o.ok
    <3> HIDE DEF flushed
    <3> QED BY <1>5 DEF Lookup
  <2>2. since' = Used(since, Home[x]) /\ world' = world
    BY <1>5 DEF Lookup, UsedNow, Used
  <2>3. Before(Cache, x, o)
    BY <1>2, Searched
  <2> HIDE DEF W, at
  <2>4. CASE ~o.ok
    <3>1. Becomes(o.c) /\ crashed' = TRUE
      BY <2>1, <2>4
    <3>2. Happens(x, at, W)
      BY <1>2, <1>5, <2>2, <2>3, <2>4, <3>1, FindsNone
    <3> QED BY <3>2 DEF at, W
  <2>5. CASE o.ok
    <3>1. /\ Finds(Cache, x, o) /\ Cache.bfd[x].live /\ o.c.bfd[x].stream = at /\ Cache \in Caches
          /\ o.c \in Caches
      BY <1>3, <2>3, <2>5 DEF Before, at
    <3> DEFINE d == flushed(o.c)
    <3>2. Becomes(d) /\ crashed' = FALSE
      BY <2>1, <2>5
    <3>3. /\ Touched(o.c, d, x) /\ Output(d, x) = Output(o.c, x)
          /\ d.bfd[x].stream = o.c.bfd[x].stream /\ d.bfd[x].where = o.c.bfd[x].where
      BY <1>2, <3>1, Flushes, ZenonT(40)
    <3> HIDE DEF flushed, d
    <3>4. d.bfd[x].where >= 0
      BY <1>2, <3>1, <3>3 DEF Finds, FilesInv, Good, FilesOK
    <3>5. world # "failing" /\ Once(Cache) => Output(d, x) = W
      BY <1>2, <1>3, <2>5, <3>1, <3>3, OutputKept DEF W
    <3>6. Told(Cache, astray) /\ x \in Sure \ astray => d.bfd[x].where = at
      BY <1>2, <2>5, <3>1, <3>3 DEF Told, Finds, Spot
    <3>7. (astray \cap BFDs) \ {x} \subseteq astray /\ Good(Cache, crashed, world)
      BY DEF FilesInv
    <3>8. Well(Cache, d, x, at, W, astray)
      BY <1>2, <2>5, <3>1, <3>3, <3>4, <3>5, <3>6, <3>7, GoesWell
    <3>9. Happens(x, at, W)
      BY <1>2, <1>3, <1>5, <2>2, <3>2, <3>8, Succeeds
    <3> QED BY <3>9 DEF at, W
  <2>6. o.ok \in BOOLEAN
    BY <2>3 DEF Before, Finds
  <2> QED BY <2>4, <2>5, <2>6
<1> QED BY <1>1, <1>4, <1>5

-----------------------------------------------------------------------------
(* Opening and closing BFDs.                                               *)

\* The record of b is another one.
Replaced(c, d, b, r) ==
  /\ d \in Caches /\ d.last = c.last /\ d.open_files = c.open_files /\ d.disk = c.disk
  /\ d.bfd[b] = r /\ \A y \in All : y # b => d.bfd[y] = c.bfd[y]

LEMMA Replaces ==
  ASSUME NEW c \in Caches, NEW b \in All, NEW r \in Record, NEW d, d = [c EXCEPT !.bfd[b] = r]
  PROVE  Replaced(c, d, b, r)
<1>1. c.bfd \in [All -> Record]
  BY DEF Caches
<1>2. /\ d \in Caches /\ d.last = c.last /\ d.open_files = c.open_files /\ d.disk = c.disk
      /\ d.bfd = [c.bfd EXCEPT ![b] = r]
  BY <1>1 DEF Caches
<1> QED BY <1>1, <1>2 DEF Replaced

\* A record as new, but for some fields.
FreshRecord(r, l, s, i) ==
  /\ r \in Record /\ r.live = l /\ r.stream = s /\ r.iostream = i /\ r.pending = {} /\ r.where = 0
  /\ r.opened_once = FALSE

\* The records of new BFDs.
LEMMA NewRecord ==
  /\ FreshRecord(NewBfd, FALSE, 0, FALSE)
  /\ \A s \in 0..Size, i \in BOOLEAN :
       FreshRecord([NewBfd EXCEPT !.live = TRUE, !.stream = s, !.iostream = i], TRUE, s, i)
  /\ FreshRecord([NewBfd EXCEPT !.live = TRUE], TRUE, 0, FALSE)
<1>1. 0 \in 0..Size /\ 0 \in (-Size)..Size /\ "NULL" \in Ref
  BY BfdCacheAssumption DEF Ref
<1>2. FreshRecord(NewBfd, FALSE, 0, FALSE)
  BY <1>1 DEF FreshRecord, NewBfd, Record
<1> DEFINE n == NewBfd
<1> HIDE DEF n
<1>3. ASSUME NEW s \in 0..Size, NEW i \in BOOLEAN
      PROVE  FreshRecord([n EXCEPT !.live = TRUE, !.stream = s, !.iostream = i], TRUE, s, i)
  <2>1. n \in Record /\ n.pending = {} /\ n.where = 0 /\ n.opened_once = FALSE
    BY <1>2 DEF FreshRecord, n
  <2> QED BY <2>1 DEF FreshRecord, Record
<1>4. FreshRecord([n EXCEPT !.live = TRUE], TRUE, 0, FALSE)
  <2>1. /\ n \in Record /\ n.pending = {} /\ n.where = 0 /\ n.opened_once = FALSE /\ n.stream = 0
        /\ n.iostream = FALSE
    BY <1>2 DEF FreshRecord, n
  <2> QED BY <2>1 DEF FreshRecord, Record
<1> QED BY <1>2, <1>3, <1>4 DEF n

LEMMA ElementsAll ==
  \A e \in Elements : e \in All /\ e \notin BFDs /\ my_archive[e] \in BFDs /\ my_archive[e] \in All
BY BfdCacheAssumption DEF All

\* The BFD b is new; it has its stream already when it is given one.
LEMMA ArrivesOK ==
  ASSUME NEW c, FilesOK(c), NEW b \in BFDs, NEW i \in BOOLEAN, NEW s, NEW r,
         FreshRecord(r, TRUE, s, i), NEW d, Replaced(c, d, b, r)
  PROVE  FilesOK(d)
<1>1. \A y \in All : (d.bfd[y].iostream => d.bfd[y].live /\ y \in BFDs)
                     /\ (d.bfd[y].pending # {} => d.bfd[y].iostream)
  BY DEF FilesOK, Replaced, FreshRecord
<1>2. \A y \in BFDs : d.bfd[y].where >= 0
  BY DEF FilesOK, Replaced, FreshRecord, All
<1>3. \A e \in Elements : d.bfd[e].live => d.bfd[my_archive[e]].live
  BY ElementsAll DEF FilesOK, Replaced, FreshRecord
<1> QED BY <1>1, <1>2, <1>3 DEF FilesOK, Replaced

\* It is no more, or never was; and had no elements.
LEMMA LeavesOK ==
  ASSUME NEW c, FilesOK(c), NEW b \in All, \A e \in Elements : my_archive[e] = b => ~c.bfd[e].live,
         NEW d, Replaced(c, d, b, NewBfd)
  PROVE  FilesOK(d)
<1>1. FreshRecord(NewBfd, FALSE, 0, FALSE)
  BY NewRecord
<1>2. \A y \in All : (d.bfd[y].iostream => d.bfd[y].live /\ y \in BFDs)
                     /\ (d.bfd[y].pending # {} => d.bfd[y].iostream)
  BY <1>1 DEF FilesOK, Replaced, FreshRecord
<1>3. \A y \in BFDs : d.bfd[y].where >= 0
  BY <1>1 DEF FilesOK, Replaced, FreshRecord, All
<1>4. \A e \in Elements : d.bfd[e].live => d.bfd[my_archive[e]].live
  BY <1>1, ElementsAll DEF FilesOK, Replaced, FreshRecord
<1> QED BY <1>2, <1>3, <1>4 DEF FilesOK, Replaced

\* Where a BFD stands, and what was written, depends on its record.
LEMMA SpotSame ==
  ASSUME NEW c, NEW d, NEW b, NEW r, Replaced(c, d, b, r)
  PROVE  /\ \A y \in All : y # b => Spot(d, y) = Spot(c, y)
         /\ \A y \in BFDs : y # b => Output(d, y) = Output(c, y)
BY DEF Replaced, Spot, Output, All

\* What opening the new BFD b, with the record r, comes to.
Comes(c, b, r, o) ==
  /\ o.ok \in BOOLEAN /\ o.c \in Caches
  /\ \A y \in All : y # b => Evicted(c.bfd[y], o.c.bfd[y])
  /\ o.c.bfd[b].live = TRUE /\ o.c.bfd[b].where = 0 /\ o.c.bfd[b].pending = {}
  /\ o.ok => /\ Ring(o.c, Streams(o.c)) /\ o.c.bfd[b].iostream /\ o.c.bfd[b].stream = r.stream
             /\ Direction[b] = "write" => o.c.bfd[b].opened_once
             /\ \A y \in BFDs : y # b => Output(o.c, y) = Output(c, y)
             /\ world # "failing" =>
                  Output(o.c, b) = IF Direction[b] = "write" THEN {} ELSE c.disk[b]
             /\ Fronts(c, o.c, b)
  /\ ~o.ok => /\ Ring(o.c, Streams(o.c) \ {b})
              /\ Keeps(c, Streams(c) \ {b}, o.c, Streams(o.c) \ {b})
  /\ world # "failing" => o.ok

\* bfd_cache_init for a given stream, bfd_open_file for a name.
LEMMA ComesIn ==
  ASSUME NEW c \in Caches, Ring(c, Streams(c)), NEW b \in BFDs, ~c.bfd[b].iostream,
         NEW i \in BOOLEAN, NEW s, NEW r, FreshRecord(r, TRUE, s, i), NEW d, Replaced(c, d, b, r),
         i = (Direction[b] = "fd"), ~i => s = 0,
         NEW o \in (IF Direction[b] = "fd" THEN bfd_cache_init(d, b) ELSE bfd_open_file(d, b))
  PROVE  Comes(d, b, r, o)
<1>1. b \in All /\ d \in Caches /\ d.bfd[b] = r /\ r \in Record
  BY DEF All, Replaced, FreshRecord
<1>2. Ring(d, Streams(d) \ {b})
  <2>1. Streams(d) \ {b} = Streams(c)
    BY DEF Streams, Replaced
  <2>2. \A y \in Streams(c) : d.bfd[y].next = c.bfd[y].next /\ d.bfd[y].prev = c.bfd[y].prev
    BY DEF Streams, Replaced
  <2>3. Ring(d, Streams(c))
    BY <2>2, SameRing DEF Replaced
  <2> QED BY <2>1, <2>3
<1>3. r.live = TRUE /\ r.where = 0 /\ r.pending = {} /\ r.iostream = i /\ r.opened_once = FALSE
      /\ r.stream = s
  BY DEF FreshRecord
<1>4. Output(d, b) = d.disk[b]
  BY <1>1, <1>3 DEF Output
<1>5. CASE Direction[b] = "fd"
  <2>1. Enters(d, b, o)
    BY <1>1, <1>2, <1>3, <1>5, CacheInit
  <2>2. /\ o.ok \in BOOLEAN /\ o.c \in Caches /\ \A y \in All : y # b => Evicted(d.bfd[y], o.c.bfd[y])
        /\ o.c.bfd[b].live = TRUE /\ o.c.bfd[b].where = 0 /\ o.c.bfd[b].pending = {}
        /\ o.c.bfd[b].iostream = TRUE /\ o.c.bfd[b].stream = r.stream
    BY <1>1, <1>3, <1>5, <2>1 DEF Enters, Alike
  <2>3. /\ o.ok => Ring(o.c, Streams(o.c)) /\ \A y \in BFDs : Output(o.c, y) = Output(d, y)
        /\ ~o.ok => Ring(o.c, Streams(o.c) \ {b})
        /\ world # "failing" => o.ok
    BY <2>1 DEF Enters
  <2>4. /\ o.ok => Fronts(d, o.c, b)
        /\ ~o.ok => Keeps(d, Streams(d) \ {b}, o.c, Streams(o.c) \ {b})
    BY <1>5, <2>1 DEF Enters
  <2> QED BY <1>4, <1>5, <2>2, <2>3, <2>4 DEF Comes
<1>6. CASE Direction[b] # "fd"
  <2>1. Ring(d, Streams(d))
    <3>1. Streams(d) \ {b} = Streams(d)
      BY <1>1, <1>3, <1>6 DEF Streams
    <3> QED BY <1>2, <3>1
  <2>2. Opens(d, b, o)
    BY <1>1, <1>3, <1>6, <2>1, OpensFile
  <2>3. Anew(d, b) = (Direction[b] = "write") /\ s = 0
    BY <1>1, <1>3, <1>6 DEF Anew
  <2>4. /\ o.ok \in BOOLEAN /\ o.c \in Caches /\ \A y \in All : y # b => Evicted(d.bfd[y], o.c.bfd[y])
        /\ o.c.bfd[b].live = TRUE /\ o.c.bfd[b].where = 0 /\ o.c.bfd[b].pending = {}
    BY <1>1, <1>3, <2>2 DEF Opens
  <2>5. ASSUME o.ok
        PROVE  /\ Ring(o.c, Streams(o.c)) /\ o.c.bfd[b].iostream /\ o.c.bfd[b].stream = r.stream
               /\ Direction[b] = "write" => o.c.bfd[b].opened_once
               /\ \A y \in BFDs : y # b => Output(o.c, y) = Output(d, y)
               /\ world # "failing" =>
                    Output(o.c, b) = IF Direction[b] = "write" THEN {} ELSE d.disk[b]
    BY <1>1, <1>3, <1>4, <2>2, <2>3, <2>5 DEF Opens
  <2>6. /\ ~o.ok => Ring(o.c, Streams(o.c) \ {b})
        /\ world # "failing" => o.ok
    BY <2>2 DEF Opens
  <2>7. /\ o.ok => Fronts(d, o.c, b)
        /\ ~o.ok => Keeps(d, Streams(d) \ {b}, o.c, Streams(o.c) \ {b})
    <3>1. Streams(d) \ {b} = Streams(d)
      BY <1>1, <1>3, <1>6 DEF Streams
    <3> QED BY <2>2, <3>1 DEF Opens, Uses, Fronts
  <2> QED BY <2>4, <2>5, <2>6, <2>7 DEF Comes
<1> QED BY <1>5, <1>6

\* b is opened, or not: what that means for the cache and for the users of BFD.
Arrives(b) ==
  /\ world' = world /\ crashed' = FALSE /\ crashed = FALSE /\ ~bfd[b].live /\ Orderly
  /\ Good(Cache', FALSE, world) /\ Placed
  /\ world # "failing" =>
       /\ \A y \in All : y # b => Cache'.bfd[y].live = bfd[y].live
       /\ Cache'.bfd[b].live = TRUE
       /\ \A y \in BFDs : y # b => Spot(Cache', y) = Spot(Cache, y) /\ Output(Cache', y) = Output(Cache, y)
       /\ b \in BFDs /\ FdOffsets \subseteq {0} => Spot(Cache', b) = 0
       /\ b \in BFDs => Output(Cache', b) \in {{}, Output(Cache, b)}

\* bfd_open.
LEMMA OpenArrives ==
  ASSUME FilesInv, NEW b \in BFDs, bfd_open(b)
  PROVE  Arrives(b)
<1> DEFINE i == (Direction[b] = "fd")
           c == Cache
<1>1. PICK at \in (IF i THEN FdOffsets ELSE {0}) :
        LET d == [c EXCEPT !.bfd[b] = [NewBfd EXCEPT !.live = TRUE, !.stream = at, !.iostream = i]]
        IN  \E o \in (IF i THEN bfd_cache_init(d, b) ELSE bfd_open_file(d, b)) :
             IF o.ok
               THEN Becomes(o.c) /\ UsedNow(b)
               ELSE Becomes([o.c EXCEPT !.bfd[b] = NewBfd]) /\ ForgetUse(b)
  BY DEF bfd_open
<1> DEFINE r == [NewBfd EXCEPT !.live = TRUE, !.stream = at, !.iostream = i]
           d == [c EXCEPT !.bfd[b] = r]
<1>2. PICK o \in (IF i THEN bfd_cache_init(d, b) ELSE bfd_open_file(d, b)) :
        IF o.ok THEN Becomes(o.c) /\ since' = Used(since, b)
          ELSE Becomes([o.c EXCEPT !.bfd[b] = NewBfd]) /\ since' = Forgot(since, b)
  BY <1>1 DEF UsedNow, ForgetUse, Used, Forgot
<1>3. /\ ~bfd[b].live /\ ~crashed /\ crashed' = crashed /\ world' = world /\ c.bfd = bfd
      /\ crashed \in BOOLEAN /\ b \in All /\ world \in Worlds
  BY DEF bfd_open, Cache, FilesInv, Good, All
<1>4. at \in 0..Size /\ i \in BOOLEAN /\ (~i => at = 0) /\ (i /\ FdOffsets \subseteq {0} => at = 0)
  BY BfdCacheAssumption
<1>5. FreshRecord(r, TRUE, at, i)
  BY <1>4, NewRecord
<1> HIDE DEF c
<1>6. FilesOK(c) /\ c \in Caches /\ Ring(c, Streams(c))
      /\ (world # "failing" => Once(c))
  BY <1>3 DEF FilesInv, Good, FilesOK, c
<1> HIDE DEF r
<1>7. Replaced(c, d, b, r)
  BY <1>3, <1>5, <1>6, Replaces DEF FreshRecord
<1>8. ~c.bfd[b].iostream /\ c.bfd[b].pending = {}
  BY <1>3, <1>6 DEF FilesOK
<1> HIDE DEF d
<1>9. Comes(d, b, r, o)
  <2> HIDE DEF i
  <2>1. o \in (IF Direction[b] = "fd" THEN bfd_cache_init(d, b) ELSE bfd_open_file(d, b))
    BY <1>2 DEF i
  <2>2. i = (Direction[b] = "fd")
    BY DEF i
  <2> QED BY <1>4, <1>5, <1>6, <1>7, <1>8, <2>1, <2>2, ComesIn
<1>10. FilesOK(d) /\ d \in Caches
  BY <1>4, <1>5, <1>6, <1>7, ArrivesOK DEF Replaced
<1> HIDE DEF i
<1>11. r.stream = at /\ d.disk = c.disk
  BY <1>5, <1>7 DEF FreshRecord, Replaced
<1>12. \A y \in All : y # b => d.bfd[y] = c.bfd[y]
  BY <1>7 DEF Replaced
<1>13. FilesOK(o.c)
  <2>1. d.bfd[b].live /\ 0 >= 0
    BY <1>5, <1>7 DEF Replaced, FreshRecord
  <2>2. /\ o.c \in Caches /\ \A y \in All : y # b => Evicted(d.bfd[y], o.c.bfd[y])
        /\ o.c.bfd[b].live = TRUE /\ o.c.bfd[b].where = 0 /\ o.c.bfd[b].pending = {}
    BY <1>9 DEF Comes
  <2>3. d.bfd[b].live = TRUE
    BY <1>5, <1>7 DEF Replaced, FreshRecord
  <2> QED BY <1>10, <2>1, <2>2, <2>3, StaysOK
<1>16. Tidy(c, Streams(c), since) => Tidy(d, Streams(d) \ {b}, since)
  <2>1. Streams(d) \ {b} = Streams(c)
    BY <1>7, <1>8 DEF Streams, Replaced
  <2>2. \A y \in Streams(c) : d.bfd[y].next = c.bfd[y].next /\ d.bfd[y].cacheable = c.bfd[y].cacheable
    BY <1>8, <1>12 DEF Streams
  <2>3. d.last = c.last /\ d.open_files = c.open_files /\ Links(c, Streams(c))
    BY <1>6, <1>7 DEF Ring, Replaced
  <2>4. Keeps(c, Streams(c), d, Streams(c))
    BY <2>2, <2>3, SameTidy
  <2> QED BY <2>1, <2>4 DEF Keeps
<1>14. CASE o.ok
  <2>1. Cache' = o.c
    BY <1>2, <1>9, <1>14, BecomesCache DEF Comes
  <2>2. /\ o.c \in Caches /\ \A y \in All : y # b => Evicted(c.bfd[y], o.c.bfd[y])
        /\ o.c.bfd[b].live = TRUE /\ o.c.bfd[b].where = 0
        /\ Ring(o.c, Streams(o.c)) /\ o.c.bfd[b].iostream /\ o.c.bfd[b].stream = at
        /\ (Direction[b] = "write" => o.c.bfd[b].opened_once)
        /\ \A y \in BFDs : y # b => Output(o.c, y) = Output(d, y)
        /\ world # "failing" => Output(o.c, b) \in {{}, c.disk[b]}
    BY <1>9, <1>11, <1>12, <1>14 DEF Comes
  <2>3. \A y \in All : y # b => /\ o.c.bfd[y].live = c.bfd[y].live /\ Spot(o.c, y) = Spot(c, y)
                                /\ o.c.bfd[y].opened_once = c.bfd[y].opened_once
    BY <1>6, <2>2, EvictedKeeps
  <2>4. Once(c) => Once(o.c)
    BY <2>2, <2>3 DEF Once, All
  <2>5. Placed
    <3>1. Told(c, astray) => Told(o.c, astray)
      BY <1>4, <2>2 DEF Told, Sure, Evicted, All, i
    <3>2. Stray(astray)
      BY DEF bfd_open
    <3> QED BY <2>1, <3>1, <3>2, Placing DEF c
  <2>6. Good(o.c, FALSE, world)
    <3>1. o.c.open_files \in 0..Cardinality(BFDs)
      BY <2>2, RingCounts
    <3> QED BY <1>3, <1>6, <1>13, <2>2, <2>4, <3>1 DEF Good
  <2>7. \A y \in BFDs : y # b => Output(d, y) = Output(c, y)
    BY <1>7, SpotSame
  <2>8. Output(c, b) = c.disk[b]
    BY <1>8 DEF Output
  <2>9. FdOffsets \subseteq {0} => Spot(o.c, b) = 0
    BY <1>4, <2>2 DEF Spot
  <2>10. /\ \A y \in All : y # b => o.c.bfd[y].live = bfd[y].live
         /\ \A y \in BFDs : y # b => Spot(o.c, y) = Spot(c, y) /\ Output(o.c, y) = Output(c, y)
    BY <1>3, <2>2, <2>3, <2>7 DEF All
  <2>11. crashed' = FALSE /\ crashed = FALSE
    BY <1>3
  <2>12. Orderly
    <3>1. Fronts(d, o.c, b) /\ since' = Used(since, b)
      BY <1>2, <1>9, <1>14 DEF Comes
    <3>2. Tidy(c, Streams(c), since) => Tidy(o.c, Streams(o.c), since')
      BY <1>16, <3>1 DEF Fronts
    <3> QED BY <2>1, <3>2 DEF Orderly, Tidy, c
  <2> QED BY <1>3, <2>1, <2>2, <2>5, <2>6, <2>8, <2>9, <2>10, <2>11, <2>12 DEF Arrives, c
<1>15. CASE ~o.ok
  <2> DEFINE g == [o.c EXCEPT !.bfd[b] = NewBfd]
  <2>1. o.c \in Caches /\ Ring(o.c, Streams(o.c) \ {b}) /\ world = "failing"
        /\ \A y \in All : y # b => Evicted(c.bfd[y], o.c.bfd[y])
    BY <1>9, <1>12, <1>15 DEF Comes
  <2>2. FreshRecord(NewBfd, FALSE, 0, FALSE)
    BY NewRecord
  <2>3. Replaced(o.c, g, b, NewBfd)
    BY <1>3, <2>1, <2>2, Replaces DEF FreshRecord
  <2>4. Becomes(g)
    BY <1>2, <1>15
  <2> HIDE DEF g
  <2>5. Cache' = g
    BY <2>3, <2>4, BecomesCache DEF Replaced
  <2>6. \A e \in Elements : my_archive[e] = b => ~o.c.bfd[e].live
    <3> SUFFICES ASSUME NEW e \in Elements, my_archive[e] = b PROVE ~o.c.bfd[e].live
      OBVIOUS
    <3>1. e \in All /\ e # b
      BY ElementsAll
    <3>2. ~c.bfd[e].live
      BY <1>3, <1>6 DEF FilesOK
    <3> QED BY <2>1, <3>1, <3>2 DEF Evicted
  <2>7. FilesOK(g)
    BY <1>3, <1>13, <2>3, <2>6, LeavesOK
  <2>8. Ring(g, Streams(g))
    <3>1. Streams(g) = Streams(o.c) \ {b}
      BY <2>2, <2>3 DEF Replaced, FreshRecord, Streams
    <3>2. \A y \in Streams(o.c) \ {b} : g.bfd[y].next = o.c.bfd[y].next /\ g.bfd[y].prev = o.c.bfd[y].prev
      BY <2>3 DEF Replaced, Streams
    <3>3. g.last = o.c.last /\ g.open_files = o.c.open_files
      BY <2>3 DEF Replaced
    <3>4. Ring(g, Streams(o.c) \ {b})
      BY <2>1, <3>2, <3>3, SameRing
    <3> QED BY <3>1, <3>4
  <2>9. Placed
    <3>1. Told(c, astray) => Told(g, astray)
      BY <2>1, <2>2, <2>3 DEF Told, Sure, Evicted, Replaced, FreshRecord, All
    <3>2. Stray(astray)
      BY DEF bfd_open
    <3> QED BY <2>5, <3>1, <3>2, Placing DEF c
  <2>10. Good(g, FALSE, world)
    <3>1. g.open_files \in 0..Cardinality(BFDs)
      BY <2>8, RingCounts
    <3> QED BY <1>3, <2>1, <2>7, <2>8, <3>1 DEF Good
  <2>11. crashed' = FALSE /\ crashed = FALSE
    BY <1>3
  <2>12. Orderly
    <3> SUFFICES ASSUME Tidy(c, Streams(c), since) PROVE Tidy(g, Streams(g), since')
      BY <2>5 DEF Orderly, Tidy, c
    <3> DEFINE R == Streams(o.c) \ {b}
    <3>1. Tidy(o.c, R, since)
      BY <1>9, <1>15, <1>16 DEF Comes, Keeps
    <3>2. Streams(g) = R /\ b \notin R
      BY <2>2, <2>3 DEF Replaced, FreshRecord, Streams
    <3>3. \A y \in R : g.bfd[y].next = o.c.bfd[y].next /\ g.bfd[y].cacheable = o.c.bfd[y].cacheable
      BY <2>3 DEF Replaced, Streams
    <3>4. g.last = o.c.last /\ g.open_files = o.c.open_files /\ Links(o.c, R)
      BY <2>1, <2>3 DEF Replaced, Ring
    <3> HIDE DEF R
    <3>5. Tidy(g, R, since)
      BY <3>1, <3>3, <3>4, SameTidy DEF Keeps
    <3>6. Links(g, R)
      BY <2>8, <3>2 DEF Ring
    <3>7. since' = Forgot(since, b)
      BY <1>2, <1>15
    <3> QED BY <3>2, <3>5, <3>6, <3>7, OrderForgotten
  <2> QED BY <1>3, <2>1, <2>5, <2>9, <2>10, <2>11, <2>12 DEF Arrives
<1> QED BY <1>14, <1>15

\* Closing and the other things that leave the ring alone: a BFD's record is replaced.
LEMMA RingStays ==
  ASSUME NEW c, NEW d, Ring(c, Streams(c)), NEW b \in All, NEW r, Replaced(c, d, b, r),
         r.iostream = c.bfd[b].iostream, r.iostream => r.next = c.bfd[b].next /\ r.prev = c.bfd[b].prev
  PROVE  Ring(d, Streams(d))
<1>1. Streams(d) = Streams(c)
  BY DEF Streams, Replaced
<1>2. \A y \in Streams(c) : d.bfd[y].next = c.bfd[y].next /\ d.bfd[y].prev = c.bfd[y].prev
  BY DEF Streams, Replaced
<1>3. Ring(d, Streams(c))
  BY <1>2, SameRing DEF Replaced
<1> QED BY <1>1, <1>3

\* And with it the order of the ring, when only a file that was given may be closed or not.
LEMMA OrderStays ==
  ASSUME NEW d, Ring(Cache, Streams(Cache)), NEW b \in All, NEW r, Replaced(Cache, d, b, r),
         r.iostream = Cache.bfd[b].iostream,
         r.iostream => /\ r.next = Cache.bfd[b].next
                       /\ r.cacheable = Cache.bfd[b].cacheable \/ Direction[b] = "fd",
         Cache' = d, since' = since
  PROVE  Orderly
<1> DEFINE c == Cache
           S == Streams(c)
<1>1. Streams(d) = S
  BY DEF Streams, Replaced
<1>2. \A y \in S : /\ d.bfd[y].next = c.bfd[y].next
                   /\ d.bfd[y].cacheable = c.bfd[y].cacheable \/ Direction[y] = "fd"
  BY DEF Streams, Replaced
<1>3. d.last = c.last /\ d.open_files = c.open_files /\ \A y \in S : c.bfd[y].next \in S
  BY DEF Replaced, Ring, Links
<1> SUFFICES ASSUME Tidy(c, S, since) PROVE Tidy(d, S, since)
  BY <1>1 DEF Orderly, Tidy
<1> HIDE DEF c, S
<1>4. Ordered(d, S, since)
  BY <1>2, <1>3 DEF Tidy, Ordered
<1>5. Named(d, S) /\ Limited(d.open_files)
  BY <1>2, <1>3 DEF Tidy, Named
<1> QED BY <1>4, <1>5 DEF Tidy

\* NewElement.
LEMMA ElementArrives ==
  ASSUME FilesInv, NEW e \in Elements, NewElement(e)
  PROVE  Arrives(e)
<1> DEFINE c == Cache
           r == [NewBfd EXCEPT !.live = TRUE]
           d == [c EXCEPT !.bfd[e] = r]
<1>1. /\ ~bfd[e].live /\ bfd[my_archive[e]].live /\ ~crashed /\ crashed' = crashed /\ world' = world
      /\ crashed \in BOOLEAN /\ world \in Worlds /\ c.bfd = bfd
      /\ e \in All /\ e \notin BFDs
  BY ElementsAll DEF NewElement, Cache, FilesInv, Good
<1>2. Becomes(d)
  BY <1>1 DEF NewElement, Becomes, Cache
<1>3. FreshRecord(r, TRUE, 0, FALSE)
  BY NewRecord
<1> HIDE DEF r, c
<1>4. FilesOK(c) /\ c \in Caches /\ Ring(c, Streams(c))
      /\ (world # "failing" => Once(c))
  BY <1>1 DEF FilesInv, Good, FilesOK, c
<1>5. Replaced(c, d, e, r)
  BY <1>1, <1>3, <1>4, Replaces DEF FreshRecord
<1> HIDE DEF d
<1>6. Cache' = d
  BY <1>2, <1>5, BecomesCache DEF Replaced
<1>7. FilesOK(d)
  <2>1. \A y \in All : (d.bfd[y].iostream => d.bfd[y].live /\ y \in BFDs)
                       /\ (d.bfd[y].pending # {} => d.bfd[y].iostream)
    BY <1>3, <1>4, <1>5 DEF FilesOK, Replaced, FreshRecord
  <2>2. \A y \in BFDs : d.bfd[y].where >= 0
    BY <1>1, <1>4, <1>5 DEF FilesOK, Replaced, All
  <2>3. \A f \in Elements : d.bfd[f].live => d.bfd[my_archive[f]].live
    BY <1>1, <1>4, <1>5, ElementsAll DEF FilesOK, Replaced
  <2> QED BY <1>5, <2>1, <2>2, <2>3 DEF FilesOK, Replaced
<1>8. Ring(d, Streams(d))
  <2>1. c.bfd[e].iostream = FALSE
    BY <1>1, <1>4 DEF FilesOK, Caches, Record
  <2> QED BY <1>1, <1>3, <1>4, <1>5, <2>1, RingStays DEF FreshRecord
<1>9. \A y \in BFDs : y \in All /\ d.bfd[y] = c.bfd[y]
  BY <1>1, <1>5 DEF Replaced, All
<1>10. Placed /\ (Once(c) => Once(d))
  <2>1. Told(c, astray) => Told(d, astray)
    BY <1>9 DEF Told, Sure
  <2>2. astray' = astray
    BY DEF NewElement
  <2> QED BY <1>6, <1>9, <2>1, <2>2 DEF Placed, Once, c
<1>11. Good(d, FALSE, world)
  BY <1>1, <1>4, <1>7, <1>8, <1>10, RingCounts DEF Good
<1>12. \A y \in BFDs : y # e => Spot(d, y) = Spot(c, y) /\ Output(d, y) = Output(c, y)
  BY <1>5, SpotSame DEF All
<1>13. d.bfd[e].live = TRUE /\ \A y \in All : y # e => d.bfd[y].live = bfd[y].live
  BY <1>1, <1>3, <1>5 DEF Replaced, FreshRecord
<1>14. crashed' = FALSE /\ crashed = FALSE
  BY <1>1
<1>15. Orderly
  <2>1. c.bfd[e].iostream = FALSE /\ r.iostream = FALSE
    BY <1>1, <1>3, <1>4 DEF FilesOK, Caches, Record, FreshRecord
  <2>2. since' = since
    BY DEF NewElement
  <2> QED BY <1>1, <1>4, <1>5, <1>6, <2>1, <2>2, OrderStays DEF c
<1> QED BY <1>1, <1>6, <1>10, <1>11, <1>12, <1>13, <1>14, <1>15 DEF Arrives, c

\* Nothing happens that the users of BFD could see.
Quiet ==
  /\ world' = world /\ crashed' = FALSE /\ crashed = FALSE /\ Orderly
  /\ Good(Cache', FALSE, world) /\ Placed
  /\ \A y \in All : Cache'.bfd[y].live = bfd[y].live
  /\ \A y \in BFDs : Spot(Cache', y) = Spot(Cache, y) /\ Output(Cache', y) = Output(Cache, y)

\* bfd_set_cacheable.
LEMMA CacheableQuiet ==
  ASSUME FilesInv, NEW b \in BFDs, NEW v \in BOOLEAN, bfd_set_cacheable(b, v)
  PROVE  Quiet
<1> DEFINE c == Cache
           r == [bfd[b] EXCEPT !.cacheable = v]
           d == [c EXCEPT !.bfd[b] = r]
<1>1. /\ ~crashed /\ crashed' = crashed /\ world' = world
      /\ crashed \in BOOLEAN /\ world \in Worlds /\ c.bfd = bfd /\ b \in All
  BY DEF bfd_set_cacheable, Cache, FilesInv, Good, All
<1>2. Becomes(d)
  BY <1>1 DEF bfd_set_cacheable, Becomes, Cache
<1> HIDE DEF c
<1>3. FilesOK(c) /\ c \in Caches /\ Ring(c, Streams(c))
      /\ (world # "failing" => Once(c))
  BY <1>1 DEF FilesInv, Good, FilesOK, c
<1>4. /\ r \in Record /\ r.live = c.bfd[b].live /\ r.iostream = c.bfd[b].iostream
      /\ r.stream = c.bfd[b].stream /\ r.pending = c.bfd[b].pending /\ r.where = c.bfd[b].where
      /\ r.opened_once = c.bfd[b].opened_once /\ r.next = c.bfd[b].next /\ r.prev = c.bfd[b].prev
  BY <1>1, <1>3 DEF Caches, Record
<1> HIDE DEF r
<1>5. Replaced(c, d, b, r)
  BY <1>1, <1>3, <1>4, Replaces
<1> HIDE DEF d
<1>6. Cache' = d
  BY <1>2, <1>5, BecomesCache DEF Replaced
<1>7. \A y \in All :
        /\ d.bfd[y].live = c.bfd[y].live /\ d.bfd[y].iostream = c.bfd[y].iostream
        /\ d.bfd[y].stream = c.bfd[y].stream /\ d.bfd[y].pending = c.bfd[y].pending
        /\ d.bfd[y].where = c.bfd[y].where /\ d.bfd[y].opened_once = c.bfd[y].opened_once
  BY <1>4, <1>5 DEF Replaced
<1>8. FilesOK(d)
  <2>1. d \in Caches
    BY <1>5 DEF Replaced
  <2> QED BY <1>3, <1>7, <2>1, ElementsAll DEF FilesOK, All
<1>9. Ring(d, Streams(d))
  BY <1>1, <1>3, <1>4, <1>5, RingStays
<1>10. Placed /\ (Once(c) => Once(d))
  <2>1. Told(c, astray) => Told(d, astray)
    BY <1>7 DEF Told, Sure, All
  <2>2. astray' = astray
    BY DEF bfd_set_cacheable
  <2> QED BY <1>6, <1>7, <2>1, <2>2 DEF Placed, Once, All, c
<1>11. Good(d, FALSE, world)
  BY <1>1, <1>3, <1>8, <1>9, <1>10, RingCounts DEF Good
<1>12. \A y \in BFDs : Spot(d, y) = Spot(c, y) /\ Output(d, y) = Output(c, y)
  <2>1. d.disk = c.disk
    BY <1>5 DEF Replaced
  <2> QED BY <1>7, <2>1 DEF Spot, Output, All
<1>13. crashed' = FALSE /\ crashed = FALSE
  BY <1>1
<1>14. Orderly
  <2>1. Direction[b] = "fd" /\ since' = since
    BY DEF bfd_set_cacheable
  <2> QED BY <1>1, <1>3, <1>4, <1>5, <1>6, <2>1, OrderStays DEF c
<1> QED BY <1>1, <1>6, <1>7, <1>10, <1>11, <1>12, <1>13, <1>14 DEF Quiet, c

\* bfd_seek has nothing to do.
LEMMA SeekQuiet ==
  ASSUME FilesInv, NEW x \in All, NEW p, bfd_seek(x, p), Needless(x, p)
  PROVE  Quiet /\ Cache' = Cache /\ bfd[x].live /\ (x \in Sure \ astray => PlaceOf(Cache, x) = p)
<1>1. /\ ~crashed /\ crashed' = crashed /\ world' = world /\ Cache' = Cache /\ bfd[x].live
      /\ crashed \in BOOLEAN /\ Cache.bfd = bfd
  BY DEF bfd_seek, Cache, FilesInv, Good
<1>2. Good(Cache, FALSE, world) /\ Told(Cache, astray) /\ Placed
  <2>1. astray' = astray
    BY DEF bfd_seek
  <2> QED BY <1>1, <2>1 DEF FilesInv, Good, Placed
<1>3. x \in Sure \ astray => PlaceOf(Cache, x) = p
  BY <1>1, <1>2, HomeIn DEF Told, PlaceOf, Needless, Sure
<1>4. crashed' = FALSE /\ crashed = FALSE
  BY <1>1
<1>5. Orderly
  <2>1. since' = since
    BY DEF bfd_seek
  <2> QED BY <1>1, <2>1 DEF Orderly, Tidy
<1> QED BY <1>1, <1>2, <1>3, <1>4, <1>5 DEF Quiet

\* x is closed: its file has what was written, or bfd_close says that it failed.
Leaves(x) ==
  /\ world' = world /\ crashed' = FALSE /\ crashed = FALSE /\ bfd[x].live /\ Orderly
  /\ Good(Cache', FALSE, world) /\ Placed
  /\ world # "failing" =>
       /\ io' = Event("close", x, 0)
       /\ \A y \in All : y # x => Cache'.bfd[y].live = bfd[y].live
       /\ Cache'.bfd[x].live = FALSE
       /\ \A y \in BFDs : y # x => Spot(Cache', y) = Spot(Cache, y)
       /\ \A y \in BFDs : Output(Cache', y) = Output(Cache, y)

\* bfd_close.
LEMMA CloseLeaves ==
  ASSUME FilesInv, NEW x \in All, bfd_close(x)
  PROVE  Leaves(x)
<1> DEFINE c == Cache
<1>1. PICK o \in (IF bfd[x].iostream THEN bfd_cache_delete(c, x) ELSE {Ok(c)}) :
        /\ Becomes([o.c EXCEPT !.bfd[x] = NewBfd])
        /\ io' = Event(IF o.ok THEN "close" ELSE "close_failed", x, 0)
  BY DEF bfd_close
<1>2. /\ ~crashed /\ crashed' = crashed /\ world' = world /\ bfd[x].live
      /\ crashed \in BOOLEAN /\ world \in Worlds /\ c.bfd = bfd
      /\ \A e \in Elements : my_archive[e] = x => ~bfd[e].live
  BY DEF bfd_close, Cache, FilesInv, Good
<1> HIDE DEF c
<1>3. FilesOK(c) /\ c \in Caches /\ Ring(c, Streams(c))
      /\ (world # "failing" => Once(c))
  BY <1>2 DEF FilesInv, Good, FilesOK, c
<1>4. /\ o.ok \in BOOLEAN /\ o.c \in Caches /\ Ring(o.c, Streams(c) \ {x})
      /\ \A y \in All : y # x => Alike(c.bfd[y], o.c.bfd[y])
      /\ o.c.bfd[x].pending = {}
      /\ o.ok => \A y \in BFDs : Output(o.c, y) = Output(c, y)
      /\ world # "failing" => o.ok
      /\ Keeps(c, Streams(c), o.c, Streams(c) \ {x})
  <2>1. CASE bfd[x].iostream
    <3>1. x \in Streams(c) /\ o \in bfd_cache_delete(c, x)
      BY <1>1, <1>2, <2>1 DEF Streams
    <3>2. /\ o.ok \in BOOLEAN /\ o.c \in Caches /\ Ring(o.c, Streams(c) \ {x})
          /\ \A y \in All : y # x => Alike(c.bfd[y], o.c.bfd[y])
          /\ Closed(c.bfd[x], o.c.bfd[x])
          /\ o.ok => \A y \in BFDs : Output(o.c, y) = Output(c, y)
          /\ world # "failing" => o.ok
          /\ Keeps(c, Streams(c), o.c, Streams(c) \ {x})
      BY <1>3, <3>1, Deletes
    <3> QED BY <3>2 DEF Closed
  <2>2. CASE ~bfd[x].iostream
    <3>1. o.c = c /\ o.ok = TRUE
      BY <1>1, <2>2 DEF Ok
    <3>2. Streams(c) \ {x} = Streams(c)
      BY <1>2, <2>2 DEF Streams
    <3>3. c.bfd[x].pending = {}
      BY <1>2, <1>3, <2>2 DEF FilesOK
    <3>4. \A y \in All : Alike(c.bfd[y], c.bfd[y])
      BY DEF Alike
    <3>5. Keeps(c, Streams(c), c, Streams(c))
      BY DEF Keeps
    <3> QED BY <1>3, <3>1, <3>2, <3>3, <3>4, <3>5
  <2> QED BY <2>1, <2>2
<1> DEFINE d == [o.c EXCEPT !.bfd[x] = NewBfd]
<1>5. FreshRecord(NewBfd, FALSE, 0, FALSE)
  BY NewRecord
<1>6. Replaced(o.c, d, x, NewBfd)
  BY <1>4, <1>5, Replaces DEF FreshRecord
<1>7. Becomes(d)
  BY <1>1
<1> HIDE DEF d
<1>8. Cache' = d
  BY <1>6, <1>7, BecomesCache DEF Replaced
<1>9. /\ \A y \in All : y # x => Alike(c.bfd[y], d.bfd[y])
      /\ d.bfd[x].live = FALSE /\ d.bfd[x].iostream = FALSE /\ d.bfd[x].pending = {}
      /\ d.bfd[x].where = 0 /\ d \in Caches
  BY <1>4, <1>5, <1>6 DEF Replaced, FreshRecord
<1>10. FilesOK(d)
  <2>1. \A y \in All : (d.bfd[y].iostream => d.bfd[y].live /\ y \in BFDs)
                       /\ (d.bfd[y].pending # {} => d.bfd[y].iostream)
    BY <1>3, <1>9 DEF FilesOK, Alike
  <2>2. \A y \in BFDs : d.bfd[y].where >= 0
    BY <1>3, <1>9 DEF FilesOK, Alike, All
  <2>3. \A e \in Elements : d.bfd[e].live => d.bfd[my_archive[e]].live
    BY <1>2, <1>3, <1>9, ElementsAll DEF FilesOK, Alike
  <2> QED BY <1>9, <2>1, <2>2, <2>3 DEF FilesOK
<1>11. Ring(d, Streams(d))
  <2>1. Streams(d) = Streams(c) \ {x}
    BY <1>9 DEF Streams, Alike
  <2>2. \A y \in Streams(c) \ {x} : d.bfd[y].next = o.c.bfd[y].next /\ d.bfd[y].prev = o.c.bfd[y].prev
    BY <1>6 DEF Replaced, Streams
  <2>3. d.last = o.c.last /\ d.open_files = o.c.open_files
    BY <1>6 DEF Replaced
  <2>4. Ring(d, Streams(c) \ {x})
    BY <1>4, <2>2, <2>3, SameRing
  <2> QED BY <2>1, <2>4
<1>12. Placed /\ (Once(c) => Once(d))
  <2>1. Told(c, astray) => Told(d, astray)
    BY <1>9 DEF Told, Sure, Alike, All
  <2>2. Stray(astray)
    BY DEF bfd_close
  <2>3. Placed
    BY <1>8, <2>1, <2>2, Placing DEF c
  <2>4. Once(c) => Once(d)
    BY <1>9 DEF Once, Alike, All
  <2> QED BY <2>3, <2>4
<1>13. Good(d, FALSE, world)
  BY <1>2, <1>3, <1>10, <1>11, <1>12, RingCounts DEF Good
<1>14. \A y \in BFDs : y # x => Spot(d, y) = Spot(c, y)
  BY <1>9 DEF Spot, Alike, All
<1>15. o.ok => \A y \in BFDs : Output(d, y) = Output(c, y)
  <2>1. \A y \in BFDs : Output(d, y) = Output(o.c, y)
    BY <1>4, <1>5, <1>6 DEF Replaced, FreshRecord, Output, All
  <2> QED BY <1>4, <2>1
<1>16. \A y \in All : y # x => d.bfd[y].live = bfd[y].live
  BY <1>2, <1>9 DEF Alike
<1>17. crashed' = FALSE /\ crashed = FALSE
  BY <1>2
<1>19. Orderly
  <2> DEFINE R == Streams(c) \ {x}
  <2> SUFFICES ASSUME Tidy(c, Streams(c), since) PROVE Tidy(d, Streams(d), since')
    BY <1>8 DEF Orderly, Tidy, c
  <2>1. Tidy(o.c, R, since) /\ Links(o.c, R)
    BY <1>4 DEF Keeps, Ring
  <2>2. Streams(d) = R /\ x \notin R
    BY <1>9 DEF Streams, Alike
  <2>3. \A y \in R : d.bfd[y].next = o.c.bfd[y].next /\ d.bfd[y].cacheable = o.c.bfd[y].cacheable
    BY <1>6 DEF Replaced, Streams
  <2>4. d.last = o.c.last /\ d.open_files = o.c.open_files
    BY <1>6 DEF Replaced
  <2> HIDE DEF R
  <2>5. Tidy(d, R, since)
    BY <2>1, <2>3, <2>4, SameTidy DEF Keeps
  <2>6. Links(d, R)
    BY <1>11, <2>2 DEF Ring
  <2>7. since' = Forgot(since, x)
    BY DEF bfd_close, ForgetUse, Forgot
  <2> QED BY <2>2, <2>5, <2>6, <2>7, OrderForgotten
<1>18. world # "failing" => io' = Event("close", x, 0) /\ \A y \in BFDs : Output(d, y) = Output(c, y)
  BY <1>1, <1>4, <1>15
<1> QED BY <1>2, <1>8, <1>9, <1>12, <1>13, <1>14, <1>16, <1>17, <1>18, <1>19 DEF Leaves, c

-----------------------------------------------------------------------------
(* The invariant holds.                                                    *)

\* The invariant holds at first, and every step keeps it.
LEMMA FilesInit ==
  Init => FilesInv
<1> SUFFICES ASSUME Init PROVE FilesInv
  OBVIOUS
<1> DEFINE c == Cache
<1>1. /\ astray = {} /\ c.bfd = [x \in All |-> NewBfd] /\ c.last = "NULL" /\ c.open_files = 0
      /\ c.disk = [b \in BFDs |-> {}] /\ crashed = FALSE /\ world \in Worlds
      /\ c = [bfd |-> c.bfd, last |-> c.last, open_files |-> c.open_files, disk |-> c.disk]
  BY DEF Init, Cache
<1>2. FreshRecord(NewBfd, FALSE, 0, FALSE)
  BY NewRecord
<1> HIDE DEF c
<1>3. c \in Caches
  BY <1>1, <1>2 DEF Caches, Ref, FreshRecord
<1>4. \A x \in All : /\ c.bfd[x].live = FALSE /\ c.bfd[x].iostream = FALSE /\ c.bfd[x].pending = {}
                     /\ c.bfd[x].where = 0
  BY <1>1, <1>2 DEF FreshRecord
<1>5. FilesOK(c)
  BY <1>3, <1>4, ElementsAll DEF FilesOK, All
<1>6. Ring(c, Streams(c))
  <2>1. Streams(c) = {}
    BY <1>4 DEF Streams
  <2> QED BY <1>1, <2>1, FS_EmptySet DEF Ring, Links
<1>7. Told(c, astray) /\ Once(c)
  BY <1>4 DEF Told, Sure, Once, All
<1>8. InOrder
  <2>1. Streams(c) = {}
    BY <1>4 DEF Streams
  <2>2. Limited(0) /\ open_files = 0
    BY <1>1, BfdCacheAssumption DEF Limited, c, Cache
  <2>3. Ordered(c, {}, since)
    BY DEF Ordered
  <2> QED BY <1>1, <2>1, <2>2, <2>3 DEF InOrder, Tidy, Named, c
<1> QED BY <1>1, <1>5, <1>6, <1>7, <1>8, RingCounts DEF FilesInv, Good, c

\* Every step that starts without a crash keeps the order.
LEMMA OrderKept ==
  ASSUME FilesInv, ~crashed, Orderly
  PROVE  InOrder'
<1>1. Tidy(Cache, Streams(Cache), since)
  BY DEF FilesInv, InOrder
<1>2. Limited(Cache'.open_files) /\ (~crashed' => Tidy(Cache', Streams(Cache'), since'))
  BY <1>1 DEF Orderly
<1>3. Cache'.open_files = open_files'
  BY DEF Cache
<1> QED BY <1>2, <1>3 DEF InOrder

\* And what is said of the places.
LEMMA PlacesKept ==
  ASSUME FilesInv, ~crashed, Placed, world' = world
  PROVE  (~crashed' => Told(Cache', astray')) /\ (world' # "failing" => astray' = {})
BY DEF FilesInv, Placed

\* What each kind of step leaves.
LEMMA HappensKeeps ==
  ASSUME FilesInv, NEW x, NEW p, NEW W, Happens(x, p, W)
  PROVE  FilesInv'
<1>1. Good(Cache', crashed', world) /\ world' = world
  BY DEF Happens, Well
<1>2. (~crashed' => Told(Cache', astray')) /\ (world' # "failing" => astray' = {})
  BY PlacesKept DEF Happens
<1>3. InOrder'
  BY OrderKept DEF Happens
<1> QED BY <1>1, <1>2, <1>3 DEF FilesInv, Good

LEMMA FilesNext ==
  FilesInv /\ [Next]_vars => FilesInv'
<1> SUFFICES ASSUME FilesInv, [Next]_vars PROVE FilesInv'
  OBVIOUS
<1>1. CASE UNCHANGED vars
  <2>1. /\ Cache' = Cache /\ crashed' = crashed /\ world' = world /\ since' = since
        /\ open_files' = open_files /\ astray' = astray
    BY <1>1 DEF vars, Cache
  <2> QED BY <2>1 DEF FilesInv, Good, InOrder
<1>2. ASSUME NEW x \in All, bfd_read(x) PROVE FilesInv'
  BY <1>2, ReadHappens, HappensKeeps
<1>3. ASSUME NEW x \in All, bfd_write(x) PROVE FilesInv'
  BY <1>3, WriteHappens, HappensKeeps
<1>4. ASSUME NEW x \in All, bfd_tell(x) PROVE FilesInv'
  BY <1>4, TellHappens, HappensKeeps
<1>5. ASSUME NEW x \in All, bfd_flush(x) PROVE FilesInv'
  BY <1>5, FlushHappens, HappensKeeps
<1>6. ASSUME NEW x \in All, bfd_stat(x) PROVE FilesInv'
  BY <1>6, StatHappens, HappensKeeps
<1>7. ASSUME NEW x \in All, bfd_close(x) PROVE FilesInv'
  <2>1. Leaves(x)
    BY <1>7, CloseLeaves
  <2> QED BY <2>1, OrderKept, PlacesKept DEF Leaves, FilesInv, Good
<1>8. ASSUME NEW x \in All, NEW p \in 0..Size, bfd_seek(x, p) PROVE FilesInv'
  <2>1. CASE Needless(x, p)
    <3>1. Quiet
      BY <1>8, <2>1, SeekQuiet
    <3> QED BY <3>1, OrderKept, PlacesKept DEF Quiet, FilesInv, Good
  <2>2. CASE ~Needless(x, p)
    BY <1>8, <2>2, SeekHappens, HappensKeeps
  <2> QED BY <2>1, <2>2
<1>9. ASSUME NEW x \in All, NEW n \in 1..Size, bfd_seek_cur(x, n) PROVE FilesInv'
  BY <1>9, SeekCurHappens, HappensKeeps
<1>10. ASSUME NEW b \in BFDs, bfd_open(b) PROVE FilesInv'
  <2>1. Arrives(b)
    BY <1>10, OpenArrives
  <2> QED BY <2>1, OrderKept, PlacesKept DEF Arrives, FilesInv, Good
<1>11. ASSUME NEW b \in BFDs, NEW v \in BOOLEAN, bfd_set_cacheable(b, v) PROVE FilesInv'
  <2>1. Quiet
    BY <1>11, CacheableQuiet
  <2> QED BY <2>1, OrderKept, PlacesKept DEF Quiet, FilesInv, Good
<1>12. ASSUME NEW e \in Elements, NewElement(e) PROVE FilesInv'
  <2>1. Arrives(e)
    BY <1>12, ElementArrives
  <2> QED BY <2>1, OrderKept, PlacesKept DEF Arrives, FilesInv, Good
<1> QED BY <1>1, <1>2, <1>3, <1>4, <1>5, <1>6, <1>7, <1>8, <1>9, <1>10, <1>11, <1>12 DEF Next

\* The records and the cache's variables keep their types, whatever fails; in a sound world
\* no call ends up with a NULL stream.
THEOREM CacheTypeCorrect == Spec => []TypeOK
<1>1. FilesInv => TypeOK
  <2> SUFFICES ASSUME FilesInv PROVE TypeOK
    OBVIOUS
  <2>1. /\ FilesOK(Cache) /\ Cache \in Caches /\ Cache.bfd = bfd /\ Cache.last = last
        /\ Cache.open_files = open_files /\ open_files \in 0..Cardinality(BFDs)
        /\ (world # "failing" => ~crashed)
    BY DEF FilesInv, Good, FilesOK, Cache
  <2>2. last \in BFDs \cup {"NULL"} /\ bfd \in [All -> Record]
    BY <2>1 DEF Caches, Ref
  <2>3. ASSUME NEW x \in All
        PROVE  /\ bfd[x].stream \in 0..Size /\ bfd[x].where \in -Size..Size
               /\ bfd[x].pending \subseteq 0..Size
               /\ bfd[x].iostream => bfd[x].live /\ x \in BFDs
               /\ {bfd[x].next, bfd[x].prev} \subseteq BFDs \cup {"NULL"}
    <3>1. bfd[x] \in Record
      BY <2>2
    <3>2. bfd[x].iostream => bfd[x].live /\ x \in BFDs
      BY <2>1 DEF FilesOK
    <3> QED BY <3>1, <3>2 DEF Record, Ref
  <2> QED BY <2>1, <2>2, <2>3 DEF TypeOK, Sound
<1> QED BY <1>1, FilesInit, FilesNext, PTL DEF Spec

\* The ring of cache.c is whole and in the order in which its BFDs were last looked up, and no
\* more files are open than BFD_CACHE_MAX_OPEN, or than were given open and one: whatever was
\* opened, closed or evicted, and whatever calls of the system failed.
THEOREM RingIsSound == Spec => []RingSound
<1>1. FilesInv => RingIsRecency
  <2> SUFFICES ASSUME FilesInv, ~crashed PROVE RingIsRecency
    BY DEF RingIsRecency
  <2>1. /\ FilesOK(Cache) /\ Ring(Cache, Streams(Cache)) /\ Ordered(Cache, Streams(Cache), since)
        /\ Cache.bfd = bfd /\ Cache.last = last /\ Cache.open_files = open_files
    BY DEF FilesInv, Good, InOrder, Tidy, Cache
  <2>2. Streams(Cache) = Opened
    BY <2>1 DEF Streams, Opened, FilesOK, All
  <2> DEFINE c == Cache
  <2> HIDE DEF c
  <2>3. /\ Ring(c, Opened) /\ Ordered(c, Opened, since) /\ c.bfd = bfd /\ c.last = last
        /\ c.open_files = open_files
    BY <2>1, <2>2 DEF c
  <2>4. open_files = Cardinality(Opened) /\ Opened \subseteq DOMAIN since
    BY <2>3 DEF Ring, Ordered
  <2>5. IF Opened = {} THEN last = "NULL" ELSE last \in Opened /\ Later(last) = {}
    BY <2>3 DEF Ring, Ordered, Later
  <2>6. \A b \in Opened :
          /\ {bfd[b].next, bfd[b].prev} \subseteq Opened
          /\ bfd[bfd[b].next].prev = b /\ bfd[bfd[b].prev].next = b
    BY <2>3 DEF Ring, Links
  <2>7. \A b \in Opened : IF Later(b) \cup {b} = Opened
                           THEN bfd[b].next = last
                           ELSE Later(bfd[b].next) = Later(b) \cup {b}
    BY <2>3 DEF Ordered, Later
  <2> QED BY <2>4, <2>5, <2>6, <2>7 DEF RingIsRecency
<1>2. FilesInv => WithinLimit
  BY DEF FilesInv, InOrder, Limited, Given, WithinLimit
<1> QED BY <1>1, <1>2, FilesInit, FilesNext, CacheTypeCorrect, PTL DEF Spec, RingSound

\* "where" of every BFD that is neither an archive nor in one is the place in its file, so
\* that the shortcut of bfd_seek is right, unless a file descriptor that does not stand at its
\* start is given to BFD.
THEOREM PlacesRight ==
  ASSUME FdOffsets \subseteq {0}
  PROVE  Spec => []WhereRight
<1>1. FilesInv => WhereRight
  BY DEF FilesInv, Told, Sure, WhereRight, Cache
<1> QED BY <1>1, FilesInit, FilesNext, PTL DEF Spec

\* The count that close_one and bfd_cache_init compare with the limit is that of the BFDs with
\* a stream, as long as no bfd_cache_init has failed under a lookup.
THEOREM FilesCounted == Spec => [](~crashed => CountRight)
<1>1. FilesInv => (~crashed => CountRight)
  <2> SUFFICES ASSUME FilesInv, ~crashed PROVE CountRight
    OBVIOUS
  <2>1. FilesOK(Cache) /\ Ring(Cache, Streams(Cache)) /\ Cache.bfd = bfd /\ Cache.open_files = open_files
    BY DEF FilesInv, Good, Cache
  <2>2. Streams(Cache) = Opened
    BY <2>1 DEF Streams, Opened, FilesOK, All
  <2> QED BY <2>1, <2>2 DEF Ring, CountRight
<1> QED BY <1>1, FilesInit, FilesNext, PTL DEF Spec

-----------------------------------------------------------------------------
(* The cache implements SteadyFiles.                                       *)

\* What the users of BFD see.
Living == {x \in All : bfd[x].live}
Standing == [b \in BFDs |-> IF bfd[b].live THEN PlaceOf(Cache, b) ELSE 0]
Wrote == [b \in BFDs |-> disk[b] \cup bfd[b].pending]

\* They depend on the cache alone.
LEMMA Seen ==
  /\ Standing = [b \in BFDs |-> IF Cache.bfd[b].live THEN Spot(Cache, b) ELSE 0]
  /\ Wrote = [b \in BFDs |-> Output(Cache, b)]
  /\ Living = {x \in All : Cache.bfd[x].live}
  /\ Standing' = [b \in BFDs |-> IF Cache'.bfd[b].live THEN Spot(Cache', b) ELSE 0]
  /\ Wrote' = [b \in BFDs |-> Output(Cache', b)]
  /\ Living' = {x \in All : Cache'.bfd[x].live}
<1>1. \A b \in BFDs : b \in All /\ Home[b] = b
  BY HomeIn DEF All
<1>2. \A b \in BFDs : PlaceOf(Cache, b) = Spot(Cache, b)
  BY <1>1 DEF PlaceOf, Spot
<1>3. \A b \in BFDs : PlaceOf(Cache, b)' = Spot(Cache', b)
  BY <1>1 DEF PlaceOf, Spot
<1>4. Cache.bfd = bfd /\ Cache.disk = disk /\ Cache'.bfd = bfd' /\ Cache'.disk = disk'
  BY DEF Cache
<1> QED BY <1>2, <1>3, <1>4 DEF Standing, Wrote, Living, Output

\* A call that looks x up is seen as one that moves the place in the file of x to p, and
\* leaves W written to it.
Shows(x, p, W) ==
  /\ x \in Living /\ Living' = Living /\ Standing[Home[x]] = PlaceOf(Cache, x)
  /\ Standing' = [Standing EXCEPT ![Home[x]] = p] /\ Wrote' = [Wrote EXCEPT ![Home[x]] = W]
  /\ Wrote[Home[x]] = Output(Cache, Home[x])

\* In a sound world, no lookup fails.
LEMMA HappensShows ==
  ASSUME FilesInv, Sound, NEW x \in All, NEW p, NEW W, Happens(x, p, W)
  PROVE  Shows(x, p, W)
<1> DEFINE b == Home[x]
<1>1. /\ b \in BFDs /\ b \in All /\ (x \in BFDs => b = x)
      /\ (x \notin BFDs => x \in Elements /\ b = my_archive[x])
  BY HomeIn
<1>2. PlaceOf(Cache, x) = Spot(Cache, b)
  BY DEF PlaceOf, Spot
<1>3. /\ \E S : Well(Cache, Cache', b, p, W, S)
      /\ world # "failing" /\ Once(Cache) /\ FilesOK(Cache) /\ bfd[x].live
  BY DEF Happens, Sound, FilesInv, Good
<1> HIDE DEF b
<1>4. Cache.bfd = bfd /\ Cache.bfd[b].live
  BY <1>1, <1>3 DEF FilesOK, Cache
<1>5. /\ \A y \in All : Cache'.bfd[y].live = Cache.bfd[y].live
      /\ \A y \in BFDs : y # b => Spot(Cache', y) = Spot(Cache, y)
      /\ \A y \in BFDs : y # b => Output(Cache', y) = Output(Cache, y)
      /\ Spot(Cache', b) = p /\ Output(Cache', b) = W
  BY <1>3 DEF Well, Apart
<1>6. Living' = Living /\ x \in Living
  BY <1>3, <1>4, <1>5, Seen
<1>7. Standing' = [Standing EXCEPT ![b] = p] /\ Standing[b] = Spot(Cache, b)
  BY <1>1, <1>4, <1>5, Seen DEF All
<1>8. Wrote' = [Wrote EXCEPT ![b] = W] /\ Wrote[b] = Output(Cache, b)
  BY <1>1, <1>5, Seen
<1> QED BY <1>2, <1>6, <1>7, <1>8 DEF Shows, b

\* The file has the same output: then all that is written stays.
LEMMA ShowsSame ==
  ASSUME NEW x \in All, NEW p, Shows(x, p, Output(Cache, Home[x]))
  PROVE  Wrote' = Wrote
BY HomeIn DEF Shows, Wrote

\* Each call does what SteadyFiles says.
LEMMA ReadSteady ==
  ASSUME FilesInv, Sound, NEW x \in All, bfd_read(x)
  PROVE  Steady!Read(x)
<1> DEFINE at == PlaceOf(Cache, x)
<1>1. Shows(x, IF at < Size THEN at + 1 ELSE at, Output(Cache, Home[x]))
  BY ReadHappens, HappensShows
<1>2. Wrote' = Wrote
  BY <1>1, ShowsSame
<1>3. io' = Event("read", x, at)
  BY DEF bfd_read, Fails, Sound
<1> HIDE DEF at
<1>4. /\ x \in Living /\ io' = Event("read", x, Standing[Home[x]]) /\ Living' = Living
      /\ Standing' = [Standing EXCEPT ![Home[x]] = IF @ < Size THEN @ + 1 ELSE @]
  BY <1>1, <1>3 DEF Shows, at
<1> QED BY <1>2, <1>4 DEF Steady!Read, Steady!Event, Event, Living, Standing, Wrote

LEMMA WriteSteady ==
  ASSUME FilesInv, Sound, NEW x \in All, bfd_write(x)
  PROVE  Steady!Write(x)
<1> DEFINE at == PlaceOf(Cache, x)
<1>1. Shows(x, at + 1, Output(Cache, Home[x]) \cup {at})
  BY WriteHappens, HappensShows
<1>2. io' = Event("write", x, at)
  BY DEF bfd_write, Fails, Sound
<1> HIDE DEF at
<1>3. /\ x \in Living /\ io' = Event("write", x, Standing[Home[x]]) /\ Living' = Living
      /\ Standing' = [Standing EXCEPT ![Home[x]] = @ + 1]
      /\ Wrote' = [Wrote EXCEPT ![Home[x]] = @ \cup {Standing[Home[x]]}]
  BY <1>1, <1>2 DEF Shows, at
<1> QED BY <1>3 DEF Steady!Write, Steady!Event, Event, Living, Standing, Wrote

\* The place is where it was.
LEMMA ShowsStill ==
  ASSUME NEW x \in All, Shows(x, PlaceOf(Cache, x), Output(Cache, Home[x]))
  PROVE  Living' = Living /\ Standing' = Standing /\ Wrote' = Wrote
<1>1. Standing' = [Standing EXCEPT ![Home[x]] = Standing[Home[x]]] /\ Living' = Living
  BY DEF Shows
<1>2. Standing' = Standing
  BY <1>1 DEF Standing
<1> QED BY <1>1, <1>2, ShowsSame

LEMMA TellSteady ==
  ASSUME FilesInv, Sound, NEW x \in All, bfd_tell(x)
  PROVE  Steady!Tell(x)
<1>1. Shows(x, PlaceOf(Cache, x), Output(Cache, Home[x]))
  BY TellHappens, HappensShows
<1>2. Living' = Living /\ Standing' = Standing /\ Wrote' = Wrote
  BY <1>1, ShowsStill
<1>3. x \in Living /\ io' = Event("tell", x, Standing[Home[x]] - Origin[x])
  BY <1>1 DEF Shows, bfd_tell
<1> QED BY <1>2, <1>3 DEF Steady!Tell, Steady!Event, Event, Living, Standing, Wrote

LEMMA SeekSteady ==
  ASSUME FilesInv, Sound, FdOffsets \subseteq {0}, NEW x \in All, NEW p \in 0..Size, bfd_seek(x, p)
  PROVE  Steady!Seek(x, p)
<1>1. io' = Event("seek", x, p)
  BY DEF bfd_seek, SeekFails, Sound
<1>2. CASE ~Needless(x, p)
  <2>1. Shows(x, Origin[x] + p, Output(Cache, Home[x]))
    BY <1>2, SeekHappens, HappensShows
  <2>2. Wrote' = Wrote
    BY <2>1, ShowsSame
  <2>3. /\ x \in Living /\ Living' = Living
        /\ Standing' = [Standing EXCEPT ![Home[x]] = Origin[x] + p]
    BY <2>1 DEF Shows
  <2> QED BY <1>1, <2>2, <2>3 DEF Steady!Seek, Steady!Event, Event, Living, Standing, Wrote
<1>3. CASE Needless(x, p)
  <2>1. x \in Sure /\ x \in BFDs /\ Home[x] = x /\ Origin[x] = 0
    BY <1>3, HomeIn DEF Needless, Sure
  <2>2. Cache' = Cache /\ bfd[x].live /\ PlaceOf(Cache, x) = p
    <3>1. astray = {}
      BY DEF FilesInv, Sound
    <3> QED BY <1>3, <2>1, <3>1, SeekQuiet
  <2>3. Living' = Living /\ Standing' = Standing /\ Wrote' = Wrote
    BY <2>2, Seen
  <2>4. Standing[x] = p /\ x \in Living
    BY <2>1, <2>2 DEF Standing, Living
  <2>5. Standing' = [Standing EXCEPT ![Home[x]] = Origin[x] + p]
    <3>1. Origin[x] + p = p
      BY <2>1
    <3>2. Standing = [Standing EXCEPT ![x] = Standing[x]]
      BY <2>1 DEF Standing
    <3> QED BY <2>1, <2>3, <2>4, <3>1, <3>2
  <2> QED BY <1>1, <2>3, <2>4, <2>5 DEF Steady!Seek, Steady!Event, Event, Living, Standing, Wrote
<1> QED BY <1>2, <1>3

LEMMA SeekCurSteady ==
  ASSUME FilesInv, Sound, NEW x \in All, NEW n \in 1..Size, bfd_seek_cur(x, n)
  PROVE  \E p \in -Size..Size : Steady!Seek(x, p)
<1> DEFINE at == PlaceOf(Cache, x) + n
           p == at - Origin[x]
<1>1. Happens(x, at, Output(Cache, Home[x]))
  BY SeekCurHappens
<1>2. Shows(x, at, Output(Cache, Home[x]))
  BY <1>1, HappensShows
<1>3. Wrote' = Wrote
  BY <1>2, ShowsSame
<1>4. io' = Event("seek", x, p) /\ at <= Size
  BY DEF bfd_seek_cur, SeekFails, Sound
<1>5. PICK o \in bfd_cache_lookup(Cache, x) : TRUE
  BY DEF bfd_seek_cur, SeekFails, Lookup
<1>6. Before(Cache, x, o)
  BY <1>5, Searched DEF bfd_seek_cur, SeekFails, Lookup
<1>7. PlaceOf(Cache, x) \in 0..Size /\ Origin[x] \in 0..Size /\ Size \in Nat
  BY <1>6, HomeIn, BfdCacheAssumption DEF Before
<1>8. p \in -Size..Size /\ Origin[x] + p = at
  BY <1>4, <1>7
<1> HIDE DEF at, p
<1>9. /\ x \in Living /\ Living' = Living
      /\ Standing' = [Standing EXCEPT ![Home[x]] = Origin[x] + p]
  BY <1>2, <1>8 DEF Shows
<1>10. PICK q \in -Size..Size : q = p
  BY <1>8
<1>11. Steady!Seek(x, q)
  BY <1>3, <1>4, <1>9, <1>10 DEF Steady!Seek, Steady!Event, Event, Living, Standing, Wrote
<1> QED BY <1>11

\* A BFD that arrives is opened.
LEMMA ArrivesSteady ==
  ASSUME Sound, FdOffsets \subseteq {0}, NEW x \in All, Arrives(x), io' = Event("open", x, 0)
  PROVE  Steady!Open(x)
<1>1. /\ ~bfd[x].live /\ Cache'.bfd[x].live = TRUE
      /\ \A y \in All : y # x => Cache'.bfd[y].live = bfd[y].live
      /\ \A y \in BFDs : y # x => Spot(Cache', y) = Spot(Cache, y) /\ Output(Cache', y) = Output(Cache, y)
      /\ (x \in BFDs => Spot(Cache', x) = 0 /\ Output(Cache', x) \in {{}, Output(Cache, x)})
      /\ Cache.bfd = bfd
  BY DEF Arrives, Sound, Cache
<1>2. x \notin Living /\ Living' = Living \cup {x}
  BY <1>1, Seen
<1>3. IF x \in BFDs THEN Standing' = [Standing EXCEPT ![x] = 0] ELSE Standing' = Standing
  BY <1>1, Seen DEF All
<1>4. Wrote' = Wrote \/ (x \in BFDs /\ Wrote' = [Wrote EXCEPT ![x] = {}])
  BY <1>1, Seen
<1> QED BY <1>2, <1>3, <1>4 DEF Steady!Open, Steady!Event, Event, Living, Standing, Wrote

\* One that leaves is closed.
LEMMA LeavesSteady ==
  ASSUME Sound, NEW x \in All, Leaves(x)
  PROVE  Steady!Close(x)
<1>1. /\ bfd[x].live /\ Cache'.bfd[x].live = FALSE /\ io' = Event("close", x, 0)
      /\ \A y \in All : y # x => Cache'.bfd[y].live = bfd[y].live
      /\ \A y \in BFDs : y # x => Spot(Cache', y) = Spot(Cache, y)
      /\ \A y \in BFDs : Output(Cache', y) = Output(Cache, y)
      /\ Cache.bfd = bfd
  BY DEF Leaves, Sound, Cache
<1>2. x \in Living /\ Living' = Living \ {x}
  BY <1>1, Seen
<1>3. IF x \in BFDs THEN Standing' = [Standing EXCEPT ![x] = 0] ELSE Standing' = Standing
  BY <1>1, Seen DEF All
<1>4. Wrote' = Wrote
  BY <1>1, Seen
<1> QED BY <1>1, <1>2, <1>3, <1>4 DEF Steady!Close, Steady!Event, Event, Living, Standing, Wrote

\* Nothing is seen of the rest.
LEMMA QuietSteady ==
  ASSUME Quiet
  PROVE  Living' = Living /\ Standing' = Standing /\ Wrote' = Wrote
<1>1. /\ \A y \in All : Cache'.bfd[y].live = Cache.bfd[y].live
      /\ \A y \in BFDs : Spot(Cache', y) = Spot(Cache, y) /\ Output(Cache', y) = Output(Cache, y)
  BY DEF Quiet, Cache
<1> QED BY <1>1, Seen DEF All

\* Every step is one of SteadyFiles, or none.
LEMMA StepSteady ==
  ASSUME FilesInv, FdOffsets \subseteq {0}, [Next]_vars
  PROVE  [Sound => Steady!Next]_(Steady!vars)
<1> SUFFICES ASSUME Sound PROVE Steady!Next \/ UNCHANGED Steady!vars
  OBVIOUS
<1>a. All = BFDs \cup Elements
  BY DEF All
<1>b. ASSUME Living' = Living, Standing' = Standing, Wrote' = Wrote, io' = io
      PROVE  UNCHANGED Steady!vars
  BY <1>b DEF Steady!vars, Living, Standing, Wrote
<1>1. CASE UNCHANGED vars
  BY <1>1 DEF vars, Steady!vars, PlaceOf, Cache
<1>2. ASSUME NEW x \in All, bfd_read(x) PROVE Steady!Next
  BY <1>a, <1>2, ReadSteady DEF Steady!Next
<1>3. ASSUME NEW x \in All, bfd_write(x) PROVE Steady!Next
  BY <1>a, <1>3, WriteSteady DEF Steady!Next
<1>4. ASSUME NEW x \in All, bfd_tell(x) PROVE Steady!Next
  BY <1>a, <1>4, TellSteady DEF Steady!Next
<1>5. ASSUME NEW x \in All, bfd_flush(x) PROVE UNCHANGED Steady!vars
  <2>1. Shows(x, PlaceOf(Cache, x), Output(Cache, Home[x])) /\ io' = io
    BY <1>5, FlushHappens, HappensShows DEF bfd_flush
  <2> QED BY <1>b, <2>1, ShowsStill
<1>6. ASSUME NEW x \in All, bfd_stat(x) PROVE UNCHANGED Steady!vars
  <2>1. Shows(x, PlaceOf(Cache, x), Output(Cache, Home[x])) /\ io' = io
    BY <1>6, StatHappens, HappensShows DEF bfd_stat
  <2> QED BY <1>b, <2>1, ShowsStill
<1>7. ASSUME NEW x \in All, bfd_close(x) PROVE Steady!Next
  BY <1>a, <1>7, CloseLeaves, LeavesSteady DEF Steady!Next
<1>8. ASSUME NEW x \in All, NEW p \in 0..Size, bfd_seek(x, p) PROVE Steady!Next
  <2>1. p \in -Size..Size
    BY BfdCacheAssumption
  <2>2. Steady!Seek(x, p)
    BY <1>8, SeekSteady
  <2> QED BY <1>a, <2>1, <2>2 DEF Steady!Next
<1>9. ASSUME NEW x \in All, NEW n \in 1..Size, bfd_seek_cur(x, n) PROVE Steady!Next
  BY <1>a, <1>9, SeekCurSteady DEF Steady!Next
<1>10. ASSUME NEW b \in BFDs, bfd_open(b) PROVE Steady!Next
  <2>1. b \in All /\ Arrives(b) /\ io' = Event("open", b, 0)
    BY <1>10, OpenArrives DEF bfd_open, All
  <2>2. Steady!Open(b)
    BY <2>1, ArrivesSteady
  <2> QED BY <2>2 DEF Steady!Next
<1>11. ASSUME NEW b \in BFDs, NEW v \in BOOLEAN, bfd_set_cacheable(b, v) PROVE UNCHANGED Steady!vars
  <2>1. Quiet /\ io' = io
    BY <1>11, CacheableQuiet DEF bfd_set_cacheable
  <2> QED BY <1>b, <2>1, QuietSteady
<1>12. ASSUME NEW e \in Elements, NewElement(e) PROVE Steady!Next
  <2>1. e \in All /\ Arrives(e) /\ io' = Event("open", e, 0)
    BY <1>12, ElementArrives DEF NewElement, All
  <2>2. Steady!Open(e)
    BY <2>1, ArrivesSteady
  <2> QED BY <2>2 DEF Steady!Next
<1> QED BY <1>1, <1>2, <1>3, <1>4, <1>5, <1>6, <1>7, <1>8, <1>9, <1>10, <1>11, <1>12 DEF Next

\* In a sound world, BFDs are what SteadyFiles promises, however often the cache closes their
\* files and opens them again: unless a file descriptor is given that does not stand at its
\* start, each reads and writes where it would if its file had been open all the time.
THEOREM CacheIsSteady ==
  ASSUME FdOffsets \subseteq {0}
  PROVE  Spec => FilesStaySteady
<1>1. Init => Steady!Init
  <2> SUFFICES ASSUME Init PROVE Steady!Init
    OBVIOUS
  <2>1. /\ bfd = [x \in All |-> NewBfd] /\ disk = [b \in BFDs |-> {}] /\ io = Event("none", "NULL", 0)
        /\ NewBfd.live = FALSE /\ NewBfd.pending = {}
    BY DEF Init, NewBfd
  <2>2. \A x \in All : bfd[x].live = FALSE /\ bfd[x].pending = {}
    BY <2>1
  <2> QED BY <2>1, <2>2 DEF Steady!Init, Steady!Event, Event, All
<1>2. FilesInv /\ [Next]_vars => [Sound => Steady!Next]_(Steady!vars)
  BY StepSteady
<1> QED BY <1>1, <1>2, FilesInit, FilesNext, PTL DEF Spec, FilesStaySteady
=============================================================================
