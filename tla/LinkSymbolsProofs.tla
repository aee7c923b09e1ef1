-------------------------- MODULE LinkSymbolsProofs --------------------------
(***************************************************************************)
(* What is proved about LinkSymbols for all symbols, object files and      *)
(* archives: the list of undefined symbols is whole and references reach   *)
(* what indirect symbols stand for; symbols are resolved to what the files *)
(* say of them; multiple definitions are reported and warnings issued; and *)
(* the search of an archive or a group misses no element.                  *)
(*                                                                         *)
(* The inductive invariant has a part for each of them (ListOK and PushOK, *)
(* PlainOK, WarnOK, SearchOK) and two on which they rest: the types, and   *)
(* what is known of the symbol that is being added (CurOK).                *)
(***************************************************************************)
EXTENDS LinkSymbols, FiniteSetTheorems, NaturalsInduction, WellFoundedInduction, TLAPS

AllSymbols == [name : Names, row : Rows, value : Nat, string : Names]
Statements == [row : Rows, value : Nat, owner : Owners]
Additions == [on : {TRUE}, h : Names \X Nat, row : Rows, sym : AllSymbols, owner : Owners]

\* An indirect symbol points to x.
LinkedTo(x) == \E y \in Names : hash[y].link[1] = x

\* The types, and that pointers point to entries and wrappers that exist.
StrongTypes ==
  /\ TypeOK
  /\ cur = NotAdding \/ (cur \in Additions /\ cur.h[2] <= Len(hash[cur.h[1]].warnings))
  /\ \A x \in Names :
       IF hash[x].type = "indr"
       THEN hash[x].link \in Names \X Nat /\ hash[x].link[2] <= Len(hash[hash[x].link[1]].warnings)
       ELSE hash[x].link = <<"NULL", 0>>
  /\ seen \in [Names -> Seq(Statements)] /\ element_pass \in [Elements -> Int]
  /\ search.on => search.archive # 0

\* How far the symbol is that is being added, and what the entries tell of what was said.
CurOK ==
  /\ cur.on =>
       /\ seen[cur.sym.name] # <<>>
       /\ Last(seen[cur.sym.name]) = [row |-> cur.sym.row, value |-> cur.sym.value, owner |-> cur.owner]
       /\ cur.row = cur.sym.row \/ (cur.row = "UNDEF_ROW" /\ cur.sym.row = "INDR_ROW")
       /\ cur.h[1] = cur.sym.name \/ LinkedTo(cur.h[1])
       /\ cur.sym.name \in Plain => cur.h[1] = cur.sym.name
       /\ cur.row = "WARN_ROW" => cur.h = Lookup(cur.sym.name)
  /\ \A x \in Names :
       /\ hash[x].type = "indr" => "INDR_ROW" \in Said(x) \/ LinkedTo(x)
       /\ (hash[x].type = "undefw" /\ hash[x].warnings = <<>>) => "UNDEFW_ROW" \in Said(x)
       /\ (LinkedTo(x) /\ hash[x].warnings = <<>>) => hash[x].type # "new"

\* There is a list, and the search is at a symbol on it.
HasList == \E list \in Lists : IsList(list)
SearchOnList == search.pundef = "HEAD" \/ OnList(search.pundef)

\* What is on the list of undefined symbols, and what is not though it is marked.
Placed(x) ==
  /\ OnList(x) => hash[x].type \notin {"new", "undefw"}
  /\ (~OnList(x) /\ hash[x].next # "NULL") => hash[x].type \in {"def", "defw", "indr"}
  /\ (hash[x].type = "undef" /\ <<"add_to_set", x>> \notin reports) => OnList(x)
  /\ (hash[x].type = "com" /\ hash[x].warnings = <<>> /\ ~Unlisted(x)) => OnList(x)

ListOK == HasList /\ SearchOnList /\ \A x \in Names : Placed(x)

\* The symbol to which a strong reference is on its way.
Reached == IF cur.on /\ cur.row = "UNDEF_ROW" THEN {cur.h[1]} ELSE {}

\* W has what strong references have led to.
Pushed(W) ==
  /\ \A x \in Names : "UNDEF_ROW" \in Said(x) => x \in W \cup Reached
  /\ \A x \in W \ Reached : hash[x].type = "indr" => hash[x].link[1] \in W \cup Reached
  /\ \A x \in W : hash[x].type \notin {"new", "undefw"}

PushOK == \E W \in SUBSET Names : Pushed(W)

\* An entry is what these statements make of it.
Has(said, rows) == \E i \in DOMAIN said : said[i].row \in rows
IsFirst(said, rows, i) ==
  i \in DOMAIN said /\ said[i].row \in rows /\ \A j \in 1..(i - 1) : said[j].row \notin rows
WeakRows == {"DEFW_ROW", "COMMON_ROW"}
Right(entry, said) ==
  /\ entry.type \in {"new", "undef", "undefw", "def", "defw", "com"}
  /\ entry.type \in {"new", "undef", "undefw"} =>
       /\ ~Has(said, {"DEF_ROW", "DEFW_ROW", "COMMON_ROW"})
       /\ entry.type = "undef" <=> Has(said, {"UNDEF_ROW"})
       /\ entry.type = "new" => ~Has(said, {"UNDEFW_ROW"})
       /\ entry.type = "undefw" => Has(said, {"UNDEFW_ROW"})
  /\ entry.type = "def" =>
       \E i \in DOMAIN said : /\ IsFirst(said, {"DEF_ROW"}, i)
                              /\ entry.owner = said[i].owner /\ entry.value = said[i].value
  /\ entry.type \in {"defw", "com"} => ~Has(said, {"DEF_ROW"})
  /\ entry.type = "defw" =>
       \E i \in DOMAIN said : /\ IsFirst(said, WeakRows, i) /\ said[i].row = "DEFW_ROW"
                              /\ entry.owner = said[i].owner
  /\ entry.type = "com" =>
       /\ \E i \in DOMAIN said : IsFirst(said, WeakRows, i) /\ said[i].row = "COMMON_ROW"
       /\ \E i \in DOMAIN said : said[i].row = "COMMON_ROW" /\ said[i].value = entry.value
       /\ \A i \in DOMAIN said : said[i].row = "COMMON_ROW" => said[i].value <= entry.value

\* Two strong definitions that are not of the same absolute value.
Clash(said) ==
  \E i, j \in DOMAIN said :
    /\ IsFirst(said, {"DEF_ROW"}, i) /\ j > i /\ said[j].row = "DEF_ROW"
    /\ said[j].value = 0 \/ said[j].value # said[i].value

\* What was said of x and has been dealt with.
Heard(x) == IF cur.on /\ cur.h[1] = x THEN Front(seen[x]) ELSE seen[x]

PlainOK ==
  \A x \in Plain :
    Right(hash[x], Heard(x)) /\ (<<"multiple_definition", x>> \in reports <=> Clash(Heard(x)))

\* A reference is marked, and a warning is issued or kept by a wrapper.
WarnOK ==
  \A x \in Names :
    /\ ("UNDEF_ROW" \in Said(x) /\ ~Unlisted(x) /\ hash[x].warnings = <<>>) =>
         Referenced(x) \/ x \in Reached
    /\ \A k \in DOMAIN hash[x].warnings : ~hash[x].warnings[k] => <<"warning", x>> \in reports
    /\ ("UNDEF_ROW" \in Said(x) /\ ~Unlisted(x) /\ hash[x].warnings # <<>>) =>
         <<"warning", x>> \in reports \/ (cur.on /\ cur.row = "UNDEF_ROW" /\ cur.h = Lookup(x))
    /\ "WARN_ROW" \in Said(x) =>
         \/ hash[x].warnings # <<>> \/ <<"warning", x>> \in reports
         \/ cur.on /\ cur.row = "WARN_ROW" /\ cur.h[1] = x

\* The search has gone past x.
Passed(x) ==
  \E list \in Lists :
    IsList(list) /\ \E i, j \in DOMAIN list : i <= j /\ list[i] = x /\ list[j] = search.pundef

\* A definition that the linker still looks for.
LookedFor(x, sym) ==
  /\ sym.name = x /\ Defines(sym)
  /\ hash[x].type = "undef" \/ (hash[x].type = "com" /\ sym.row # "COMMON_ROW")
Lacks(x, el) == \E i \in DOMAIN Contents(el) : LookedFor(x, Contents(el)[i])
Settled(x, el) == Lacks(x, el) => element_pass[el] = -1

\* The element was looked at in this pass.
Checked(el) == el[1] = search.archive /\ element_pass[el] = search.pass

\* What was looked at in this pass has nothing that is looked for, until symbols are added.
CheckedOK ==
  /\ ~Idle => \A el \in Elements : ~Checked(el)
  /\ \A el \in Elements : Checked(el) => \A x \in Names : ~Lacks(x, el)

\* What the search has gone past, and what it has looked at for the symbol it is at.
PassedOK ==
  \A x \in Names : Passed(x) => \A el \in Elements : el[1] = search.archive => Settled(x, el)
AtOK ==
  search.l > 1 =>
    /\ At # "NULL"
    /\ \A el \in Elements : (el[1] = search.archive /\ el[2] < search.l) => Settled(At, el)

\* The archives of a group before this one, as long as no symbol has joined the list.
GroupOK ==
  search.group =>
    /\ search.undefs # "NULL" =>
         undefs_tail # "NULL" /\ hash[search.undefs].type \notin {"new", "undefw"}
    /\ undefs_tail = search.undefs =>
         \A x \in Names : OnList(x) =>
           \A el \in Elements : el[1] < search.archive => Settled(x, el)

\* The search is over.
OverOK ==
  /\ Idle
  /\ \A x \in Names : OnList(x) =>
       \A el \in Elements : (search.group \/ el[1] = search.archive) => Settled(x, el)

SearchOK ==
  /\ search.on => CheckedOK /\ PassedOK /\ AtOK /\ GroupOK
  /\ (~search.on /\ search.archive # 0) => OverOK

LinkInv == StrongTypes /\ CurOK /\ ListOK /\ PushOK /\ PlainOK /\ WarnOK /\ SearchOK

-----------------------------------------------------------------------------
(* Numbers and lists.                                                      *)

\* Every nonempty set of numbers has a least one.
LEMMA LeastNat ==
  ASSUME NEW T, T \subseteq Nat, T # {}
  PROVE  \E x \in T : \A y \in T : x <= y
<1>1. PICK x \in T : \A y \in T : ~(<<y, x>> \in OpToRel(<, Nat))
  BY NatLessThanWellFounded, WFMin
<1>2. \A y \in T : ~(y < x)
  BY <1>1 DEF OpToRel
<1> QED BY <1>2

\* Min is the least number.
LEMMA MinNat ==
  ASSUME NEW T, T \subseteq Nat, T # {}
  PROVE  Min(T) \in T /\ \A y \in T : Min(T) <= y
<1>1. PICK x \in T : \A y \in T : x <= y
  BY LeastNat
<1> QED BY <1>1 DEF Min

\* Max is a number that no other exceeds.
LEMMA MaxNat ==
  ASSUME NEW T, T \subseteq Nat, NEW m \in T, \A y \in T : y <= m
  PROVE  Max(T) = m
<1>1. Max(T) \in T /\ \A y \in T : Max(T) >= y
  <2>1. \E x \in T : \A y \in T : x >= y
    <3>1. \A y \in T : m >= y
      OBVIOUS
    <3> QED BY <3>1
  <2> QED BY <2>1 DEF Max
<1>2. Max(T) >= m /\ m >= Max(T) /\ Max(T) \in Nat /\ m \in Nat
  BY <1>1
<1> HIDE DEF Max
<1> QED BY <1>2

\* Finitely many numbers, given as those at some indices of a sequence, have a greatest.
LEMMA GreatestAt ==
  ASSUME NEW n \in Nat, NEW f, \A i \in 1..n : f[i] \in Nat, NEW T, T \subseteq 1..n, T # {}
  PROVE  \E i \in T : \A j \in T : f[j] <= f[i]
<1> DEFINE Good(k) == (\E i \in T : i <= k) => \E i \in T : i <= k /\ \A j \in T : j <= k => f[j] <= f[i]
           Bad == {k \in Nat : ~Good(k)}
<1>1. Bad = {}
  <2> SUFFICES ASSUME Bad # {} PROVE FALSE
    OBVIOUS
  <2>1. PICK k \in Bad : \A y \in Bad : k <= y
    BY LeastNat
  <2>2. k \in Nat /\ k # 0
    OBVIOUS
  <2>3. k - 1 \in Nat /\ Good(k - 1)
    <3> HIDE DEF Good
    <3>1. k - 1 \in Nat /\ ~(k <= k - 1)
      BY <2>2
    <3>2. k - 1 \notin Bad
      BY <2>1, <3>1
    <3> QED BY <3>1, <3>2
  <2>4. CASE k \notin T
    <3>1. \A i \in T : i <= k <=> i <= k - 1
      <4>1. \A i \in T : i \in Nat /\ i # k
        BY <2>4
      <4> QED BY <4>1, <2>2
    <3>2. Good(k)
      BY <2>3, <3>1
    <3> QED BY <3>2
  <2>5. CASE k \in T /\ ~\E i \in T : i <= k - 1
    <3>1. \A i \in T : i <= k => i = k
      BY <2>5
    <3>2. f[k] <= f[k]
      BY <2>5
    <3>3. Good(k)
      BY <2>5, <3>1, <3>2
    <3> QED BY <3>3
  <2>6. CASE k \in T /\ \E i \in T : i <= k - 1
    <3>1. PICK i \in T : i <= k - 1 /\ \A j \in T : j <= k - 1 => f[j] <= f[i]
      BY <2>3, <2>6
    <3>2. f[i] \in Nat /\ f[k] \in Nat
      BY <2>6
    <3>3. \A j \in T : j <= k => j = k \/ j <= k - 1
      OBVIOUS
    <3>4. CASE f[k] <= f[i]
      <4>1. Good(k)
        BY <3>1, <3>3, <3>4
      <4> QED BY <4>1
    <3>5. CASE f[i] < f[k]
      <4>1. \A j \in T : f[j] \in Nat
        OBVIOUS
      <4>2. \A j \in T : j <= k => f[j] <= f[k]
        BY <3>1, <3>2, <3>3, <3>5, <4>1
      <4>3. Good(k)
        BY <2>6, <4>2
      <4> QED BY <4>3
    <3> QED BY <3>2, <3>4, <3>5
  <2> QED BY <2>4, <2>5, <2>6
<1>2. Good(n)
  BY <1>1
<1>3. \A i \in T : i <= n
  OBVIOUS
<1> QED BY <1>2, <1>3

\* The list q of symbols, given the links between them, its head u and its tail t.
Chain(q, next, u, t) ==
  /\ q \in Seq(Names) /\ \A i, j \in DOMAIN q : q[i] = q[j] => i = j
  /\ u = (IF q = <<>> THEN "NULL" ELSE q[1])
  /\ t = (IF q = <<>> THEN "NULL" ELSE q[Len(q)])
  /\ \A i \in DOMAIN q : next[q[i]] = IF i < Len(q) THEN q[i + 1] ELSE "NULL"

\* The members of Lists are the sequences of symbols without repetitions.
LEMMA ListsAre ==
  ASSUME NEW q
  PROVE  q \in Lists <=> q \in Seq(Names) /\ \A i, j \in DOMAIN q : q[i] = q[j] => i = j
<1>1. ASSUME q \in Lists PROVE q \in Seq(Names) /\ \A i, j \in DOMAIN q : q[i] = q[j] => i = j
  <2>1. PICK S \in SUBSET Names : q \in SetToSeqs(S)
    BY <1>1 DEF Lists, SetToAllKPermutations
  <2>2. q \in [1..Cardinality(S) -> S] /\ \A i, j \in 1..Cardinality(S) : i # j => q[i] # q[j]
    BY <2>1 DEF SetToSeqs
  <2>3. Cardinality(S) \in Nat
    BY LinkSymbolsAssumption, FS_Subset, FS_CardinalityType
  <2> QED BY <2>2, <2>3
<1>2. ASSUME q \in Seq(Names), \A i, j \in DOMAIN q : q[i] = q[j] => i = j PROVE q \in Lists
  <2> DEFINE S == ToSet(q)
  <2>1. S \in SUBSET Names /\ q \in [1..Len(q) -> S] /\ Len(q) \in Nat
    BY <1>2 DEF ToSet
  <2>2. q \in Bijection(1..Len(q), S)
    BY <1>2, <2>1 DEF ToSet, Bijection, Injection, Surjection, IsInjective
  <2>3. Cardinality(S) = Len(q)
    BY <2>1, <2>2, FS_CountingElements DEF ExistsBijection
  <2>4. q \in SetToSeqs(S)
    BY <1>2, <2>1, <2>3 DEF SetToSeqs
  <2> QED BY <2>1, <2>4 DEF Lists, SetToAllKPermutations
<1> QED BY <1>1, <1>2

\* There is one list at most.
LEMMA ChainPrefix ==
  ASSUME NEW q, NEW r, NEW next, NEW u, NEW t, NEW v, Chain(q, next, u, t), Chain(r, next, u, v)
  PROVE  Len(q) <= Len(r) /\ \A i \in 1..Len(q) : q[i] = r[i]
<1> DEFINE T == {i \in 1..Len(q) : ~(i <= Len(r) /\ r[i] = q[i])}
<1>0. q \in Seq(Names) /\ r \in Seq(Names) /\ Len(q) \in Nat /\ Len(r) \in Nat /\ "NULL" \notin Names
  BY LinkSymbolsAssumption DEF Chain
<1>1. T = {}
  <2> SUFFICES ASSUME T # {} PROVE FALSE
    OBVIOUS
  <2>1. PICK k \in T : \A y \in T : k <= y
    <3>1. T \subseteq Nat
      BY <1>0
    <3> HIDE DEF T
    <3> QED BY <3>1, LeastNat
  <2>2. k \in 1..Len(q) /\ q[k] \in Names /\ q # <<>>
    BY <1>0
  <2>3. CASE k = 1
    <3>1. u = q[1] /\ u # "NULL"
      BY <1>0, <2>2, <2>3 DEF Chain
    <3>2. r # <<>> /\ u = r[1]
      BY <3>1 DEF Chain
    <3>3. 1 <= Len(r)
      BY <1>0, <3>2
    <3> QED BY <2>1, <2>3, <3>1, <3>2, <3>3
  <2>4. CASE k # 1
    <3>1. k - 1 \in 1..Len(q) /\ k - 1 < Len(q) /\ k - 1 \notin T
      BY <1>0, <2>1, <2>2, <2>4
    <3>2. k - 1 <= Len(r) /\ r[k - 1] = q[k - 1]
      BY <3>1
    <3>3. next[q[k - 1]] = q[k]
      BY SMTT(30), <1>0, <3>1, <2>2 DEF Chain
    <3>4. next[r[k - 1]] = IF k - 1 < Len(r) THEN r[k] ELSE "NULL"
      BY <1>0, <3>1, <3>2, <2>2 DEF Chain
    <3>5. k - 1 < Len(r) /\ r[k] = q[k]
      BY <1>0, <2>2, <3>2, <3>3, <3>4
    <3>6. k <= Len(r)
      BY <1>0, <2>2, <3>5
    <3> QED BY <2>1, <3>5, <3>6
  <2> QED BY <2>3, <2>4
<1>2. \A i \in 1..Len(q) : i <= Len(r) /\ r[i] = q[i]
  BY <1>1
<1>3. Len(q) <= Len(r)
  <2>1. CASE Len(q) = 0
    BY <1>0, <2>1
  <2>2. CASE Len(q) # 0
    <3>1. Len(q) \in 1..Len(q)
      BY <1>0, <2>2
    <3> QED BY <1>2, <3>1
  <2> QED BY <2>1, <2>2
<1> QED BY <1>2, <1>3

\* The links determine the list.
LEMMA ChainUnique ==
  ASSUME NEW q, NEW r, NEW next, NEW u, NEW t, NEW v, Chain(q, next, u, t), Chain(r, next, u, v)
  PROVE  q = r
<1>1. Len(q) <= Len(r) /\ \A i \in 1..Len(q) : q[i] = r[i]
  BY ChainPrefix
<1>2. Len(r) <= Len(q)
  BY ChainPrefix
<1>3. q \in Seq(Names) /\ r \in Seq(Names) /\ Len(q) = Len(r)
  BY <1>1, <1>2 DEF Chain
<1> QED BY <1>1, <1>3

\* bfd_link_add_undef
LEMMA ChainAppend ==
  ASSUME NEW q, NEW next, NEW u, NEW t, Chain(q, next, u, t),
         NEW n \in Names, \A i \in DOMAIN q : q[i] # n, next[n] = "NULL", NEW new,
         \A x \in Names : new[x] = IF x = t THEN n ELSE next[x]
  PROVE  Chain(Append(q, n), new, IF u = "NULL" THEN n ELSE u, n)
<1> DEFINE r == Append(q, n)
<1>1. /\ q \in Seq(Names) /\ r \in Seq(Names) /\ Len(q) \in Nat /\ Len(r) = Len(q) + 1 /\ r # <<>>
      /\ DOMAIN q = 1..Len(q) /\ DOMAIN r = 1..(Len(q) + 1) /\ r[Len(q) + 1] = n
      /\ \A i \in 1..Len(q) : r[i] = q[i] /\ q[i] \in Names
  BY DEF Chain
<1> HIDE DEF r
<1>2. "NULL" \notin Names
  BY LinkSymbolsAssumption
<1>3. \A i, j \in DOMAIN r : r[i] = r[j] => i = j
  BY <1>1 DEF Chain
<1>4. (IF u = "NULL" THEN n ELSE u) = r[1]
  <2>1. CASE q = <<>>
    BY <1>1, <2>1 DEF Chain
  <2>2. CASE q # <<>>
    <3>1. u = q[1] /\ 1 \in 1..Len(q)
      BY <1>1, <2>2 DEF Chain
    <3> QED BY <1>1, <1>2, <3>1
  <2> QED BY <2>1, <2>2
<1>5. ASSUME NEW i \in DOMAIN r PROVE new[r[i]] = IF i < Len(r) THEN r[i + 1] ELSE "NULL"
  <2>1. CASE i = Len(r)
    <3>1. r[i] = n /\ n # t
      <4>1. q # <<>> => Len(q) \in DOMAIN q
        BY <1>1
      <4> QED BY <1>1, <1>2, <2>1, <4>1 DEF Chain
    <3>2. new[n] = "NULL"
      BY <3>1
    <3> QED BY <1>1, <2>1, <3>1, <3>2
  <2>2. CASE i = Len(q)
    <3>1. i \in DOMAIN q /\ q # <<>> /\ t = q[i] /\ r[i] = t /\ t \in Names
      BY <1>1, <2>2 DEF Chain
    <3>2. new[t] = n
      BY <3>1
    <3> QED BY <1>1, <2>2, <3>1, <3>2
  <2>3. CASE i < Len(q)
    <3>1. i \in DOMAIN q /\ i + 1 \in DOMAIN q /\ Len(q) \in DOMAIN q /\ q # <<>> /\ t = q[Len(q)]
      BY <1>1, <2>3 DEF Chain
    <3>2. q[i] # t
      BY <3>1, <2>3, <1>1 DEF Chain
    <3>3. new[r[i]] = next[q[i]] /\ next[q[i]] = q[i + 1]
      BY <3>1, <3>2, <2>3, <1>1 DEF Chain
    <3> QED BY <1>1, <2>3, <3>1, <3>3
  <2> QED BY <1>1, <2>1, <2>2, <2>3
<1> QED BY <1>1, <1>3, <1>4, <1>5 DEF Chain, r

\* A symbol that is not the last is taken off the list.
LEMMA ChainRemove ==
  ASSUME NEW q, NEW next, NEW u, NEW t, Chain(q, next, u, t), NEW k \in DOMAIN q, k < Len(q), NEW new,
         \A x \in Names : new[x] = IF k > 1 /\ x = q[k - 1] THEN q[k + 1] ELSE next[x]
  PROVE  \E r : /\ Chain(r, new, IF k = 1 THEN q[2] ELSE u, t)
                /\ Len(r) = Len(q) - 1
                /\ \A i \in DOMAIN r : r[i] = IF i < k THEN q[i] ELSE q[i + 1]
<1> DEFINE r == [i \in 1..(Len(q) - 1) |-> IF i < k THEN q[i] ELSE q[i + 1]]
<1>0. /\ q \in Seq(Names) /\ Len(q) \in Nat /\ DOMAIN q = 1..Len(q) /\ k \in 1..(Len(q) - 1) /\ k \in Nat
      /\ \A i \in 1..Len(q) : q[i] \in Names
  BY DEF Chain
<1>1. /\ r \in Seq(Names) /\ Len(r) = Len(q) - 1 /\ DOMAIN r = 1..(Len(q) - 1) /\ r # <<>>
      /\ \A i \in 1..(Len(q) - 1) : r[i] = IF i < k THEN q[i] ELSE q[i + 1]
  BY <1>0
<1> HIDE DEF r
<1>2. \A i, j \in 1..Len(q) : q[i] = q[j] => i = j
  BY <1>0 DEF Chain
<1>3. \A i, j \in DOMAIN r : r[i] = r[j] => i = j
  <2> SUFFICES ASSUME NEW i \in DOMAIN r, NEW j \in DOMAIN r, r[i] = r[j] PROVE i = j
    OBVIOUS
  <2>1. i \in 1..Len(q) /\ j \in 1..Len(q) /\ i + 1 \in 1..Len(q) /\ j + 1 \in 1..Len(q)
    BY <1>0, <1>1
  <2>2. CASE i < k /\ j < k
    BY <1>1, <1>2, <2>1, <2>2
  <2>3. CASE i < k /\ ~(j < k)
    <3>1. q[i] = q[j + 1]
      BY <1>1, <2>3
    <3> QED BY <1>2, <2>1, <2>3, <3>1, <1>0
  <2>4. CASE ~(i < k) /\ j < k
    <3>1. q[i + 1] = q[j]
      BY <1>1, <2>4
    <3> QED BY <1>2, <2>1, <2>4, <3>1, <1>0
  <2>5. CASE ~(i < k) /\ ~(j < k)
    <3>1. q[i + 1] = q[j + 1]
      BY <1>1, <2>5
    <3> QED BY <1>2, <2>1, <3>1
  <2> QED BY <2>2, <2>3, <2>4, <2>5
<1>4. (IF k = 1 THEN q[2] ELSE u) = r[1]
  BY <1>0, <1>1 DEF Chain
<1>5. t = r[Len(r)]
  BY <1>0, <1>1 DEF Chain
<1>6. \A i \in 1..Len(q) : next[q[i]] = IF i < Len(q) THEN q[i + 1] ELSE "NULL"
  BY <1>0 DEF Chain
<1>7. ASSUME NEW i \in DOMAIN r PROVE new[r[i]] = IF i < Len(r) THEN r[i + 1] ELSE "NULL"
  <2>0. i \in 1..(Len(q) - 1) /\ i \in 1..Len(q) /\ i + 1 \in 1..Len(q) /\ k - 1 \in 0..Len(q)
    BY <1>0, <1>1
  <2>1. CASE i + 1 < k
    <3>1. r[i] = q[i] /\ q[i] # q[k - 1] /\ q[i] \in Names
      BY <1>0, <1>1, <1>2, <2>0, <2>1
    <3>2. new[r[i]] = q[i + 1]
      BY <1>0, <1>6, <2>0, <2>1, <3>1
    <3>3. r[i + 1] = q[i + 1] /\ i < Len(r)
      BY <1>0, <1>1, <2>0, <2>1
    <3> QED BY <3>2, <3>3
  <2>2. CASE i + 1 = k
    <3>1. r[i] = q[i] /\ q[i] \in Names /\ k > 1 /\ i = k - 1
      BY <1>0, <1>1, <2>0, <2>2
    <3>2. new[r[i]] = q[k + 1]
      BY <3>1
    <3>3. r[i + 1] = q[k + 1] /\ i < Len(r)
      BY <1>0, <1>1, <2>0, <2>2
    <3> QED BY <3>2, <3>3
  <2>3. CASE i >= k
    <3>1. r[i] = q[i + 1] /\ q[i + 1] \in Names /\ (k > 1 => q[i + 1] # q[k - 1])
      BY <1>0, <1>1, <1>2, <2>0, <2>3
    <3>2. new[r[i]] = IF i + 1 < Len(q) THEN q[i + 1 + 1] ELSE "NULL"
      BY <1>6, <2>0, <3>1
    <3>3. i < Len(r) <=> i + 1 < Len(q)
      BY <1>0, <1>1, <2>0
    <3>4. i < Len(r) => r[i + 1] = q[i + 1 + 1]
      BY <1>0, <1>1, <2>0, <2>3
    <3> QED BY <3>2, <3>3, <3>4
  <2> QED BY <1>0, <2>0, <2>1, <2>2, <2>3
<1>8. Chain(r, new, IF k = 1 THEN q[2] ELSE u, t)
  BY <1>1, <1>3, <1>4, <1>5, <1>7 DEF Chain
<1> QED BY <1>1, <1>8

\* There is a list; x is on it; x comes before p on it, or is p.
IsChain(next, u, t) == \E q : Chain(q, next, u, t)
In(x, next, u, t) == \E q : Chain(q, next, u, t) /\ \E i \in DOMAIN q : q[i] = x
Upto(x, p, next, u, t) ==
  \E q : Chain(q, next, u, t) /\ \E i, j \in DOMAIN q : i <= j /\ q[i] = x /\ q[j] = p

\* The symbol after p on the list, or the first.
Succ(p, next, u) == IF p = "HEAD" THEN u ELSE next[p]

\* What is on the list is in this sequence, in this order.
LEMMA TheList ==
  ASSUME NEW q, NEW next, NEW u, NEW t, Chain(q, next, u, t)
  PROVE  /\ \A x : In(x, next, u, t) <=> \E i \in DOMAIN q : q[i] = x
         /\ \A x, p : Upto(x, p, next, u, t) <=>
                        \E i, j \in DOMAIN q : i <= j /\ q[i] = x /\ q[j] = p
<1>1. \A r : Chain(r, next, u, t) => r = q
  BY ChainUnique
<1> QED BY <1>1 DEF In, Upto

\* The last symbol has no successor, and every other one has one.
LEMMA ChainFacts ==
  ASSUME NEW next, NEW u, NEW t, IsChain(next, u, t)
  PROVE  /\ t # "NULL" => In(t, next, u, t) /\ next[t] = "NULL"
         /\ u = "NULL" <=> t = "NULL"
         /\ \A x : In(x, next, u, t) => x \in Names
         /\ \A x : (In(x, next, u, t) /\ x # t) => next[x] \in Names
         /\ \A x, p : Upto(x, p, next, u, t) => In(x, next, u, t) /\ In(p, next, u, t)
<1>1. PICK q : Chain(q, next, u, t)
  BY DEF IsChain
<1>2. /\ q \in Seq(Names) /\ Len(q) \in Nat /\ DOMAIN q = 1..Len(q) /\ "NULL" \notin Names
      /\ \A i \in 1..Len(q) : q[i] \in Names
  BY <1>1, LinkSymbolsAssumption DEF Chain
<1>3. t # "NULL" => Len(q) \in DOMAIN q /\ q[Len(q)] = t
  BY <1>1, <1>2 DEF Chain
<1>4. \A i \in DOMAIN q : next[q[i]] = IF i < Len(q) THEN q[i + 1] ELSE "NULL"
  BY <1>1 DEF Chain
<1>5. t # "NULL" => In(t, next, u, t) /\ next[t] = "NULL"
  BY <1>1, <1>2, <1>3, <1>4, TheList
<1>6. u = "NULL" <=> t = "NULL"
  BY <1>1, <1>2 DEF Chain
<1>7. \A x : In(x, next, u, t) => x \in Names
  BY <1>1, <1>2, TheList
<1>8. ASSUME NEW x, In(x, next, u, t), x # t PROVE next[x] \in Names
  <2>1. PICK i \in DOMAIN q : q[i] = x
    BY <1>1, <1>8, TheList
  <2>2. i # Len(q) /\ i + 1 \in 1..Len(q) /\ i < Len(q)
    BY <1>1, <1>2, <1>8, <2>1 DEF Chain
  <2> QED BY <1>2, <1>4, <2>1, <2>2
<1>9. ASSUME NEW x, NEW p, Upto(x, p, next, u, t) PROVE In(x, next, u, t) /\ In(p, next, u, t)
  BY <1>9 DEF Upto, In
<1> QED BY <1>5, <1>6, <1>7, <1>8, <1>9

\* What comes after p.
LEMMA SuccFacts ==
  ASSUME NEW next, NEW u, NEW t, NEW p, IsChain(next, u, t), p = "HEAD" \/ In(p, next, u, t)
  PROVE  LET s == Succ(p, next, u)
         IN /\ s # "NULL" => /\ In(s, next, u, t)
                             /\ \A x : Upto(x, s, next, u, t) <=> Upto(x, p, next, u, t) \/ x = s
            /\ s = "NULL" => \A x : In(x, next, u, t) => Upto(x, p, next, u, t)
<1> DEFINE s == Succ(p, next, u)
<1>1. PICK q : Chain(q, next, u, t)
  BY DEF IsChain
<1>2. /\ q \in Seq(Names) /\ Len(q) \in Nat /\ DOMAIN q = 1..Len(q)
      /\ "NULL" \notin Names /\ "HEAD" \notin Names
      /\ \A i \in 1..Len(q) : q[i] \in Names
  BY <1>1, LinkSymbolsAssumption DEF Chain
<1>3. PICK k \in 0..Len(q) : IF k = 0 THEN p = "HEAD" ELSE q[k] = p
  <2>1. CASE p = "HEAD"
    BY <1>2, <2>1
  <2>2. CASE In(p, next, u, t)
    <3>1. PICK k \in DOMAIN q : q[k] = p
      BY <1>1, <2>2, TheList
    <3> QED BY <1>2, <3>1
  <2> QED BY <2>1, <2>2
<1>4. s = IF k < Len(q) THEN q[k + 1] ELSE "NULL"
  <2>1. CASE k = 0
    BY <1>1, <1>2, <1>3, <2>1 DEF Chain, Succ
  <2>2. CASE k # 0
    <3>1. k \in DOMAIN q /\ p # "HEAD"
      BY <1>2, <1>3, <2>2
    <3> QED BY <1>1, <1>2, <1>3, <2>2, <3>1 DEF Chain, Succ
  <2> QED BY <2>1, <2>2
<1>5. \A i, j \in 1..Len(q) : q[i] = q[j] => i = j
  BY <1>1, <1>2 DEF Chain
<1>6. \A x : Upto(x, p, next, u, t) <=> \E i \in 1..Len(q) : i <= k /\ q[i] = x
  <2>1. \A j \in 1..Len(q) : q[j] = p <=> j = k
    BY <1>2, <1>3, <1>5
  <2>2. \A x : Upto(x, p, next, u, t) <=> \E i, j \in 1..Len(q) : i <= j /\ q[i] = x /\ j = k
    BY <1>1, <1>2, <2>1, TheList
  <2> QED BY <1>2, <2>2
<1> HIDE DEF s
<1>7. CASE k < Len(q)
  <2>1. s = q[k + 1] /\ k + 1 \in 1..Len(q) /\ s \in Names
    BY <1>2, <1>3, <1>4, <1>7
  <2>2. \A j \in 1..Len(q) : q[j] = s <=> j = k + 1
    BY <1>5, <2>1
  <2>3. \A x : Upto(x, s, next, u, t) <=> \E i, j \in 1..Len(q) : i <= j /\ q[i] = x /\ j = k + 1
    BY <1>1, <1>2, <2>2, TheList
  <2>4. \A i \in 1..Len(q) : i <= k + 1 <=> i <= k \/ i = k + 1
    BY <1>2
  <2>5. \A x : Upto(x, s, next, u, t) <=> Upto(x, p, next, u, t) \/ x = s
    BY <1>6, <2>1, <2>2, <2>3, <2>4
  <2>6. In(s, next, u, t)
    BY <1>1, <1>2, <2>1, TheList
  <2> QED BY <1>2, <2>1, <2>5, <2>6 DEF s
<1>8. CASE ~(k < Len(q))
  <2>1. s = "NULL" /\ k = Len(q)
    BY <1>3, <1>4, <1>8
  <2>2. \A i \in 1..Len(q) : i <= k
    BY <2>1
  <2>3. \A x : In(x, next, u, t) => Upto(x, p, next, u, t)
    BY <1>1, <1>2, <1>6, <2>2, TheList
  <2> QED BY <2>1, <2>3 DEF s
<1> QED BY <1>7, <1>8

\* bfd_link_add_undef
LEMMA Appended ==
  ASSUME NEW next, NEW u, NEW t, IsChain(next, u, t),
         NEW n \in Names, ~In(n, next, u, t), next[n] = "NULL",
         NEW new, \A x \in Names : new[x] = IF x = t THEN n ELSE next[x]
  PROVE  LET v == IF u = "NULL" THEN n ELSE u
         IN /\ IsChain(new, v, n)
            /\ \A x : In(x, new, v, n) <=> In(x, next, u, t) \/ x = n
            /\ \A x, p : p # n => (Upto(x, p, new, v, n) <=> Upto(x, p, next, u, t))
<1> DEFINE v == IF u = "NULL" THEN n ELSE u
<1>1. PICK q : Chain(q, next, u, t)
  BY DEF IsChain
<1>2. \A i \in DOMAIN q : q[i] # n
  BY <1>1, TheList
<1>3. Chain(Append(q, n), new, v, n)
  BY <1>1, <1>2, ChainAppend
<1>4. /\ q \in Seq(Names) /\ Len(q) \in Nat /\ DOMAIN q = 1..Len(q)
      /\ DOMAIN Append(q, n) = 1..(Len(q) + 1) /\ Append(q, n)[Len(q) + 1] = n
      /\ \A i \in 1..Len(q) : Append(q, n)[i] = q[i]
  BY <1>1 DEF Chain
<1> DEFINE r == Append(q, n)
<1> HIDE DEF r, v
<1>5. /\ Chain(r, new, v, n) /\ DOMAIN r = 1..(Len(q) + 1) /\ r[Len(q) + 1] = n
      /\ \A i \in 1..Len(q) : r[i] = q[i]
  BY <1>3, <1>4 DEF r
<1>6. IsChain(new, v, n)
  BY <1>5 DEF IsChain
<1>7. \A i \in 1..(Len(q) + 1) : i \in 1..Len(q) \/ i = Len(q) + 1
  BY <1>4
<1>8. ASSUME NEW x PROVE In(x, new, v, n) <=> In(x, next, u, t) \/ x = n
  <2>1. In(x, new, v, n) <=> \E i \in 1..(Len(q) + 1) : r[i] = x
    BY <1>5, TheList
  <2>2. In(x, next, u, t) <=> \E i \in 1..Len(q) : q[i] = x
    BY <1>1, <1>4, TheList
  <2>3. \A i \in 1..Len(q) : i \in 1..(Len(q) + 1)
    BY <1>4
  <2>4. Len(q) + 1 \in 1..(Len(q) + 1)
    BY <1>4
  <2> QED BY <1>5, <1>7, <2>1, <2>2, <2>3, <2>4
<1>9. ASSUME NEW x, NEW p, p # n PROVE Upto(x, p, new, v, n) <=> Upto(x, p, next, u, t)
  <2>1. Upto(x, p, new, v, n) <=> \E i, j \in 1..(Len(q) + 1) : i <= j /\ r[i] = x /\ r[j] = p
    BY <1>5, TheList
  <2>2. Upto(x, p, next, u, t) <=> \E i, j \in 1..Len(q) : i <= j /\ q[i] = x /\ q[j] = p
    BY <1>1, <1>4, TheList
  <2>3. ASSUME NEW i \in 1..(Len(q) + 1), NEW j \in 1..(Len(q) + 1), i <= j, r[i] = x, r[j] = p
        PROVE  i \in 1..Len(q) /\ j \in 1..Len(q)
    BY <1>4, <1>5, <1>9, <2>3
  <2>4. \A i \in 1..Len(q) : i \in 1..(Len(q) + 1)
    BY <1>4
  <2> QED BY <1>5, <2>1, <2>2, <2>3, <2>4
<1> QED BY <1>6, <1>8, <1>9 DEF v

\* A list on which no link was changed.
LEMMA SameChain ==
  ASSUME NEW next, NEW u, NEW t, IsChain(next, u, t),
         NEW new, \A x : In(x, next, u, t) => new[x] = next[x]
  PROVE  /\ IsChain(new, u, t)
         /\ \A x : In(x, new, u, t) <=> In(x, next, u, t)
         /\ \A x, p : Upto(x, p, new, u, t) <=> Upto(x, p, next, u, t)
<1>1. PICK q : Chain(q, next, u, t)
  BY DEF IsChain
<1>2. \A i \in DOMAIN q : new[q[i]] = next[q[i]]
  BY <1>1, TheList
<1>3. Chain(q, new, u, t)
  BY <1>1, <1>2 DEF Chain
<1> QED BY <1>1, <1>3, TheList DEF IsChain

\* The symbol after p, which is not the last, is taken off the list.
LEMMA Removed ==
  ASSUME NEW next, NEW u, NEW t, NEW p, IsChain(next, u, t), p = "HEAD" \/ In(p, next, u, t),
         Succ(p, next, u) # "NULL", Succ(p, next, u) # t,
         NEW new, \A x \in Names : new[x] = IF x = p THEN next[Succ(p, next, u)] ELSE next[x]
  PROVE  LET s == Succ(p, next, u)
             v == IF p = "HEAD" THEN next[s] ELSE u
         IN /\ IsChain(new, v, t)
            /\ \A x : In(x, new, v, t) <=> In(x, next, u, t) /\ x # s
            /\ \A x : Upto(x, p, new, v, t) <=> Upto(x, p, next, u, t)
            /\ next[s] \in Names
<1> DEFINE s == Succ(p, next, u)
           v == IF p = "HEAD" THEN next[s] ELSE u
<1>0. /\ s = Succ(p, next, u) /\ s # "NULL" /\ s # t
      /\ \A x \in Names : new[x] = IF x = p THEN next[s] ELSE next[x]
  OBVIOUS
<1> HIDE DEF s
<1>1. PICK q : Chain(q, next, u, t)
  BY DEF IsChain
<1>2. /\ q \in Seq(Names) /\ Len(q) \in Nat /\ DOMAIN q = 1..Len(q)
      /\ "NULL" \notin Names /\ "HEAD" \notin Names
      /\ \A i \in 1..Len(q) : q[i] \in Names
  BY <1>1, LinkSymbolsAssumption DEF Chain
<1>3. \A i \in 1..Len(q) : next[q[i]] = IF i < Len(q) THEN q[i + 1] ELSE "NULL"
  BY <1>1, <1>2 DEF Chain
<1>4. \A i, j \in 1..Len(q) : q[i] = q[j] => i = j
  BY <1>1, <1>2 DEF Chain
<1>5. PICK k \in 1..Len(q) : q[k] = s /\ IF k = 1 THEN p = "HEAD" ELSE p = q[k - 1]
  <2>1. CASE p = "HEAD"
    <3>1. s = u /\ q # <<>> /\ 1 \in 1..Len(q)
      BY <1>0, <1>1, <1>2, <2>1 DEF Succ, Chain
    <3>2. q[1] = s
      BY <1>1, <3>1 DEF Chain
    <3> QED BY <2>1, <3>1, <3>2
  <2>2. CASE p # "HEAD"
    <3>1. PICK i \in 1..Len(q) : q[i] = p
      BY <1>1, <1>2, <2>2, TheList
    <3>2. s = next[p]
      BY <1>0, <2>2 DEF Succ
    <3>3. i < Len(q) /\ s = q[i + 1]
      BY <1>0, <1>3, <3>1, <3>2
    <3>4. i + 1 \in 1..Len(q) /\ i + 1 # 1 /\ (i + 1) - 1 = i
      BY <1>2, <3>3
    <3> QED BY <3>1, <3>3, <3>4
  <2> QED BY <2>1, <2>2
<1>6. k < Len(q) /\ next[s] = q[k + 1] /\ k + 1 \in 1..Len(q)
  <2>1. t = q[Len(q)]
    BY <1>1, <1>2, <1>5 DEF Chain
  <2>2. k # Len(q)
    BY <1>0, <1>5, <2>1
  <2>3. k \in Nat /\ k < Len(q) /\ k + 1 \in 1..Len(q)
    <3>1. Len(q) \in Nat /\ k \in 1..Len(q)
      BY <1>2
    <3> QED BY ONLY <2>2, <3>1
  <2>4. next[q[k]] = q[k + 1]
    BY <1>3, <2>3
  <2> QED BY <1>5, <2>3, <2>4
<1>7. ASSUME NEW x \in Names PROVE new[x] = IF k > 1 /\ x = q[k - 1] THEN q[k + 1] ELSE next[x]
  <2>1. x = p <=> k > 1 /\ x = q[k - 1]
    BY <1>2, <1>5
  <2> QED BY <1>0, <1>6, <2>1
<1>8. v = IF k = 1 THEN q[2] ELSE u
  <2>1. k = 1 => k + 1 = 2
    OBVIOUS
  <2>2. k # 1 => k - 1 \in 1..Len(q) /\ p # "HEAD"
    BY <1>2, <1>5
  <2> QED BY <1>5, <1>6, <2>1, <2>2
<1>9. PICK r : /\ Chain(r, new, v, t) /\ Len(r) = Len(q) - 1
               /\ \A i \in DOMAIN r : r[i] = IF i < k THEN q[i] ELSE q[i + 1]
  <2> HIDE DEF v
  <2>1. k \in DOMAIN q /\ k < Len(q)
    BY <1>2, <1>6
  <2>2. \E r : /\ Chain(r, new, IF k = 1 THEN q[2] ELSE u, t)
               /\ Len(r) = Len(q) - 1
               /\ \A i \in DOMAIN r : r[i] = IF i < k THEN q[i] ELSE q[i + 1]
    BY <1>1, <1>7, <2>1, ChainRemove
  <2> QED BY <1>8, <2>2
<1>10. DOMAIN r = 1..(Len(q) - 1)
  BY <1>9 DEF Chain
<1> HIDE DEF v
<1>11. ASSUME NEW x PROVE In(x, new, v, t) <=> In(x, next, u, t) /\ x # s
  <2>1. In(x, new, v, t) <=> \E i \in 1..(Len(q) - 1) : r[i] = x
    BY <1>9, <1>10, TheList
  <2>2. In(x, next, u, t) <=> \E i \in 1..Len(q) : q[i] = x
    BY <1>1, <1>2, TheList
  <2>3. ASSUME NEW i \in 1..(Len(q) - 1), r[i] = x PROVE \E j \in 1..Len(q) : q[j] = x /\ j # k
    <3>1. i \in 1..Len(q) /\ i + 1 \in 1..Len(q)
      BY <1>2
    <3>2. CASE i < k
      BY <1>9, <1>10, <2>3, <3>1, <3>2
    <3>3. CASE ~(i < k)
      <4>1. q[i + 1] = x /\ i + 1 # k
        BY <1>9, <1>10, <2>3, <3>3
      <4> QED BY <3>1, <4>1
    <3> QED BY <3>2, <3>3
  <2>4. ASSUME NEW j \in 1..Len(q), q[j] = x, j # k PROVE \E i \in 1..(Len(q) - 1) : r[i] = x
    <3>1. CASE j < k
      <4>1. j \in 1..(Len(q) - 1)
        BY <1>2, <3>1
      <4> QED BY <1>9, <1>10, <2>4, <3>1, <4>1
    <3>2. CASE ~(j < k)
      <4>1. j - 1 \in 1..(Len(q) - 1) /\ ~(j - 1 < k) /\ (j - 1) + 1 = j
        BY <1>2, <2>4, <3>2
      <4>2. r[j - 1] = q[(j - 1) + 1]
        BY <1>9, <1>10, <4>1
      <4> QED BY <2>4, <4>1, <4>2
    <3> QED BY <3>1, <3>2
  <2>5. \A j \in 1..Len(q) : j # k <=> q[j] # s
    BY <1>4, <1>5
  <2> QED BY <2>1, <2>2, <2>3, <2>4, <2>5
<1>12. ASSUME NEW x PROVE Upto(x, p, new, v, t) <=> Upto(x, p, next, u, t)
  <2>1. Upto(x, p, new, v, t) <=>
          \E i, j \in 1..(Len(q) - 1) : i <= j /\ r[i] = x /\ r[j] = p
    BY <1>9, <1>10, TheList
  <2>2. Upto(x, p, next, u, t) <=> \E i, j \in 1..Len(q) : i <= j /\ q[i] = x /\ q[j] = p
    BY <1>1, <1>2, TheList
  <2>3. \A j \in 1..Len(q) : q[j] = p <=> k > 1 /\ j = k - 1
    <3>1. k > 1 => k - 1 \in 1..Len(q)
      BY <1>2
    <3> QED BY <1>2, <1>4, <1>5, <3>1
  <2>4. \A i \in 1..(Len(q) - 1) : i \in 1..Len(q) /\ i + 1 \in 1..Len(q)
    BY <1>2
  <2>5. \A j \in 1..(Len(q) - 1) : r[j] = p <=> k > 1 /\ j = k - 1
    <3> TAKE j \in 1..(Len(q) - 1)
    <3>1. CASE j < k
      BY <1>9, <1>10, <2>3, <2>4, <3>1
    <3>2. CASE ~(j < k)
      <4>1. r[j] = q[j + 1] /\ j + 1 # k - 1 /\ j # k - 1
        BY <1>9, <1>10, <3>2
      <4> QED BY <2>3, <2>4, <4>1
    <3> QED BY <3>1, <3>2
  <2>6. k > 1 => k - 1 \in 1..(Len(q) - 1) /\ k - 1 \in 1..Len(q)
    BY <1>2
  <2>7. Upto(x, p, new, v, t) <=> k > 1 /\ \E i \in 1..(Len(q) - 1) : i <= k - 1 /\ r[i] = x
    BY <2>1, <2>5, <2>6
  <2>8. Upto(x, p, next, u, t) <=> k > 1 /\ \E i \in 1..Len(q) : i <= k - 1 /\ q[i] = x
    BY <2>2, <2>3, <2>6
  <2>9. \A i \in 1..Len(q) : i <= k - 1 => i \in 1..(Len(q) - 1) /\ i < k
    BY <1>2
  <2>10. \A i \in 1..(Len(q) - 1) : i <= k - 1 => r[i] = q[i]
    BY <1>9, <1>10, <2>4, <2>9
  <2> QED BY <2>4, <2>7, <2>8, <2>9, <2>10
<1>13. IsChain(new, v, t)
  BY <1>9 DEF IsChain
<1> QED BY <1>2, <1>6, <1>11, <1>12, <1>13 DEF v, s

-----------------------------------------------------------------------------
(* The list of undefined symbols and the actions that change it.           *)

Nexts == [x \in Names |-> hash[x].next]

\* The definitions of LinkSymbols in terms of those above.
LEMMA ListIs ==
  /\ (\E list \in Lists : IsList(list)) <=> IsChain(Nexts, undefs, undefs_tail)
  /\ \A x : OnList(x) <=> In(x, Nexts, undefs, undefs_tail)
  /\ \A x : Passed(x) <=> Upto(x, search.pundef, Nexts, undefs, undefs_tail)
<1>1. ASSUME NEW q PROVE (q \in Lists /\ IsList(q)) <=> Chain(q, Nexts, undefs, undefs_tail)
  <2>1. q \in Lists <=> q \in Seq(Names) /\ \A i, j \in DOMAIN q : q[i] = q[j] => i = j
    BY ListsAre
  <2>2. q \in Seq(Names) => \A i \in DOMAIN q : Nexts[q[i]] = hash[q[i]].next
    BY DEF Nexts
  <2> HIDE DEF Nexts
  <2>3. q \in Seq(Names) => (q # <<>> => Head(q) = q[1])
    OBVIOUS
  <2> QED BY <2>1, <2>2, <2>3 DEF IsList, HeadOf, TailOf, Chain, Last
<1> QED BY <1>1 DEF IsChain, OnList, In, Passed, Upto, ToSet

\* The same after a step.
LEMMA ListIsThen ==
  /\ (\E list \in Lists : IsList(list))' <=> IsChain(Nexts', undefs', undefs_tail')
  /\ \A x : OnList(x)' <=> In(x, Nexts', undefs', undefs_tail')
  /\ \A x : Passed(x)' <=> Upto(x, search'.pundef, Nexts', undefs', undefs_tail')
<1>1. ASSUME NEW q PROVE (q \in Lists /\ IsList(q)') <=> Chain(q, Nexts', undefs', undefs_tail')
  <2>1. q \in Lists <=> q \in Seq(Names) /\ \A i, j \in DOMAIN q : q[i] = q[j] => i = j
    BY ListsAre
  <2>2. q \in Seq(Names) => \A i \in DOMAIN q : Nexts'[q[i]] = hash'[q[i]].next
    BY DEF Nexts
  <2> HIDE DEF Nexts
  <2>3. q \in Seq(Names) => (q # <<>> => Head(q) = q[1])
    OBVIOUS
  <2> QED BY <2>1, <2>2, <2>3 DEF IsList, HeadOf, TailOf, Chain, Last
<1>2. Lists' = Lists
  BY DEF Lists
<1> QED BY <1>1, <1>2 DEF IsChain, OnList, In, Passed, Upto, ToSet

\* What is known of the list, of its tail and of the place of the search.
LEMMA ListFacts ==
  ASSUME HasList
  PROVE  /\ undefs_tail # "NULL" => OnList(undefs_tail) /\ hash[undefs_tail].next = "NULL"
         /\ undefs = "NULL" <=> undefs_tail = "NULL"
         /\ \A x : OnList(x) => x \in Names /\ Referenced(x)
         /\ \A x : (OnList(x) /\ x # undefs_tail) => hash[x].next \in Names
         /\ \A x : Passed(x) => OnList(x) /\ OnList(search.pundef)
         /\ (SearchOnList /\ At # "NULL") => OnList(At)
         /\ (SearchOnList /\ At = "NULL") => \A x : OnList(x) => Passed(x)
<1> DEFINE next == Nexts
<1>1. IsChain(next, undefs, undefs_tail)
  BY ListIs DEF HasList
<1>2. \A x \in Names : next[x] = hash[x].next
  BY DEF Nexts
<1>3. "NULL" \notin Names /\ "HEAD" \notin Names
  BY LinkSymbolsAssumption
<1> HIDE DEF next
<1>4. /\ \A x : OnList(x) <=> In(x, next, undefs, undefs_tail)
      /\ \A x : Passed(x) <=> Upto(x, search.pundef, next, undefs, undefs_tail)
  BY ListIs DEF next
<1>5. /\ undefs_tail # "NULL" => In(undefs_tail, next, undefs, undefs_tail) /\ next[undefs_tail] = "NULL"
      /\ undefs = "NULL" <=> undefs_tail = "NULL"
      /\ \A x : In(x, next, undefs, undefs_tail) => x \in Names
      /\ \A x : (In(x, next, undefs, undefs_tail) /\ x # undefs_tail) => next[x] \in Names
      /\ \A x, p : Upto(x, p, next, undefs, undefs_tail) =>
                     In(x, next, undefs, undefs_tail) /\ In(p, next, undefs, undefs_tail)
  BY <1>1, ChainFacts
<1>6. \A x : OnList(x) => x \in Names /\ Referenced(x)
  <2>1. \A x : OnList(x) => x \in Names /\ (x # undefs_tail => next[x] # "NULL")
    BY <1>3, <1>4, <1>5
  <2> QED BY <1>2, <2>1 DEF Referenced
<1>7. ASSUME SearchOnList PROVE /\ At # "NULL" => OnList(At)
                                /\ At = "NULL" => \A x : OnList(x) => Passed(x)
  <2>1. search.pundef = "HEAD" \/ In(search.pundef, next, undefs, undefs_tail)
    BY <1>4, <1>7 DEF SearchOnList
  <2>2. At = Succ(search.pundef, next, undefs)
    BY <1>2, <1>3, <1>5, <2>1 DEF At, Succ
  <2> DEFINE s == Succ(search.pundef, next, undefs)
  <2>3. /\ s # "NULL" => In(s, next, undefs, undefs_tail)
        /\ s = "NULL" => \A x : In(x, next, undefs, undefs_tail) =>
                                  Upto(x, search.pundef, next, undefs, undefs_tail)
    BY <1>1, <2>1, SuccFacts
  <2> HIDE DEF s
  <2>4. At = s
    BY <2>2 DEF s
  <2> QED BY <1>4, <2>3, <2>4
<1> QED BY <1>2, <1>4, <1>5, <1>6, <1>7

\* The links on the list stay.
LEMMA ListSame ==
  ASSUME HasList, \A x \in Names : OnList(x) => hash'[x].next = hash[x].next,
         UNCHANGED <<undefs, undefs_tail>>
  PROVE  /\ HasList' /\ \A x : OnList(x)' <=> OnList(x)
         /\ search'.pundef = search.pundef => \A x : Passed(x)' <=> Passed(x)
         /\ search'.pundef = "HEAD" => \A x : ~Passed(x)'
         /\ (SearchOnList /\ At # "NULL" /\ search'.pundef = At) =>
              \A x : Passed(x)' <=> Passed(x) \/ x = At
<1> DEFINE next == Nexts
           new == Nexts'
           u == undefs
           t == undefs_tail
<1>1. IsChain(next, u, t)
  BY ListIs DEF HasList
<1>2. (\A x \in Names : next[x] = hash[x].next) /\ (\A x \in Names : new[x] = hash'[x].next)
  BY DEF Nexts
<1>3. "NULL" \notin Names /\ "HEAD" \notin Names
  BY LinkSymbolsAssumption
<1> HIDE DEF next, new
<1>4. /\ \A x : OnList(x) <=> In(x, next, u, t)
      /\ \A x : Passed(x) <=> Upto(x, search.pundef, next, u, t)
  BY ListIs DEF next
<1>5. /\ HasList' <=> IsChain(new, u, t)
      /\ \A x : OnList(x)' <=> In(x, new, u, t)
      /\ \A x : Passed(x)' <=> Upto(x, search'.pundef, new, u, t)
  BY ListIsThen DEF new, HasList
<1>6. /\ \A x : In(x, next, u, t) => x \in Names
      /\ \A x, p : Upto(x, p, next, u, t) => In(p, next, u, t)
  BY <1>1, ChainFacts
<1>7. \A x : In(x, next, u, t) => new[x] = next[x]
  BY <1>2, <1>4, <1>6
<1>8. /\ IsChain(new, u, t)
      /\ \A x : In(x, new, u, t) <=> In(x, next, u, t)
      /\ \A x, p : Upto(x, p, new, u, t) <=> Upto(x, p, next, u, t)
  BY <1>1, <1>7, SameChain
<1>9. search'.pundef = "HEAD" => \A x : ~Passed(x)'
  BY <1>3, <1>5, <1>6, <1>8
<1>10. ASSUME SearchOnList, At # "NULL", search'.pundef = At
       PROVE  \A x : Passed(x)' <=> Passed(x) \/ x = At
  <2>1. search.pundef = "HEAD" \/ In(search.pundef, next, u, t)
    BY <1>4, <1>10 DEF SearchOnList
  <2>2. At = Succ(search.pundef, next, u)
    BY <1>2, <1>3, <1>6, <2>1 DEF At, Succ
  <2> DEFINE s == Succ(search.pundef, next, u)
  <2>3. s # "NULL" => \A x : Upto(x, s, next, u, t) <=> Upto(x, search.pundef, next, u, t) \/ x = s
    BY <1>1, <2>1, SuccFacts
  <2> HIDE DEF s
  <2>4. At = s
    BY <2>2 DEF s
  <2> QED BY <1>4, <1>5, <1>8, <1>10, <2>3, <2>4
<1> QED BY <1>4, <1>5, <1>8, <1>9, <1>10

\* A symbol is put on the list.
LEMMA ListAdded ==
  ASSUME HasList, NEW n \in Names, ~OnList(n), hash[n].next = "NULL",
         \A x \in Names : hash'[x].next = IF x = undefs_tail THEN n ELSE hash[x].next,
         undefs' = IF undefs = "NULL" THEN n ELSE undefs, undefs_tail' = n
  PROVE  /\ HasList' /\ \A x : OnList(x)' <=> OnList(x) \/ x = n
         /\ (SearchOnList /\ search'.pundef = search.pundef) => \A x : Passed(x)' <=> Passed(x)
<1> DEFINE next == Nexts
           new == Nexts'
           u == undefs
           t == undefs_tail
           v == IF u = "NULL" THEN n ELSE u
<1>1. IsChain(next, u, t)
  BY ListIs DEF HasList
<1>2. (\A x \in Names : next[x] = hash[x].next) /\ (\A x \in Names : new[x] = hash'[x].next)
  BY DEF Nexts
<1>3. "NULL" \notin Names /\ "HEAD" \notin Names
  BY LinkSymbolsAssumption
<1> HIDE DEF next, new
<1>4. /\ \A x : OnList(x) <=> In(x, next, u, t)
      /\ \A x : Passed(x) <=> Upto(x, search.pundef, next, u, t)
  BY ListIs DEF next
<1>5. /\ HasList' <=> IsChain(new, v, n)
      /\ \A x : OnList(x)' <=> In(x, new, v, n)
      /\ \A x : Passed(x)' <=> Upto(x, search'.pundef, new, v, n)
  BY ListIsThen DEF new, HasList
<1>6. ~In(n, next, u, t) /\ next[n] = "NULL" /\ \A x \in Names : new[x] = IF x = t THEN n ELSE next[x]
  BY <1>2, <1>4
<1>7. /\ IsChain(new, v, n)
      /\ \A x : In(x, new, v, n) <=> In(x, next, u, t) \/ x = n
      /\ \A x, p : p # n => (Upto(x, p, new, v, n) <=> Upto(x, p, next, u, t))
  <2> HIDE DEF v
  <2> QED BY <1>1, <1>6, Appended DEF v
<1>8. SearchOnList => search.pundef # n
  BY <1>3 DEF SearchOnList
<1> HIDE DEF v
<1> QED BY <1>4, <1>5, <1>7, <1>8

\* The symbol that the search is at is taken off the list.
LEMMA ListForgets ==
  ASSUME HasList, SearchOnList, At # "NULL", At # undefs_tail,
         \A x \in Names : hash'[x].next = IF x = search.pundef THEN hash[At].next ELSE hash[x].next,
         undefs' = IF search.pundef = "HEAD" THEN hash[At].next ELSE undefs,
         UNCHANGED <<undefs_tail, search>>
  PROVE  /\ HasList' /\ (\A x : OnList(x)' <=> OnList(x) /\ x # At) /\ \A x : Passed(x)' <=> Passed(x)
         /\ hash[At].next \in Names
<1> DEFINE next == Nexts
           new == Nexts'
           u == undefs
           t == undefs_tail
           p == search.pundef
           v == IF p = "HEAD" THEN next[At] ELSE u
<1>1. IsChain(next, u, t)
  BY ListIs DEF HasList
<1>2. (\A x \in Names : next[x] = hash[x].next) /\ (\A x \in Names : new[x] = hash'[x].next)
  BY DEF Nexts
<1>3. "NULL" \notin Names /\ "HEAD" \notin Names
  BY LinkSymbolsAssumption
<1>0. OnList(At) /\ At \in Names
  BY ListFacts
<1> HIDE DEF next, new
<1>4. /\ \A x : OnList(x) <=> In(x, next, u, t)
      /\ \A x : Passed(x) <=> Upto(x, p, next, u, t)
  BY ListIs DEF next
<1>5. /\ HasList' <=> IsChain(new, v, t)
      /\ \A x : OnList(x)' <=> In(x, new, v, t)
      /\ \A x : Passed(x)' <=> Upto(x, p, new, v, t)
  <2>1. undefs' = v
    BY <1>0, <1>2
  <2> QED BY <2>1, ListIsThen DEF new, HasList
<1>6. p = "HEAD" \/ In(p, next, u, t)
  BY <1>4 DEF SearchOnList
<1>7. At = Succ(p, next, u)
  <2>1. p = "HEAD" \/ p \in Names
    BY <1>1, <1>6, ChainFacts
  <2> QED BY <1>2, <1>3, <2>1 DEF At, Succ
<1>8. \A x \in Names : new[x] = IF x = p THEN next[At] ELSE next[x]
  BY <1>0, <1>2
<1> HIDE DEF v
<1>9. /\ IsChain(new, v, t)
      /\ \A x : In(x, new, v, t) <=> In(x, next, u, t) /\ x # At
      /\ \A x : Upto(x, p, new, v, t) <=> Upto(x, p, next, u, t)
      /\ next[At] \in Names
  <2>1. /\ Succ(p, next, u) # "NULL" /\ Succ(p, next, u) # t
        /\ \A x \in Names : new[x] = IF x = p THEN next[Succ(p, next, u)] ELSE next[x]
    BY <1>7, <1>8
  <2> DEFINE s == Succ(p, next, u)
             w == IF p = "HEAD" THEN next[s] ELSE u
  <2>2. /\ IsChain(new, w, t)
        /\ \A x : In(x, new, w, t) <=> In(x, next, u, t) /\ x # s
        /\ \A x : Upto(x, p, new, w, t) <=> Upto(x, p, next, u, t)
        /\ next[s] \in Names
    BY <1>1, <1>6, <2>1, Removed
  <2>3. s = At /\ w = v
    BY <1>7 DEF v
  <2> HIDE DEF w, s
  <2> QED BY <2>2, <2>3
<1> QED BY <1>0, <1>2, <1>4, <1>5, <1>9

-----------------------------------------------------------------------------
(* What each action does.                                                  *)

Entries ==
  [type : Types, owner : Owners, value : Nat, link : Pointers, next : Names \cup {"NULL"},
   warnings : Seq(BOOLEAN)]

\* The rows and types for which the table has each action.
LEMMA Table ==
  ASSUME NEW row \in Rows, NEW type \in Types \cup {"warn"}
  PROVE  LET a == link_action[row][type]
         IN /\ a = "NOACT" => /\ row \in {"UNDEF_ROW", "UNDEFW_ROW", "DEFW_ROW"}
                              /\ row = "UNDEF_ROW" => type \in {"undef", "com"}
                              /\ row = "UNDEFW_ROW" => type \in {"undef", "undefw", "com"}
                              /\ row = "DEFW_ROW" => type \in {"def", "defw", "com", "indr"}
            /\ a = "UND" => row = "UNDEF_ROW" /\ type \in {"new", "undefw"}
            /\ a = "WEAK" => row = "UNDEFW_ROW" /\ type = "new"
            /\ a = "DEF" => row = "DEF_ROW" /\ type \in {"new", "undef", "undefw", "defw"}
            /\ a = "DEFW" => row = "DEFW_ROW" /\ type \in {"new", "undef", "undefw"}
            /\ a = "CDEF" => row = "DEF_ROW" /\ type = "com"
            /\ a = "COM" => row = "COMMON_ROW" /\ type \in {"new", "undef", "undefw"}
            /\ a = "REF" => row \in {"UNDEF_ROW", "UNDEFW_ROW"} /\ type \in {"def", "defw"}
            /\ a = "BIG" => row = "COMMON_ROW" /\ type = "com"
            /\ a = "CREF" => row = "COMMON_ROW" /\ type \in {"def", "defw"}
            /\ a = "MDEF" => \/ row = "DEF_ROW" /\ type \in {"def", "indr"}
                             \/ row = "INDR_ROW" /\ type = "def"
            /\ a = "IND" => row = "INDR_ROW" /\ type \in {"new", "undef", "undefw", "defw"}
            /\ a = "CIND" => row = "INDR_ROW" /\ type = "com"
            /\ a = "MIND" => row = "INDR_ROW" /\ type = "indr"
            /\ a = "SET" => row = "SET_ROW" /\ type \in Types \ {"indr"}
            /\ a = "WARNC" => row \in {"UNDEF_ROW", "UNDEFW_ROW", "COMMON_ROW"} /\ type = "warn"
            /\ a = "CYCLE" => \/ row \in {"DEF_ROW", "DEFW_ROW", "INDR_ROW"} /\ type = "warn"
                              \/ row = "SET_ROW" /\ type \in {"indr", "warn"}
            /\ a = "REFC" => row \in {"UNDEF_ROW", "UNDEFW_ROW", "COMMON_ROW"} /\ type = "indr"
            /\ a = "WARN" => row = "WARN_ROW" /\ type \in {"undef", "undefw", "com"}
            /\ a = "CWARN" => row = "WARN_ROW" /\ type \in {"def", "defw", "indr"}
            /\ a = "MWARN" => row = "WARN_ROW" /\ type \in {"new", "warn"}
<1> DEFINE a == link_action[row][type]
<1>1. type \in {"new", "undef", "undefw", "def", "defw", "com", "indr", "warn"}
  BY DEF Types
<1>2. CASE row = "UNDEF_ROW"
  <2>1. a = CASE type = "new" -> "UND" [] type = "undef" -> "NOACT" [] type = "undefw" -> "UND"
              [] type = "def" -> "REF" [] type = "defw" -> "REF" [] type = "com" -> "NOACT"
              [] type = "indr" -> "REFC" [] type = "warn" -> "WARNC"
    BY <1>1, <1>2 DEF link_action
  <2> HIDE DEF a
  <2> QED BY <1>1, <1>2, <2>1 DEF a, Types
<1>3. CASE row = "UNDEFW_ROW"
  <2>1. a = CASE type = "new" -> "WEAK" [] type = "undef" -> "NOACT" [] type = "undefw" -> "NOACT"
              [] type = "def" -> "REF" [] type = "defw" -> "REF" [] type = "com" -> "NOACT"
              [] type = "indr" -> "REFC" [] type = "warn" -> "WARNC"
    BY <1>1, <1>3 DEF link_action
  <2> HIDE DEF a
  <2> QED BY <1>1, <1>3, <2>1 DEF a, Types
<1>4. CASE row = "DEF_ROW"
  <2>1. a = CASE type = "new" -> "DEF" [] type = "undef" -> "DEF" [] type = "undefw" -> "DEF"
              [] type = "def" -> "MDEF" [] type = "defw" -> "DEF" [] type = "com" -> "CDEF"
              [] type = "indr" -> "MDEF" [] type = "warn" -> "CYCLE"
    BY <1>1, <1>4 DEF link_action
  <2> HIDE DEF a
  <2> QED BY <1>1, <1>4, <2>1 DEF a, Types
<1>5. CASE row = "DEFW_ROW"
  <2>1. a = CASE type = "new" -> "DEFW" [] type = "undef" -> "DEFW" [] type = "undefw" -> "DEFW"
              [] type = "def" -> "NOACT" [] type = "defw" -> "NOACT" [] type = "com" -> "NOACT"
              [] type = "indr" -> "NOACT" [] type = "warn" -> "CYCLE"
    BY <1>1, <1>5 DEF link_action
  <2> HIDE DEF a
  <2> QED BY <1>1, <1>5, <2>1 DEF a, Types
<1>6. CASE row = "COMMON_ROW"
  <2>1. a = CASE type = "new" -> "COM" [] type = "undef" -> "COM" [] type = "undefw" -> "COM"
              [] type = "def" -> "CREF" [] type = "defw" -> "CREF" [] type = "com" -> "BIG"
              [] type = "indr" -> "REFC" [] type = "warn" -> "WARNC"
    BY <1>1, <1>6 DEF link_action
  <2> HIDE DEF a
  <2> QED BY <1>1, <1>6, <2>1 DEF a, Types
<1>7. CASE row = "INDR_ROW"
  <2>1. a = CASE type = "new" -> "IND" [] type = "undef" -> "IND" [] type = "undefw" -> "IND"
              [] type = "def" -> "MDEF" [] type = "defw" -> "IND" [] type = "com" -> "CIND"
              [] type = "indr" -> "MIND" [] type = "warn" -> "CYCLE"
    BY <1>1, <1>7 DEF link_action
  <2> HIDE DEF a
  <2> QED BY <1>1, <1>7, <2>1 DEF a, Types
<1>8. CASE row = "WARN_ROW"
  <2>1. a = CASE type = "new" -> "MWARN" [] type = "undef" -> "WARN" [] type = "undefw" -> "WARN"
              [] type = "def" -> "CWARN" [] type = "defw" -> "CWARN" [] type = "com" -> "WARN"
              [] type = "indr" -> "CWARN" [] type = "warn" -> "MWARN"
    BY <1>1, <1>8 DEF link_action
  <2> HIDE DEF a
  <2> QED BY <1>1, <1>8, <2>1 DEF a, Types
<1>9. CASE row = "SET_ROW"
  <2>1. a = CASE type = "new" -> "SET" [] type = "undef" -> "SET" [] type = "undefw" -> "SET"
              [] type = "def" -> "SET" [] type = "defw" -> "SET" [] type = "com" -> "SET"
              [] type = "indr" -> "CYCLE" [] type = "warn" -> "CYCLE"
    BY <1>1, <1>9 DEF link_action
  <2> HIDE DEF a
  <2> QED BY <1>1, <1>9, <2>1 DEF a, Types
<1> QED BY <1>2, <1>3, <1>4, <1>5, <1>6, <1>7, <1>8, <1>9 DEF Rows

\* The entry that the addition is at.
LEMMA Acting ==
  ASSUME StrongTypes, cur.on
  PROVE  /\ cur \in Additions /\ This \in Names /\ cur.row \in Rows /\ cur.h \in Names \X Nat
         /\ cur.sym \in AllSymbols /\ cur.owner \in Owners
         /\ cur.h[2] \in Nat /\ cur.h[2] <= Len(hash[This].warnings)
         /\ Type(cur.h) \in Types \cup {"warn"}
         /\ Type(cur.h) = "warn" => cur.h[2] > 0
         /\ Type(cur.h) # "warn" => cur.h[2] = 0 /\ Type(cur.h) = hash[This].type
<1>1. cur \in Additions /\ cur.h[2] <= Len(hash[cur.h[1]].warnings)
  BY DEF StrongTypes, NotAdding
<1>2. This \in Names /\ cur.row \in Rows /\ cur.h[2] \in Nat /\ cur.sym \in AllSymbols /\ cur.owner \in Owners
  BY <1>1 DEF Additions, This
<1>3. hash[This].type \in Types /\ hash[This].type # "warn"
  BY <1>2 DEF StrongTypes, TypeOK, Types
<1>4. cur.h \in Names \X Nat
  BY <1>1 DEF Additions
<1> QED BY <1>1, <1>2, <1>3, <1>4 DEF Type, This

\* Each action is taken for what the table says.
LEMMA ActionsDo ==
  /\ ActNOACT => Does("NOACT")
  /\ ActUND => Does("UND")
  /\ ActWEAK => Does("WEAK")
  /\ ActDEF => Does("DEF") \/ Does("DEFW") \/ Does("CDEF")
  /\ ActCOM => Does("COM")
  /\ ActREF => Does("REF")
  /\ ActBIG => Does("BIG")
  /\ ActCREF => Does("CREF")
  /\ ActMDEF => Does("MDEF") \/ Does("MIND")
  /\ ActIND => Does("IND") \/ Does("CIND")
  /\ ActSET => Does("SET")
  /\ ActWARNC => Does("WARNC")
  /\ ActCYCLE => Does("CYCLE")
  /\ ActREFC => Does("REFC")
  /\ ActWARN => Does("WARN") \/ Does("CWARN")
  /\ ActMWARN => Does("MWARN") \/ Does("CWARN")
<1>1. ActNOACT => Does("NOACT")
  BY DEF ActNOACT
<1>2. ActUND => Does("UND")
  BY DEF ActUND
<1>3. ActWEAK => Does("WEAK")
  BY DEF ActWEAK
<1>4. ActDEF => Does("DEF") \/ Does("DEFW") \/ Does("CDEF")
  BY DEF ActDEF
<1>5. ActCOM => Does("COM")
  BY DEF ActCOM
<1>6. ActREF => Does("REF")
  BY DEF ActREF
<1>7. ActBIG => Does("BIG")
  BY DEF ActBIG
<1>8. ActCREF => Does("CREF")
  BY DEF ActCREF
<1>9. ActMDEF => Does("MDEF") \/ Does("MIND")
  BY DEF ActMDEF
<1>10. ActIND => Does("IND") \/ Does("CIND")
  BY DEF ActIND
<1>11. ActSET => Does("SET")
  BY DEF ActSET
<1>12. ActWARNC => Does("WARNC")
  BY DEF ActWARNC
<1>13. ActCYCLE => Does("CYCLE")
  BY DEF ActCYCLE
<1>14. ActREFC => Does("REFC")
  BY DEF ActREFC
<1>15. ActWARN => Does("WARN") \/ Does("CWARN")
  BY DEF ActWARN, Warns
<1>16. ActMWARN => Does("MWARN") \/ Does("CWARN")
  BY DEF ActMWARN, Warns
<1> QED BY <1>1, <1>2, <1>3, <1>4, <1>5, <1>6, <1>7, <1>8, <1>9, <1>10, <1>11, <1>12, <1>13, <1>14, <1>15, <1>16

\* All of an entry stays but its link to the next on the list.
Fixed(y) ==
  /\ hash'[y].type = hash[y].type /\ hash'[y].owner = hash[y].owner /\ hash'[y].value = hash[y].value
  /\ hash'[y].link = hash[y].link /\ hash'[y].warnings = hash[y].warnings
OthersFixed(x) == \A y \in Names : y # x => Fixed(y)
ListFixed == (\A y \in Names : hash'[y].next = hash[y].next) /\ UNCHANGED <<undefs, undefs_tail>>
Adds(n) ==
  /\ \A y \in Names : hash'[y].next = IF y = undefs_tail THEN n ELSE hash[y].next
  /\ undefs' = (IF undefs = "NULL" THEN n ELSE undefs) /\ undefs_tail' = n
Becomes(x, type, owner, value) ==
  /\ OthersFixed(x)
  /\ hash'[x].type = type /\ hash'[x].owner = owner /\ hash'[x].value = value
  /\ hash'[x].link = hash[x].link /\ hash'[x].warnings = hash[x].warnings
Marks(x) ==
  /\ \A y \in Names : Fixed(y)
  /\ \A y \in Names : hash'[y].next = IF y = x /\ ~Referenced(x) THEN x ELSE hash[y].next
  /\ UNCHANGED <<undefs, undefs_tail>>
WarningsAre(x, warnings) ==
  /\ OthersFixed(x) /\ ListFixed
  /\ hash'[x].type = hash[x].type /\ hash'[x].owner = hash[x].owner /\ hash'[x].value = hash[x].value
  /\ hash'[x].link = hash[x].link /\ hash'[x].warnings = warnings

\* What each action but IND does to the entries and to the list.
LEMMA Effects ==
  ASSUME StrongTypes
  PROVE  /\ (ActNOACT \/ ActCREF \/ ActMDEF \/ ActWARN \/ ActCYCLE) =>
              UNCHANGED <<hash, undefs, undefs_tail>>
         /\ ActUND => Becomes(This, "undef", cur.owner, hash[This].value) /\ Adds(This)
         /\ ActWEAK => Becomes(This, "undefw", cur.owner, hash[This].value) /\ ListFixed
         /\ ActDEF => /\ Becomes(This, IF Does("DEFW") THEN "defw" ELSE "def", cur.owner, cur.sym.value)
                      /\ ListFixed
         /\ ActCOM => /\ Becomes(This, "com", cur.owner, cur.sym.value)
                      /\ IF Type(cur.h) = "new" THEN Adds(This) ELSE ListFixed
         /\ (ActREF \/ ActREFC) => Marks(This)
         /\ ActBIG => Becomes(This, hash[This].type, hash[This].owner, Bigger(hash[This].value, cur.sym.value))
                      /\ ListFixed
         /\ ActSET => /\ ListFixed
                      /\ IF build_constructors /\ Type(cur.h) = "new"
                         THEN Becomes(This, "undef", cur.owner, hash[This].value) ELSE hash' = hash
         /\ ActWARNC => WarningsAre(This, [hash[This].warnings EXCEPT ![cur.h[2]] = FALSE])
         /\ ActMWARN => WarningsAre(This, Append(hash[This].warnings, TRUE))
<1>1. hash \in [Names -> Entries] /\ undefs_tail \in Names \cup {"NULL"} /\ "NULL" \notin Names
  BY LinkSymbolsAssumption DEF StrongTypes, TypeOK, Entries
<1>2. (ActNOACT \/ ActCREF \/ ActMDEF \/ ActWARN \/ ActCYCLE) => UNCHANGED <<hash, undefs, undefs_tail>>
  BY DEF ActNOACT, ActCREF, ActMDEF, ActWARN, ActCYCLE, SameList
<1>3. ASSUME AddsOne PROVE This \in Names /\ cur.on
  <2>1. cur.on
    BY <1>3 DEF AddsOne, ActNOACT, ActUND, ActWEAK, ActDEF, ActCOM, ActREF, ActBIG, ActCREF, ActMDEF,
       ActIND, ActSET, ActWARNC, ActCYCLE, ActREFC, ActWARN, ActMWARN, Warns, Does
  <2> QED BY <2>1, Acting
<1>4. ASSUME NEW n \in Names, NEW table \in [Names -> Entries], AddUndef(table, n),
             \A y \in Names : table[y].next = hash[y].next
      PROVE  /\ \A y \in Names : /\ hash'[y].type = table[y].type /\ hash'[y].owner = table[y].owner
                                 /\ hash'[y].value = table[y].value /\ hash'[y].link = table[y].link
                                 /\ hash'[y].warnings = table[y].warnings
             /\ Adds(n)
  BY <1>1, <1>4 DEF AddUndef, Adds, Entries
<1>5. ASSUME ActUND PROVE Becomes(This, "undef", cur.owner, hash[This].value) /\ Adds(This)
  <2>1. This \in Names /\ cur.on
    BY <1>3, <1>5 DEF AddsOne
  <2>2. cur.owner \in Owners /\ "undef" \in Types
    BY <2>1, Acting DEF Types
  <2> DEFINE table == [hash EXCEPT ![This].type = "undef", ![This].owner = cur.owner]
  <2>3. table \in [Names -> Entries] /\ \A y \in Names : table[y].next = hash[y].next
    BY <1>1, <2>1, <2>2 DEF Entries
  <2>4. AddUndef(table, This)
    BY <1>5 DEF ActUND
  <2>5. /\ \A y \in Names : y # This => table[y] = hash[y]
        /\ table[This].type = "undef" /\ table[This].owner = cur.owner /\ table[This].value = hash[This].value
        /\ table[This].link = hash[This].link /\ table[This].warnings = hash[This].warnings
    BY <1>1, <2>1 DEF Entries
  <2> HIDE DEF table
  <2> QED BY <1>4, <2>1, <2>3, <2>4, <2>5 DEF Becomes, OthersFixed, Fixed
<1>6. ASSUME ActWEAK PROVE Becomes(This, "undefw", cur.owner, hash[This].value) /\ ListFixed
  BY <1>1, <1>3, <1>6 DEF AddsOne, ActWEAK, Becomes, OthersFixed, Fixed, ListFixed, SameList, Entries
<1>7. ASSUME ActDEF
      PROVE  Becomes(This, IF Does("DEFW") THEN "defw" ELSE "def", cur.owner, cur.sym.value) /\ ListFixed
  BY <1>1, <1>3, <1>7 DEF AddsOne, ActDEF, Becomes, OthersFixed, Fixed, ListFixed, SameList, Entries
<1>8. ASSUME ActCOM
      PROVE  /\ Becomes(This, "com", cur.owner, cur.sym.value)
             /\ IF Type(cur.h) = "new" THEN Adds(This) ELSE ListFixed
  <2>1. This \in Names /\ cur.on
    BY <1>3, <1>8 DEF AddsOne
  <2>2. cur.owner \in Owners /\ "com" \in Types /\ cur.sym.value \in Nat
    BY <2>1, Acting DEF Types, AllSymbols
  <2> DEFINE table == [hash EXCEPT ![This].type = "com", ![This].owner = cur.owner,
                                   ![This].value = cur.sym.value]
  <2>3. table \in [Names -> Entries] /\ \A y \in Names : table[y].next = hash[y].next
    <3> DEFINE e == hash[This]
               f == [e EXCEPT !.type = "com", !.owner = cur.owner, !.value = cur.sym.value]
    <3>1. e \in Entries
      BY <1>1, <2>1
    <3>2. table[This] = f /\ (\A y \in Names : y # This => table[y] = hash[y]) /\ DOMAIN table = Names
      BY <1>1, <2>1
    <3>3. table = [y \in Names |-> table[y]]
      BY <1>1
    <3> HIDE DEF table, e
    <3>4. f \in Entries /\ f.next = e.next
      BY <2>2, <3>1 DEF Entries
    <3> HIDE DEF f
    <3>5. \A y \in Names : table[y] \in Entries /\ table[y].next = hash[y].next
      BY <1>1, <3>2, <3>4 DEF e
    <3> QED BY <3>3, <3>5
  <2>4. IF Type(cur.h) = "new" THEN AddUndef(table, This) ELSE hash' = table /\ SameList
    BY <1>8 DEF ActCOM
  <2>5. /\ \A y \in Names : y # This => table[y] = hash[y]
        /\ table[This].type = "com" /\ table[This].owner = cur.owner /\ table[This].value = cur.sym.value
        /\ table[This].link = hash[This].link /\ table[This].warnings = hash[This].warnings
    BY <1>1, <2>1 DEF Entries
  <2> HIDE DEF table
  <2>6. CASE Type(cur.h) = "new"
    BY <1>4, <2>1, <2>3, <2>4, <2>5, <2>6 DEF Becomes, OthersFixed, Fixed
  <2>7. CASE Type(cur.h) # "new"
    BY <2>1, <2>3, <2>4, <2>5, <2>7 DEF Becomes, OthersFixed, Fixed, ListFixed, SameList
  <2> QED BY <2>6, <2>7
<1>9. ASSUME ActREF \/ ActREFC PROVE Marks(This)
  BY <1>1, <1>3, <1>9 DEF AddsOne, ActREF, ActREFC, Marks, Marked, Fixed, SameList, Entries
<1>10. ASSUME ActBIG
       PROVE  Becomes(This, hash[This].type, hash[This].owner, Bigger(hash[This].value, cur.sym.value))
              /\ ListFixed
  BY <1>1, <1>3, <1>10 DEF AddsOne, ActBIG, Becomes, OthersFixed, Fixed, ListFixed, SameList, Entries
<1>11. ASSUME ActSET
       PROVE  /\ ListFixed
              /\ IF build_constructors /\ Type(cur.h) = "new"
                 THEN Becomes(This, "undef", cur.owner, hash[This].value) ELSE hash' = hash
  BY <1>1, <1>3, <1>11 DEF AddsOne, ActSET, Becomes, OthersFixed, Fixed, ListFixed, SameList, Entries
<1>12. ASSUME ActWARNC PROVE WarningsAre(This, [hash[This].warnings EXCEPT ![cur.h[2]] = FALSE])
  BY <1>1, <1>3, <1>12 DEF AddsOne, ActWARNC, WarningsAre, OthersFixed, Fixed, ListFixed, SameList, Entries
<1>13. ASSUME ActMWARN PROVE WarningsAre(This, Append(hash[This].warnings, TRUE))
  BY <1>1, <1>3, <1>13 DEF AddsOne, ActMWARN, WarningsAre, OthersFixed, Fixed, ListFixed, SameList, Entries
<1> QED BY <1>2, <1>5, <1>6, <1>7, <1>8, <1>9, <1>10, <1>11, <1>12, <1>13

\* A symbol becomes indirect, and the one it points to is undefined if it was not known.
LEMMA EffectIND ==
  ASSUME StrongTypes, ActIND
  PROVE  LET target == cur.sym.string
             fresh == hash[target].type = "new" /\ hash[target].warnings = <<>>
         IN /\ cur.on /\ This \in Names /\ target \in Names
            /\ cur.row = "INDR_ROW" /\ cur.h[2] = 0 /\ hash[This].type \in {"new", "undef", "undefw", "defw", "com"}
            /\ \A y \in Names : (y # This /\ ~(fresh /\ y = target)) => Fixed(y)
            /\ hash'[This].type = "indr" /\ hash'[This].link = Lookup(target)
            /\ hash'[This].owner = hash[This].owner /\ hash'[This].value = hash[This].value
            /\ hash'[This].warnings = hash[This].warnings
            /\ (fresh /\ target # This) =>
                 /\ hash'[target].type = "undef" /\ hash'[target].owner = cur.owner
                 /\ hash'[target].value = hash[target].value /\ hash'[target].link = hash[target].link
                 /\ hash'[target].warnings = hash[target].warnings
            /\ fresh => Adds(target)
            /\ ~fresh => ListFixed
            /\ cur' = IF hash[This].type = "new" /\ ~(fresh /\ target = This)
                      THEN NotAdding ELSE [cur EXCEPT !.row = "UNDEF_ROW"]
<1> DEFINE target == cur.sym.string
           fresh == hash[target].type = "new" /\ hash[target].warnings = <<>>
           inh == Lookup(target)
<1>1. hash \in [Names -> Entries] /\ undefs_tail \in Names \cup {"NULL"} /\ "NULL" \notin Names
  BY LinkSymbolsAssumption DEF StrongTypes, TypeOK, Entries
<1>2. /\ cur.on /\ This \in Names /\ target \in Names /\ cur.owner \in Owners /\ cur.h \in Names \X Nat
      /\ cur.row = "INDR_ROW" /\ cur.h[2] = 0 /\ Type(cur.h) = hash[This].type
      /\ hash[This].type \in {"new", "undef", "undefw", "defw", "com"}
  <2>1. cur.on
    BY DEF ActIND, Does
  <2>2. cur.row \in Rows /\ Type(cur.h) \in Types \cup {"warn"}
    BY <2>1, Acting
  <2>3. cur.row = "INDR_ROW" /\ Type(cur.h) \in {"new", "undef", "undefw", "defw", "com"}
    <3>1. link_action[cur.row][Type(cur.h)] \in {"IND", "CIND"}
      BY ActionsDo DEF Does
    <3> QED BY <2>2, <3>1, Table
  <2>4. cur.sym.string \in Names
    BY <2>1, Acting DEF AllSymbols
  <2> QED BY <2>1, <2>3, <2>4, Acting
<1>3. /\ inh = <<target, Len(hash[target].warnings)>> /\ inh \in Pointers
      /\ inh[1] = target
      /\ Type(inh) = "new" <=> fresh
      /\ fresh => (inh = cur.h <=> target = This)
  <2>1. hash[target].warnings \in Seq(BOOLEAN) /\ Len(hash[target].warnings) \in Nat
    BY <1>1, <1>2 DEF Entries
  <2>2. Len(hash[target].warnings) > 0 <=> hash[target].warnings # <<>>
    BY <2>1
  <2>3. inh = <<target, Len(hash[target].warnings)>> /\ inh \in Pointers
    BY <1>2, <2>1 DEF Lookup, Pointers
  <2>4. Type(inh) = "new" <=> fresh
    BY <2>2, <2>3 DEF Type
  <2>5. fresh => (inh = cur.h <=> target = This)
    BY <1>2, <2>1, <2>3 DEF This
  <2> QED BY <2>3, <2>4, <2>5
<1> DEFINE linked == [hash EXCEPT ![This].type = "indr", ![This].link = inh]
           table == [linked EXCEPT ![inh[1]].type = "undef", ![inh[1]].owner = cur.owner]
<1>4. /\ IF fresh THEN AddUndef(IF inh = cur.h THEN linked ELSE table, target)
         ELSE hash' = linked /\ SameList
      /\ PushReference(IF fresh /\ inh = cur.h THEN "undef" ELSE Type(cur.h))
  BY <1>3 DEF ActIND
<1>5. cur' = IF hash[This].type = "new" /\ ~(fresh /\ target = This)
             THEN NotAdding ELSE [cur EXCEPT !.row = "UNDEF_ROW"]
  BY <1>2, <1>3, <1>4 DEF PushReference, Done
<1>6. /\ linked \in [Names -> Entries]
      /\ \A y \in Names : y # This => linked[y] = hash[y]
      /\ linked[This].type = "indr" /\ linked[This].link = inh /\ linked[This].owner = hash[This].owner
      /\ linked[This].value = hash[This].value /\ linked[This].warnings = hash[This].warnings
      /\ linked[This].next = hash[This].next
  <2> HIDE DEF inh
  <2> DEFINE e == hash[This]
             f == [e EXCEPT !.type = "indr", !.link = inh]
  <2>1. e \in Entries
    BY <1>1, <1>2
  <2>2. linked[This] = f /\ (\A y \in Names : y # This => linked[y] = hash[y]) /\ DOMAIN linked = Names
    BY <1>1, <1>2
  <2>3. linked = [y \in Names |-> linked[y]]
    BY <1>1
  <2> HIDE DEF linked, e
  <2>4. /\ f \in Entries /\ f.type = "indr" /\ f.link = inh /\ f.owner = e.owner
        /\ f.value = e.value /\ f.warnings = e.warnings /\ f.next = e.next
    BY <1>3, <2>1 DEF Entries, Types
  <2> HIDE DEF f
  <2>5. \A y \in Names : linked[y] \in Entries
    BY <1>1, <2>2, <2>4
  <2> QED BY <2>2, <2>3, <2>4, <2>5 DEF e
<1>7. /\ table \in [Names -> Entries]
      /\ \A y \in Names : y # target => table[y] = linked[y]
      /\ table[target].type = "undef" /\ table[target].link = linked[target].link
      /\ table[target].owner = cur.owner
      /\ table[target].value = linked[target].value /\ table[target].warnings = linked[target].warnings
      /\ table[target].next = linked[target].next
  <2> HIDE DEF linked, inh
  <2>1. table = [linked EXCEPT ![target].type = "undef", ![target].owner = cur.owner]
    BY <1>3
  <2>2. linked \in [Names -> Entries]
    BY <1>6
  <2> HIDE DEF table
  <2>3. /\ \A y \in Names : y # target => table[y] = linked[y]
        /\ table[target] = [linked[target] EXCEPT !.type = "undef", !.owner = cur.owner]
        /\ DOMAIN table = Names
    BY <1>2, <2>1, <2>2
  <2>4. linked[target] \in Entries
    BY <1>2, <2>2
  <2>5. /\ table[target] \in Entries
        /\ table[target].type = "undef" /\ table[target].link = linked[target].link
        /\ table[target].owner = cur.owner
        /\ table[target].value = linked[target].value /\ table[target].warnings = linked[target].warnings
        /\ table[target].next = linked[target].next
    BY <1>2, <2>3, <2>4 DEF Entries, Types
  <2>6. table = [y \in Names |-> table[y]]
    BY <2>1, <2>2
  <2>7. \A y \in Names : table[y] \in Entries
    BY <2>2, <2>3, <2>5
  <2> QED BY <2>3, <2>5, <2>6, <2>7
<1> HIDE DEF linked, table, inh
<1>8. CASE fresh
  <2> DEFINE used == IF inh = cur.h THEN linked ELSE table
  <2>1. AddUndef(used, target) /\ used \in [Names -> Entries]
    BY <1>4, <1>6, <1>7, <1>8
  <2>2. \A y \in Names : used[y].next = hash[y].next
    BY <1>2, <1>6, <1>7
  <2> HIDE DEF used
  <2>3. /\ \A y \in Names : /\ hash'[y].type = used[y].type /\ hash'[y].owner = used[y].owner
                            /\ hash'[y].value = used[y].value /\ hash'[y].link = used[y].link
                            /\ hash'[y].warnings = used[y].warnings
        /\ Adds(target)
    BY SMTT(30), <1>1, <1>2, <2>1, <2>2 DEF AddUndef, Adds, Entries
  <2>4. CASE target = This
    <3>1. used = linked
      BY <1>3, <1>8, <2>4 DEF used
    <3> QED BY <1>2, <1>5, <1>6, <1>8, <2>3, <2>4, <3>1 DEF Fixed, inh
  <2>5. CASE target # This
    <3>1. used = table
      BY <1>3, <1>8, <2>5 DEF used
    <3> QED BY <1>2, <1>5, <1>6, <1>7, <1>8, <2>3, <2>5, <3>1 DEF Fixed, inh
  <2> QED BY <2>4, <2>5
<1>9. CASE ~fresh
  BY <1>2, <1>4, <1>5, <1>6, <1>9 DEF Fixed, ListFixed, SameList, inh
<1> QED BY <1>8, <1>9

\* The elements of the archives.
LEMMA ElementFacts ==
  ASSUME NEW el \in Elements
  PROVE  /\ Contents(el) \in Seq(AllSymbols) /\ Len(Contents(el)) \in Nat
         /\ el[1] \in DOMAIN Archives /\ el[2] \in DOMAIN Archives[el[1]] /\ el = <<el[1], el[2]>>
         /\ el[1] \in Nat /\ el[2] \in Nat /\ el[1] <= Len(Archives) /\ el[1] > 0
<1>1. Archives \in Seq(Seq(Seq(AllSymbols)))
  BY LinkSymbolsAssumption DEF AllSymbols
<1>2. PICK a \in DOMAIN Archives : \E i \in DOMAIN Archives[a] : el = <<a, i>>
  BY DEF Elements
<1>3. PICK i \in DOMAIN Archives[a] : el = <<a, i>>
  BY <1>2
<1>4. Archives[a] \in Seq(Seq(AllSymbols))
  BY <1>1
<1>5. Archives[a][i] \in Seq(AllSymbols) /\ i \in Nat /\ a \in Nat /\ a <= Len(Archives) /\ a > 0
  BY <1>1, <1>4
<1> QED BY <1>3, <1>5 DEF Contents

\* The common symbols of an element.
LEMMA EffectCommons ==
  ASSUME StrongTypes, NEW el \in Elements, NEW k \in 1..(Len(Contents(el)) + 1), CommonsMade(el, k)
  PROVE  \A n \in Names :
           /\ hash'[n].owner = hash[n].owner /\ hash'[n].link = hash[n].link
           /\ hash'[n].next = hash[n].next /\ hash'[n].warnings = hash[n].warnings
           /\ Commons(el, k, n) = {} => hash'[n] = hash[n] /\ seen'[n] = seen[n]
           /\ Commons(el, k, n) # {} =>
                /\ hash[n].type \in {"undef", "com"} /\ hash'[n].type = "com"
                /\ Max(Commons(el, k, n)) \in Nat
                /\ hash'[n].value = Bigger(IF hash[n].type = "com" THEN hash[n].value ELSE 0,
                                           Max(Commons(el, k, n)))
                /\ seen'[n] = Append(seen[n], [row |-> "COMMON_ROW", value |-> Max(Commons(el, k, n)),
                                               owner |-> hash[n].owner])
<1>1. hash \in [Names -> Entries] /\ seen \in [Names -> Seq(Statements)]
  BY DEF StrongTypes, TypeOK, Entries
<1>2. Contents(el) \in Seq(AllSymbols) /\ Len(Contents(el)) \in Nat
  BY ElementFacts
<1> SUFFICES ASSUME NEW n \in Names PROVE
           /\ hash'[n].owner = hash[n].owner /\ hash'[n].link = hash[n].link
           /\ hash'[n].next = hash[n].next /\ hash'[n].warnings = hash[n].warnings
           /\ Commons(el, k, n) = {} => hash'[n] = hash[n] /\ seen'[n] = seen[n]
           /\ Commons(el, k, n) # {} =>
                /\ hash[n].type \in {"undef", "com"} /\ hash'[n].type = "com"
                /\ Max(Commons(el, k, n)) \in Nat
                /\ hash'[n].value = Bigger(IF hash[n].type = "com" THEN hash[n].value ELSE 0,
                                           Max(Commons(el, k, n)))
                /\ seen'[n] = Append(seen[n], [row |-> "COMMON_ROW", value |-> Max(Commons(el, k, n)),
                                               owner |-> hash[n].owner])
  OBVIOUS
<1>3. ASSUME Commons(el, k, n) # {} PROVE hash[n].type \in {"undef", "com"} /\ Max(Commons(el, k, n)) \in Nat
  <2> DEFINE T == {i \in 1..(k - 1) : /\ Contents(el)[i].row = "COMMON_ROW" /\ LooksAt(Contents(el)[i])
                                      /\ Follow(Contents(el)[i].name) = n}
             f == [i \in 1..(k - 1) |-> Contents(el)[i].value]
  <2>1. Commons(el, k, n) = {Contents(el)[i].value : i \in T}
    BY DEF Commons
  <2>2. PICK i \in T : TRUE
    BY <1>3, <2>1
  <2>3. hash[n].type \in {"undef", "com"}
    BY <2>2 DEF LooksAt, Wanted
  <2>4. \A j \in 1..(k - 1) : j \in 1..Len(Contents(el)) /\ f[j] \in Nat /\ f[j] = Contents(el)[j].value
    <3>1. \A j \in 1..(k - 1) : j \in 1..Len(Contents(el))
      BY <1>2
    <3>2. \A j \in 1..Len(Contents(el)) : Contents(el)[j] \in AllSymbols
      BY <1>2
    <3>3. \A sym \in AllSymbols : sym.value \in Nat
      BY DEF AllSymbols
    <3> QED BY <3>1, <3>2, <3>3
  <2>5. k - 1 \in Nat /\ T \subseteq 1..(k - 1) /\ T # {}
    BY <1>2, <2>2
  <2> HIDE DEF T, f
  <2>6. PICK m \in T : \A j \in T : f[j] <= f[m]
    BY <2>4, <2>5, GreatestAt
  <2>7. Commons(el, k, n) \subseteq Nat
    BY <2>1, <2>4, <2>5
  <2>8. f[m] \in Commons(el, k, n) /\ \A y \in Commons(el, k, n) : y <= f[m]
    BY <2>1, <2>4, <2>5, <2>6
  <2>9. Max(Commons(el, k, n)) = f[m]
    BY <2>7, <2>8, MaxNat
  <2> QED BY <2>3, <2>7, <2>8, <2>9
<1>4. CASE Commons(el, k, n) = {}
  BY <1>4 DEF CommonsMade
<1>5. CASE Commons(el, k, n) # {}
  <2> DEFINE big == Max(Commons(el, k, n))
  <2>1. hash'[n] = [hash[n] EXCEPT !.type = "com",
                                   !.value = Bigger(IF hash[n].type = "com" THEN hash[n].value ELSE 0, big)]
    BY <1>5 DEF CommonsMade
  <2>2. seen'[n] = Append(seen[n], [row |-> "COMMON_ROW", value |-> big, owner |-> hash[n].owner])
    BY <1>5 DEF CommonsMade
  <2>3. hash[n] \in Entries
    BY <1>1
  <2> HIDE DEF big
  <2>4. /\ hash'[n].owner = hash[n].owner /\ hash'[n].link = hash[n].link /\ hash'[n].type = "com"
        /\ hash'[n].next = hash[n].next /\ hash'[n].warnings = hash[n].warnings
        /\ hash'[n].value = Bigger(IF hash[n].type = "com" THEN hash[n].value ELSE 0, big)
    BY <2>1, <2>3 DEF Entries
  <2> QED BY <1>3, <1>5, <2>2, <2>4 DEF big
<1> QED BY <1>4, <1>5

-----------------------------------------------------------------------------
(* Types.                                                                  *)

\* A wrapper whose warning has been issued.
LEMMA Cleared ==
  ASSUME NEW S, NEW w \in Seq(S), NEW k \in Nat, NEW c \in S
  PROVE  LET v == [w EXCEPT ![k] = c]
         IN /\ v \in Seq(S) /\ DOMAIN v = DOMAIN w /\ Len(v) = Len(w)
            /\ \A i \in DOMAIN w : v[i] = IF i = k THEN c ELSE w[i]
<1> DEFINE v == [w EXCEPT ![k] = c]
<1>1. v = [i \in 1..Len(w) |-> IF i = k THEN c ELSE w[i]]
  OBVIOUS
<1> HIDE DEF v
<1>2. v \in Seq(S)
  <2>1. \A i \in 1..Len(w) : v[i] \in S
    BY <1>1
  <2> QED BY <1>1, <2>1
<1>3. DOMAIN v = DOMAIN w /\ \A i \in DOMAIN w : v[i] = IF i = k THEN c ELSE w[i]
  BY <1>1
<1>4. Len(v) = Len(w)
  BY <1>1, <1>2
<1> QED BY <1>2, <1>3, <1>4 DEF v

\* A sequence to which something is appended.
LEMMA Appending ==
  ASSUME NEW S, NEW w \in Seq(S), NEW c \in S
  PROVE  LET v == Append(w, c)
         IN /\ v \in Seq(S) /\ v # <<>> /\ Len(v) = Len(w) + 1 /\ DOMAIN v = 1..(Len(w) + 1)
            /\ DOMAIN w = 1..Len(w) /\ Len(w) \in Nat
            /\ v[Len(w) + 1] = c /\ \A i \in 1..Len(w) : v[i] = w[i] /\ w[i] \in S
            /\ Last(v) = c /\ Front(v) = w
<1> DEFINE v == Append(w, c)
<1>1. /\ v \in Seq(S) /\ v # <<>> /\ Len(v) = Len(w) + 1 /\ DOMAIN v = 1..(Len(w) + 1)
      /\ DOMAIN w = 1..Len(w) /\ Len(w) \in Nat
      /\ v[Len(w) + 1] = c /\ \A i \in 1..Len(w) : v[i] = w[i] /\ w[i] \in S
  OBVIOUS
<1>2. Last(v) = c
  BY <1>1 DEF Last
<1>3. Front(v) = w
  BY <1>1 DEF Front
<1> QED BY <1>1, <1>2, <1>3

\* What was at a place of a sequence before its last member was appended.
LEMMA AppendedAt ==
  ASSUME NEW S, NEW w \in Seq(S), NEW c \in S, NEW i \in DOMAIN Append(w, c)
  PROVE  (i \in DOMAIN w /\ Append(w, c)[i] = w[i]) \/ Append(w, c)[i] = c
OBVIOUS

HashOK == hash \in [Names -> Entries] /\ {undefs, undefs_tail} \subseteq Names \cup {"NULL"}

\* The entries keep their types.
LEMMA HashStep ==
  ASSUME StrongTypes, SearchOnList, HasList, Next
  PROVE  HashOK'
<1>1. hash \in [Names -> Entries] /\ {undefs, undefs_tail} \subseteq Names \cup {"NULL"} /\ "NULL" \notin Names
  BY LinkSymbolsAssumption DEF StrongTypes, TypeOK, Entries
<1>2. ASSUME NEW n \in Names, NEW table \in [Names -> Entries], AddUndef(table, n) PROVE HashOK'
  BY <1>1, <1>2 DEF AddUndef, HashOK, Entries
<1>3. ASSUME cur.on PROVE This \in Names /\ cur.owner \in Owners /\ cur.sym.value \in Nat /\ cur.h[2] \in Nat
  BY <1>3, Acting DEF AllSymbols
<1>4. {"undef", "undefw", "def", "defw", "com", "indr"} \subseteq Types
  BY DEF Types
<1>5. ASSUME UNCHANGED <<hash, undefs, undefs_tail>> PROVE HashOK'
  BY <1>1, <1>5 DEF HashOK
<1>0. ASSUME hash' = [y \in Names |-> hash'[y]], \A y \in Names : hash'[y] \in Entries,
             UNCHANGED <<undefs, undefs_tail>>
      PROVE  HashOK'
  <2>1. hash' \in [Names -> Entries] /\ Entries' = Entries
    BY <1>0 DEF Entries, Owners, Elements, Types, Pointers
  <2> QED BY <1>0, <1>1, <2>1 DEF HashOK
<1>6. ASSUME ActUND PROVE HashOK'
  <2>1. cur.on /\ AddUndef([hash EXCEPT ![This].type = "undef", ![This].owner = cur.owner], This)
    BY <1>6 DEF ActUND, Does
  <2>2. [hash EXCEPT ![This].type = "undef", ![This].owner = cur.owner] \in [Names -> Entries]
    BY <1>1, <1>3, <1>4, <2>1 DEF Entries
  <2> QED BY <1>2, <1>3, <2>1, <2>2
<1>7. ASSUME ActWEAK PROVE HashOK'
  <2>1. cur.on
    BY <1>7 DEF ActWEAK, Does
  <2> QED BY <1>1, <1>3, <1>4, <1>7, <2>1 DEF ActWEAK, HashOK, Entries, SameList
<1>8. ASSUME ActDEF PROVE HashOK'
  <2>1. cur.on
    BY <1>8 DEF ActDEF, Does
  <2>2. PICK type \in {"def", "defw"} :
          hash' = [hash EXCEPT ![This].type = type, ![This].owner = cur.owner, ![This].value = cur.sym.value]
    BY <1>8 DEF ActDEF
  <2>3. SameList
    BY <1>8 DEF ActDEF
  <2> DEFINE e == hash[This]
             f == [e EXCEPT !.type = type, !.owner = cur.owner, !.value = cur.sym.value]
  <2>4. e \in Entries /\ This \in Names
    BY <1>1, <1>3, <2>1
  <2>5. hash'[This] = f /\ \A y \in Names : y # This => hash'[y] = hash[y]
    BY <1>1, <2>2, <2>4
  <2>6. hash' = [y \in Names |-> hash'[y]]
    BY <1>1, <2>2
  <2> HIDE DEF e
  <2>7. f \in Entries
    BY <1>3, <1>4, <2>1, <2>4 DEF Entries
  <2> HIDE DEF f
  <2>8. \A y \in Names : hash'[y] \in Entries
    BY <1>1, <2>5, <2>7
  <2> QED BY <1>0, <1>1, <2>3, <2>6, <2>8 DEF SameList
<1>9. ASSUME ActCOM PROVE HashOK'
  <2> DEFINE table == [hash EXCEPT ![This].type = "com", ![This].owner = cur.owner,
                                   ![This].value = cur.sym.value]
  <2>1. cur.on /\ (AddUndef(table, This) \/ (hash' = table /\ SameList))
    BY <1>9 DEF ActCOM, Does
  <2>2. table \in [Names -> Entries]
    BY <1>1, <1>3, <1>4, <2>1 DEF Entries
  <2> HIDE DEF table
  <2> QED BY <1>1, <1>2, <1>3, <2>1, <2>2 DEF HashOK, SameList
<1>10. ASSUME ActREF \/ ActREFC PROVE HashOK'
  <2>1. cur.on
    BY <1>10 DEF ActREF, ActREFC, Does
  <2>2. hash' = Marked(This) /\ SameList
    BY <1>10 DEF ActREF, ActREFC
  <2>3. hash' = IF Referenced(This) THEN [hash EXCEPT ![This].next = hash[This].next]
                ELSE [hash EXCEPT ![This].next = This]
    BY <2>2 DEF Marked
  <2>4. hash[This].next \in Names \cup {"NULL"}
    BY <1>1, <1>3, <2>1 DEF Entries
  <2> QED BY SMTT(30), <1>1, <1>3, <2>1, <2>2, <2>3, <2>4 DEF HashOK, Entries, SameList
<1>11. ASSUME ActBIG PROVE HashOK'
  <2>1. cur.on
    BY <1>11 DEF ActBIG, Does
  <2>2. Bigger(hash[This].value, cur.sym.value) \in Nat
    BY <1>1, <1>3, <2>1 DEF Entries, Bigger
  <2> HIDE DEF Bigger
  <2> QED BY <1>1, <1>3, <1>11, <2>1, <2>2 DEF ActBIG, HashOK, Entries, SameList
<1>12. ASSUME ActIND PROVE HashOK'
  <2> DEFINE inh == Lookup(cur.sym.string)
             linked == [hash EXCEPT ![This].type = "indr", ![This].link = inh]
             table == [linked EXCEPT ![inh[1]].type = "undef", ![inh[1]].owner = cur.owner]
  <2>1. /\ cur.on
        /\ \/ AddUndef(IF inh = cur.h THEN linked ELSE table, inh[1])
           \/ hash' = linked /\ SameList
    BY <1>12 DEF ActIND, Does
  <2>2. cur.sym.string \in Names
    BY <2>1, Acting DEF AllSymbols
  <2>3. inh[1] \in Names /\ inh \in Pointers
    BY <1>1, <2>2 DEF Lookup, Pointers, Entries
  <2> HIDE DEF inh
  <2>4. linked \in [Names -> Entries]
    <3> DEFINE e == hash[This]
               f == [e EXCEPT !.type = "indr", !.link = inh]
    <3>1. e \in Entries /\ This \in Names
      BY <1>1, <1>3, <2>1
    <3>2. linked[This] = f /\ \A y \in Names : y # This => linked[y] = hash[y]
      BY <1>1, <3>1
    <3>3. linked = [y \in Names |-> linked[y]]
      BY <1>1
    <3> HIDE DEF linked, e
    <3>4. f \in Entries
      BY <1>4, <2>3, <3>1 DEF Entries
    <3> HIDE DEF f
    <3>5. \A y \in Names : linked[y] \in Entries
      BY <1>1, <3>2, <3>4
    <3> QED BY <3>3, <3>5
  <2> HIDE DEF linked
  <2>5. table \in [Names -> Entries]
    <3> DEFINE n == inh[1]
               e == linked[n]
               f == [e EXCEPT !.type = "undef", !.owner = cur.owner]
    <3>1. e \in Entries /\ n \in Names
      BY <2>3, <2>4
    <3>2. table[n] = f /\ \A y \in Names : y # n => table[y] = linked[y]
      BY <2>4, <3>1
    <3>3. table = [y \in Names |-> table[y]]
      BY <2>4
    <3> HIDE DEF table, n, e
    <3>4. f \in Entries
      BY <1>3, <1>4, <2>1, <3>1 DEF Entries
    <3> HIDE DEF f
    <3>5. \A y \in Names : table[y] \in Entries
      BY <2>4, <3>2, <3>4
    <3> QED BY <3>3, <3>5
  <2> HIDE DEF table
  <2> QED BY <1>1, <1>2, <2>1, <2>3, <2>4, <2>5 DEF HashOK, SameList
<1>13. ASSUME ActSET PROVE HashOK'
  <2>1. cur.on
    BY <1>13 DEF ActSET, Does
  <2>2. SameList /\ (UNCHANGED hash \/ hash' = [hash EXCEPT ![This].type = "undef", ![This].owner = cur.owner])
    BY <1>13 DEF ActSET
  <2>3. CASE UNCHANGED hash
    BY <1>5, <2>2, <2>3 DEF SameList
  <2>4. CASE hash' = [hash EXCEPT ![This].type = "undef", ![This].owner = cur.owner]
    <3> DEFINE e == hash[This]
               f == [e EXCEPT !.type = "undef", !.owner = cur.owner]
    <3>1. e \in Entries /\ This \in Names
      BY <1>1, <1>3, <2>1
    <3>2. hash'[This] = f /\ \A y \in Names : y # This => hash'[y] = hash[y]
      BY <1>1, <2>4, <3>1
    <3>3. hash' = [y \in Names |-> hash'[y]]
      BY <1>1, <2>4
    <3> HIDE DEF e
    <3>4. f \in Entries
      BY <1>3, <1>4, <2>1, <3>1 DEF Entries
    <3> HIDE DEF f
    <3>5. \A y \in Names : hash'[y] \in Entries
      BY <1>1, <3>2, <3>4
    <3> QED BY <1>0, <1>1, <2>2, <3>3, <3>5 DEF SameList
  <2> QED BY <2>2, <2>3, <2>4
<1>14. ASSUME ActWARNC PROVE HashOK'
  <2>1. cur.on
    BY <1>14 DEF ActWARNC, Does
  <2>2. [hash[This].warnings EXCEPT ![cur.h[2]] = FALSE] \in Seq(BOOLEAN)
    <3> DEFINE w == hash[This].warnings
    <3>1. w \in Seq(BOOLEAN)
      BY <1>1, <1>3, <2>1 DEF Entries
    <3> HIDE DEF w
    <3>2. [w EXCEPT ![cur.h[2]] = FALSE] \in Seq(BOOLEAN)
      BY <1>3, <2>1, <3>1, Cleared
    <3> QED BY <3>2 DEF w
  <2> QED BY <1>1, <1>3, <1>14, <2>1, <2>2 DEF ActWARNC, HashOK, Entries, SameList
<1>15. ASSUME ActMWARN PROVE HashOK'
  <2>1. cur.on
    BY <1>15, <1>3 DEF ActMWARN, Does, Warns
  <2>2. Append(hash[This].warnings, TRUE) \in Seq(BOOLEAN)
    BY <1>1, <1>3, <2>1 DEF Entries
  <2> QED BY <1>1, <1>3, <1>15, <2>1, <2>2 DEF ActMWARN, HashOK, Entries, SameList
<1>16. ASSUME SearchSkips PROVE HashOK'
  <2>1. At # "NULL" /\ OnList(At) /\ At \in Names
    BY <1>16, ListFacts DEF SearchSkips
  <2>2. Forgets => hash[At].next \in Names
    BY <2>1, ListFacts DEF Forgets
  <2>3. search.pundef # "HEAD" => search.pundef \in Names
    BY ListFacts DEF SearchOnList
  <2> QED BY <1>1, <1>16, <2>1, <2>2, <2>3 DEF SearchSkips, HashOK, Entries
<1>17. ASSUME SearchLooksAtElement PROVE HashOK'
  <2>1. UNCHANGED <<undefs, undefs_tail>>
    BY <1>17 DEF SearchLooksAtElement
  <2>2. CASE UNCHANGED hash
    BY <1>5, <2>1, <2>2
  <2>3. ASSUME NEW el \in Elements, NEW k \in 1..(Len(Contents(el)) + 1), CommonsMade(el, k) PROVE HashOK'
    <3>1. ASSUME NEW n \in Names
          PROVE  (IF Commons(el, k, n) = {} THEN hash[n]
                  ELSE [hash[n] EXCEPT
                          !.type = "com",
                          !.value = Bigger(IF hash[n].type = "com" THEN @ ELSE 0, Max(Commons(el, k, n)))])
                 \in Entries
      <4>1. CASE Commons(el, k, n) = {}
        BY <1>1, <4>1
      <4>2. CASE Commons(el, k, n) # {}
        <5>1. Max(Commons(el, k, n)) \in Nat
          BY <2>3, <4>2, EffectCommons
        <5>2. hash[n] \in Entries /\ hash[n].value \in Nat
          BY <1>1 DEF Entries
        <5>3. Bigger(IF hash[n].type = "com" THEN hash[n].value ELSE 0, Max(Commons(el, k, n))) \in Nat
          BY <5>1, <5>2 DEF Bigger
        <5> HIDE DEF Bigger
        <5> QED BY <1>4, <4>2, <5>2, <5>3 DEF Entries
      <4> QED BY <4>1, <4>2
    <3> QED BY <1>1, <2>1, <2>3, <3>1 DEF CommonsMade, HashOK
  <2>4. hash' = hash \/ \E el \in Elements : \E k \in 1..(Len(Contents(el)) + 1) : CommonsMade(el, k)
    <3>1. Candidates \subseteq DOMAIN Archives[search.archive] /\ Candidates # {}
      BY <1>17 DEF SearchLooksAtElement, Candidates, Defs
    <3>2. search.archive \in DOMAIN Archives
      BY <1>17, LinkSymbolsAssumption DEF SearchLooksAtElement, Searching, StrongTypes, TypeOK
    <3>3. Archives[search.archive] \in Seq(Seq(AllSymbols))
      BY <3>2, LinkSymbolsAssumption DEF AllSymbols
    <3>4. Candidates \subseteq Nat
      BY <3>1, <3>3
    <3>5. Min(Candidates) \in DOMAIN Archives[search.archive]
      BY <3>1, <3>4, MinNat
    <3>6. <<search.archive, Min(Candidates)>> \in Elements
      BY <3>2, <3>5 DEF Elements
    <3> QED BY <1>17, <3>6 DEF SearchLooksAtElement
  <2> QED BY <2>2, <2>3, <2>4, <2>1
<1>18. ASSUME AddsOne PROVE HashOK'
  BY <1>5, <1>6, <1>7, <1>8, <1>9, <1>10, <1>11, <1>12, <1>13, <1>14, <1>15, <1>18, Effects DEF AddsOne
<1>19. ASSUME AddObject \/ SearchBegins \/ AddOneSymbol \/ SearchGoesOn \/ SearchEnds PROVE HashOK'
  <2>1. UNCHANGED <<hash, undefs, undefs_tail>>
    BY <1>19 DEF AddObject, SearchBegins, AddOneSymbol, SearchGoesOn, SearchEnds
  <2> QED BY <1>5, <2>1
<1> QED BY <1>16, <1>17, <1>18, <1>19 DEF Next, Searches

\* What no step does to an entry: it is not forgotten, weakened or redirected, nor unwrapped.
Kept(x) ==
  /\ Len(hash'[x].warnings) >= Len(hash[x].warnings)
  /\ hash[x].warnings # <<>> => hash'[x].warnings # <<>>
  /\ hash[x].type # "new" => hash'[x].type # "new"
  /\ hash[x].type \notin {"new", "undefw"} => hash'[x].type \notin {"new", "undefw"}
  /\ hash[x].type = "indr" => hash'[x].type = "indr"
  /\ hash[x].type = "indr" => hash'[x].link = hash[x].link
  /\ (hash'[x].type # "indr" \/ ~ActIND) => hash'[x].link = hash[x].link
  /\ (hash'[x].type = "indr" /\ hash[x].type # "indr") =>
       /\ ActIND /\ x = This
       /\ hash'[x].link = Lookup(cur.sym.string) /\ cur.sym.string \in Names
  /\ hash'[x].type = "undef" => hash[x].type \in {"undef", "new", "undefw"}
  /\ hash'[x].type = "com" => hash[x].type \in {"com", "undef", "new", "undefw"}
  /\ (hash'[x].type = "undefw" /\ hash[x].type # "undefw") => ActWEAK /\ x = This

\* How a search looks at an element.
LEMMA LooksFacts ==
  ASSUME StrongTypes, SearchLooksAtElement
  PROVE  LET i == Min(Candidates)
             el == <<search.archive, i>>
         IN /\ search.on /\ Idle /\ At # "NULL" /\ hash[At].type \in {"undef", "com"}
            /\ el \in Elements /\ search.archive \in DOMAIN Archives
            /\ i \in Defs(search.archive, At) /\ i >= search.l /\ i \in Nat
            /\ \A j \in Defs(search.archive, At) : j >= search.l => i <= j
            /\ \/ /\ element_pass[el] \in {-1, search.pass}
                  /\ search' = [search EXCEPT !.l = i + 1]
                  /\ UNCHANGED <<hash, seen, queue, element_pass>>
               \/ /\ element_pass[el] \notin {-1, search.pass} /\ el \in Foreign
                  /\ element_pass' = [element_pass EXCEPT ![el] = -1]
                  /\ search' = [search EXCEPT !.l = i + 1]
                  /\ UNCHANGED <<hash, seen, queue>>
               \/ /\ element_pass[el] \notin {-1, search.pass} /\ el \notin Foreign
                  /\ \E k \in 1..(Len(Contents(el)) + 1) :
                       /\ Decides(el, k) /\ CommonsMade(el, k)
                       /\ \/ /\ k <= Len(Contents(el)) /\ Includes(el, k)
                             /\ search' = [search EXCEPT !.l = i + 1, !.pass = Rechecks]
                          \/ /\ k > Len(Contents(el)) /\ LeavesOut(el)
                             /\ search' = [search EXCEPT !.l = i + 1]
            /\ UNCHANGED <<undefs, undefs_tail, cur, archive_pass, reports, left>>
<1>1. Candidates \subseteq DOMAIN Archives[search.archive] /\ Candidates # {}
  BY DEF SearchLooksAtElement, Candidates, Defs
<1>2. search.archive \in DOMAIN Archives
  BY LinkSymbolsAssumption DEF SearchLooksAtElement, Searching, StrongTypes, TypeOK
<1>3. Archives[search.archive] \in Seq(Seq(AllSymbols))
  BY <1>2, LinkSymbolsAssumption DEF AllSymbols
<1>4. Candidates \subseteq Nat
  BY <1>1, <1>3
<1>5. Min(Candidates) \in Candidates /\ \A j \in Candidates : Min(Candidates) <= j
  BY <1>1, <1>4, MinNat
<1>6. <<search.archive, Min(Candidates)>> \in Elements
  BY <1>1, <1>2, <1>5 DEF Elements
<1>7. /\ Min(Candidates) \in Defs(search.archive, At) /\ Min(Candidates) >= search.l
      /\ Min(Candidates) \in Nat
      /\ \A j \in Defs(search.archive, At) : j >= search.l => Min(Candidates) <= j
  BY <1>4, <1>5 DEF Candidates
<1> QED BY <1>2, <1>6, <1>7 DEF SearchLooksAtElement, Searching, Wanted

\* Every step keeps the entries so.
LEMMA EntriesKept ==
  ASSUME StrongTypes, SearchOnList, HasList, Next
  PROVE  \A x \in Names : Kept(x)
<1>1. hash \in [Names -> Entries]
  BY DEF StrongTypes, TypeOK, Entries
<1>2. ASSUME NEW x \in Names PROVE Len(hash[x].warnings) \in Nat /\ hash[x].warnings \in Seq(BOOLEAN)
  BY <1>1 DEF Entries
<1>3. ASSUME \A x \in Names : Fixed(x) PROVE \A x \in Names : Kept(x)
  BY <1>2, <1>3 DEF Kept, Fixed
<1>4. ASSUME NEW n \in Names, NEW type, NEW owner, NEW value, Becomes(n, type, owner, value),
             \/ type \in {"undef"} /\ hash[n].type \in {"new", "undefw"}
             \/ type = "undefw" /\ hash[n].type = "new" /\ ActWEAK /\ n = This
             \/ type \in {"def", "defw"} /\ hash[n].type \in {"new", "undef", "undefw", "defw", "com"}
             \/ type = "com" /\ hash[n].type \in {"new", "undef", "undefw", "com"}
      PROVE  \A x \in Names : Kept(x)
  <2> TAKE x \in Names
  <2>1. CASE x # n
    BY <1>2, <1>4, <2>1 DEF Kept, Becomes, OthersFixed, Fixed
  <2>2. CASE x = n
    BY <1>2, <1>4, <2>2 DEF Kept, Becomes
  <2> QED BY <2>1, <2>2
<1>5. ASSUME cur.on
      PROVE  /\ This \in Names /\ cur.row \in Rows /\ Type(cur.h) \in Types \cup {"warn"}
             /\ Type(cur.h) # "warn" => Type(cur.h) = hash[This].type
  BY <1>5, Acting
<1>6. ASSUME ActUND PROVE \A x \in Names : Kept(x)
  <2>1. cur.on
    BY <1>6 DEF ActUND, Does
  <2>2. hash[This].type \in {"new", "undefw"}
    BY <1>5, <1>6, <2>1, Table DEF ActUND, Does
  <2> QED BY <1>4, <1>5, <1>6, <2>1, <2>2, Effects
<1>7. ASSUME ActWEAK PROVE \A x \in Names : Kept(x)
  <2>1. cur.on
    BY <1>7 DEF ActWEAK, Does
  <2>2. hash[This].type = "new"
    BY <1>5, <1>7, <2>1, Table DEF ActWEAK, Does
  <2> QED BY <1>4, <1>5, <1>7, <2>1, <2>2, Effects
<1>8. ASSUME ActDEF PROVE \A x \in Names : Kept(x)
  <2>1. cur.on
    BY <1>8 DEF ActDEF, Does
  <2>2. hash[This].type \in {"new", "undef", "undefw", "defw", "com"}
    BY <1>5, <1>8, <2>1, Table DEF ActDEF, Does
  <2>3. (IF Does("DEFW") THEN "defw" ELSE "def") \in {"def", "defw"}
    OBVIOUS
  <2> QED BY <1>4, <1>5, <1>8, <2>1, <2>2, <2>3, Effects
<1>9. ASSUME ActCOM PROVE \A x \in Names : Kept(x)
  <2>1. cur.on
    BY <1>9 DEF ActCOM, Does
  <2>2. hash[This].type \in {"new", "undef", "undefw"}
    BY <1>5, <1>9, <2>1, Table DEF ActCOM, Does
  <2> QED BY <1>4, <1>5, <1>9, <2>1, <2>2, Effects
<1>10. ASSUME ActREF \/ ActREFC PROVE \A x \in Names : Kept(x)
  BY <1>3, <1>10, Effects DEF Marks
<1>11. ASSUME ActBIG PROVE \A x \in Names : Kept(x)
  <2>1. cur.on
    BY <1>11 DEF ActBIG, Does
  <2>2. hash[This].type = "com"
    BY <1>5, <1>11, <2>1, Table DEF ActBIG, Does
  <2> HIDE DEF Bigger
  <2> QED BY <1>4, <1>5, <1>11, <2>1, <2>2, Effects
<1>12. ASSUME ActIND PROVE \A x \in Names : Kept(x)
  <2> DEFINE target == cur.sym.string
             fresh == hash[target].type = "new" /\ hash[target].warnings = <<>>
  <2>1. /\ This \in Names /\ target \in Names
        /\ hash[This].type \in {"new", "undef", "undefw", "defw", "com"}
        /\ \A y \in Names : (y # This /\ ~(fresh /\ y = target)) => Fixed(y)
        /\ hash'[This].type = "indr" /\ hash'[This].link = Lookup(target)
        /\ hash'[This].warnings = hash[This].warnings
        /\ (fresh /\ target # This) =>
             /\ hash'[target].type = "undef" /\ hash'[target].link = hash[target].link
             /\ hash'[target].warnings = hash[target].warnings
    BY <1>12, EffectIND
  <2> TAKE x \in Names
  <2>2. CASE x = This
    BY <1>2, <1>12, <2>1, <2>2 DEF Kept
  <2>3. CASE x # This /\ fresh /\ x = target
    BY <1>2, <1>12, <2>1, <2>3 DEF Kept
  <2>4. CASE x # This /\ ~(fresh /\ x = target)
    <3>1. Fixed(x)
      BY <2>1, <2>4
    <3> QED BY <1>2, <3>1 DEF Kept, Fixed
  <2> QED BY <2>2, <2>3, <2>4
<1>13. ASSUME ActSET PROVE \A x \in Names : Kept(x)
  <2>1. cur.on
    BY <1>13 DEF ActSET, Does
  <2>2. CASE build_constructors /\ Type(cur.h) = "new"
    BY <1>4, <1>5, <1>13, <2>1, <2>2, Effects
  <2>3. CASE ~(build_constructors /\ Type(cur.h) = "new")
    BY <1>3, <1>13, <2>3, Effects DEF Fixed
  <2> QED BY <2>2, <2>3
<1>14. ASSUME NEW n \in Names, NEW w, WarningsAre(n, w), Len(w) >= Len(hash[n].warnings),
              hash[n].warnings # <<>> => w # <<>>
       PROVE  \A x \in Names : Kept(x)
  <2> TAKE x \in Names
  <2>1. CASE x # n
    BY <1>2, <1>14, <2>1 DEF Kept, WarningsAre, OthersFixed, Fixed
  <2>2. CASE x = n
    BY <1>2, <1>14, <2>2 DEF Kept, WarningsAre
  <2> QED BY <2>1, <2>2
<1>15. ASSUME ActWARNC PROVE \A x \in Names : Kept(x)
  <2>1. cur.on
    BY <1>15 DEF ActWARNC, Does
  <2> DEFINE w == hash[This].warnings
             v == [w EXCEPT ![cur.h[2]] = FALSE]
  <2>2. This \in Names /\ w \in Seq(BOOLEAN) /\ cur.h[2] \in Nat
    BY <1>2, <2>1, Acting
  <2>3. WarningsAre(This, v)
    BY <1>15, Effects
  <2> HIDE DEF w
  <2>4. v \in Seq(BOOLEAN) /\ Len(v) = Len(w)
    BY <2>2, Cleared
  <2> HIDE DEF v
  <2>5. Len(v) >= Len(w) /\ (w # <<>> => v # <<>>)
    BY <2>2, <2>4
  <2> QED BY <1>14, <2>2, <2>3, <2>5 DEF w
<1>16. ASSUME ActMWARN PROVE \A x \in Names : Kept(x)
  <2>1. cur.on
    BY <1>16 DEF ActMWARN, Does
  <2> DEFINE w == hash[This].warnings
             v == Append(w, TRUE)
  <2>2. This \in Names /\ w \in Seq(BOOLEAN)
    BY <1>2, <2>1, Acting
  <2>3. WarningsAre(This, v)
    BY <1>16, Effects
  <2> HIDE DEF w
  <2>4. Len(v) = Len(w) + 1 /\ v # <<>> /\ Len(w) \in Nat
    <3>1. \A S : \A u \in Seq(S) : \A c \in S :
            Len(Append(u, c)) = Len(u) + 1 /\ Append(u, c) # <<>> /\ Len(u) \in Nat
      BY Appending
    <3>2. TRUE \in BOOLEAN
      OBVIOUS
    <3> QED BY ONLY <2>2, <3>1, <3>2, Zenon
  <2> HIDE DEF v
  <2> QED BY <1>14, <2>2, <2>3, <2>4 DEF w
<1>17. ASSUME SearchSkips PROVE \A x \in Names : Kept(x)
  <2>1. \A x \in Names : Fixed(x)
    BY <1>1, <1>17 DEF SearchSkips, Fixed, Entries
  <2> QED BY <1>3, <2>1
<1>18. ASSUME SearchLooksAtElement PROVE \A x \in Names : Kept(x)
  <2>1. CASE hash' = hash
    BY <1>3, <2>1 DEF Fixed
  <2>2. ASSUME NEW el \in Elements, NEW k \in 1..(Len(Contents(el)) + 1), CommonsMade(el, k)
        PROVE  \A x \in Names : Kept(x)
    <3> TAKE x \in Names
    <3>1. /\ hash'[x].link = hash[x].link /\ hash'[x].warnings = hash[x].warnings
          /\ Commons(el, k, x) = {} => hash'[x] = hash[x]
          /\ Commons(el, k, x) # {} => hash[x].type \in {"undef", "com"} /\ hash'[x].type = "com"
      BY <2>2, EffectCommons
    <3> QED BY <1>2, <3>1 DEF Kept
  <2> QED BY <1>18, <2>1, <2>2, LooksFacts
<1>19. ASSUME AddsOne PROVE \A x \in Names : Kept(x)
  <2>1. UNCHANGED hash => \A x \in Names : Kept(x)
    BY <1>3 DEF Fixed
  <2> QED BY <2>1, <1>6, <1>7, <1>8, <1>9, <1>10, <1>11, <1>12, <1>13, <1>15, <1>16, <1>19, Effects DEF AddsOne
<1>20. ASSUME AddObject \/ SearchBegins \/ AddOneSymbol \/ SearchGoesOn \/ SearchEnds
       PROVE  \A x \in Names : Kept(x)
  <2>1. UNCHANGED hash
    BY <1>20 DEF AddObject, SearchBegins, AddOneSymbol, SearchGoesOn, SearchEnds
  <2> QED BY <1>3, <2>1 DEF Fixed
<1> QED BY <1>17, <1>18, <1>19, <1>20 DEF Next, Searches

\* What StrongTypes says of links, of the symbol being added, and of the rest.
LinksOK ==
  \A x \in Names :
    IF hash[x].type = "indr"
    THEN hash[x].link \in Names \X Nat /\ hash[x].link[2] <= Len(hash[hash[x].link[1]].warnings)
    ELSE hash[x].link = <<"NULL", 0>>
AddingOK == cur = NotAdding \/ (cur \in Additions /\ cur.h[2] <= Len(hash[cur.h[1]].warnings))
QueueOK ==
  queue \in [syms : Seq(Symbols \cup UNION {ToSet(Contents(el)) : el \in Elements}), owner : Owners]
SearchTypes ==
  [on : BOOLEAN, group : BOOLEAN, archive : 0..Len(Archives), pass : Nat,
   pundef : Names \cup {"HEAD"}, l : Nat \ {0}, undefs : Names \cup {"NULL"}]
PassesOK ==
  /\ search \in SearchTypes
  /\ element_pass \in [Elements -> Int]
  /\ archive_pass \in [DOMAIN Archives -> Nat]
  /\ \A el \in Elements :
       element_pass[el] \in -1..(IF search.on /\ search.archive = el[1] THEN search.pass
                                 ELSE archive_pass[el[1]])
  /\ left.objects \in 0..MaxObjects /\ left.searches \in 0..MaxSearches
  /\ search.on => search.archive # 0

\* Symbols of files.
LEMMA FileSymbols ==
  Symbols \cup UNION {ToSet(Contents(el)) : el \in Elements} \subseteq AllSymbols
<1>1. Symbols \subseteq AllSymbols
  BY LinkSymbolsAssumption DEF AllSymbols
<1>2. ASSUME NEW el \in Elements PROVE ToSet(Contents(el)) \subseteq AllSymbols
  BY ElementFacts DEF ToSet
<1> QED BY <1>1, <1>2

\* Links point to entries and wrappers that exist.
LEMMA LinksStep ==
  ASSUME StrongTypes, SearchOnList, HasList, Next
  PROVE  LinksOK'
<1>1. hash \in [Names -> Entries] /\ hash' \in [Names -> Entries]
  BY HashStep DEF HashOK, StrongTypes, TypeOK, Entries
<1>2. \A x \in Names : Kept(x)
  BY EntriesKept
<1>3. ASSUME NEW x \in Names PROVE Len(hash[x].warnings) \in Nat /\ Len(hash'[x].warnings) \in Nat
  BY <1>1 DEF Entries
<1>4. LinksOK
  BY DEF StrongTypes, LinksOK
<1> SUFFICES ASSUME NEW x \in Names
             PROVE IF hash'[x].type = "indr"
                   THEN /\ hash'[x].link \in Names \X Nat
                        /\ hash'[x].link[2] <= Len(hash'[hash'[x].link[1]].warnings)
                   ELSE hash'[x].link = <<"NULL", 0>>
  BY DEF LinksOK
<1>5. CASE hash'[x].type # "indr"
  BY <1>2, <1>4, <1>5 DEF Kept, LinksOK
<1>6. CASE hash[x].type = "indr"
  <2>1. hash'[x].type = "indr" /\ hash'[x].link = hash[x].link
    BY <1>2, <1>6 DEF Kept
  <2>2. hash[x].link \in Names \X Nat /\ hash[x].link[2] <= Len(hash[hash[x].link[1]].warnings)
    BY <1>4, <1>6 DEF LinksOK
  <2> DEFINE y == hash[x].link[1]
  <2>3. y \in Names /\ Len(hash'[y].warnings) >= Len(hash[y].warnings)
    BY <1>2, <2>2 DEF Kept
  <2> QED BY SMTT(30), <1>3, <2>1, <2>2, <2>3
<1>7. CASE hash'[x].type = "indr" /\ hash[x].type # "indr"
  <2>1. hash'[x].link = Lookup(cur.sym.string) /\ cur.sym.string \in Names
    BY <1>2, <1>7 DEF Kept
  <2> DEFINE y == cur.sym.string
  <2>2. Len(hash'[y].warnings) >= Len(hash[y].warnings)
    BY <1>2, <2>1 DEF Kept
  <2>3. hash'[x].link = <<y, Len(hash[y].warnings)>>
    BY <2>1 DEF Lookup
  <2> QED BY <1>3, <1>7, <2>1, <2>2, <2>3
<1> QED BY <1>5, <1>6, <1>7

\* Where an addition goes to from an indirect symbol or a wrapper.
LEMMA Linked ==
  ASSUME StrongTypes, cur.on, Type(cur.h) \in {"indr", "warn"}
  PROVE  LET h == LinkOf(cur.h)
         IN /\ h \in Names \X Nat /\ h[2] <= Len(hash[h[1]].warnings)
            /\ Type(cur.h) = "warn" => h = <<This, cur.h[2] - 1>>
            /\ Type(cur.h) = "indr" => hash[This].type = "indr" /\ h = hash[This].link
<1>1. /\ This \in Names /\ cur.h \in Names \X Nat /\ cur.h[2] \in Nat
      /\ cur.h[2] <= Len(hash[This].warnings)
      /\ Type(cur.h) = "warn" => cur.h[2] > 0
      /\ Type(cur.h) # "warn" => cur.h[2] = 0 /\ Type(cur.h) = hash[This].type
  BY Acting
<1>2. Len(hash[This].warnings) \in Nat
  BY <1>1 DEF StrongTypes, TypeOK
<1>3. CASE Type(cur.h) = "warn"
  <2>1. LinkOf(cur.h) = <<This, cur.h[2] - 1>>
    BY <1>1, <1>3 DEF LinkOf, This
  <2> QED BY <1>1, <1>2, <1>3, <2>1
<1>4. CASE Type(cur.h) = "indr"
  <2>1. LinkOf(cur.h) = hash[This].link /\ hash[This].type = "indr"
    BY <1>1, <1>4 DEF LinkOf, This
  <2>2. hash[This].link \in Names \X Nat /\ hash[This].link[2] <= Len(hash[hash[This].link[1]].warnings)
    BY <1>1, <2>1 DEF StrongTypes
  <2> QED BY <1>4, <2>1, <2>2
<1> QED BY <1>3, <1>4

\* The pointer of an addition does so, too.
LEMMA AddingStep ==
  ASSUME StrongTypes, SearchOnList, HasList, Next
  PROVE  AddingOK'
<1>1. hash \in [Names -> Entries] /\ hash' \in [Names -> Entries]
  BY HashStep DEF HashOK, StrongTypes, TypeOK, Entries
<1>2. ASSUME NEW x \in Names PROVE Len(hash'[x].warnings) \in Nat /\ Len(hash[x].warnings) \in Nat
                                   /\ Len(hash'[x].warnings) >= Len(hash[x].warnings)
  BY <1>1, EntriesKept DEF Entries, Kept
<1>3. AddingOK
  BY DEF StrongTypes, AddingOK
<1>4. ASSUME UNCHANGED cur PROVE AddingOK'
  <2>1. cur \in Additions => cur.h[1] \in Names /\ cur.h[2] \in Nat
    BY DEF Additions
  <2> QED BY <1>2, <1>3, <1>4, <2>1 DEF AddingOK
<1>5. ASSUME Done PROVE AddingOK'
  BY <1>5 DEF Done, AddingOK
<1>6. ASSUME cur.on, Type(cur.h) \in {"indr", "warn"}, Cycle(LinkOf(cur.h)) PROVE AddingOK'
  <2> DEFINE h == LinkOf(cur.h)
  <2>1. h \in Names \X Nat /\ h[2] <= Len(hash[h[1]].warnings)
    BY <1>6, Linked
  <2>2. cur' = [cur EXCEPT !.h = h] /\ cur \in Additions
    BY <1>6, Acting DEF Cycle
  <2> HIDE DEF h
  <2>3. h[1] \in Names /\ h[2] \in Nat
    BY <2>1
  <2>4. h[2] <= Len(hash'[h[1]].warnings)
    BY <1>2, <2>1, <2>3
  <2>5. cur' \in Additions /\ cur'.h = h
    BY <2>1, <2>2 DEF Additions
  <2> QED BY <2>4, <2>5 DEF AddingOK
<1>7. ASSUME ActWARNC \/ ActCYCLE \/ ActREFC PROVE AddingOK'
  <2>1. cur.on /\ Cycle(LinkOf(cur.h))
    BY <1>7 DEF ActWARNC, ActCYCLE, ActREFC, Does
  <2>2. Type(cur.h) \in {"indr", "warn"}
    <3>1. cur.row \in Rows /\ Type(cur.h) \in Types \cup {"warn"}
      BY <2>1, Acting
    <3> QED BY <1>7, <3>1, Table DEF ActWARNC, ActCYCLE, ActREFC, Does
  <2> QED BY <1>6, <2>1, <2>2
<1>8. ASSUME ActIND PROVE AddingOK'
  <2>1. cur' = NotAdding \/ cur' = [cur EXCEPT !.row = "UNDEF_ROW"]
    BY <1>8, EffectIND
  <2>2. cur.on
    BY <1>8 DEF ActIND, Does
  <2>3. cur \in Additions /\ cur.h[1] \in Names /\ cur.h[2] \in Nat /\ cur.h[2] <= Len(hash[cur.h[1]].warnings)
    BY <2>2, Acting DEF This
  <2>4. cur.h[2] <= Len(hash'[cur.h[1]].warnings)
    BY <1>2, <2>3
  <2>5. CASE cur' = [cur EXCEPT !.row = "UNDEF_ROW"]
    <3>1. cur' \in Additions /\ cur'.h = cur.h
      BY <2>3, <2>5 DEF Additions, Rows
    <3> QED BY <2>4, <3>1 DEF AddingOK
  <2> QED BY <2>1, <2>5 DEF AddingOK
<1>9. ASSUME AddOneSymbol PROVE AddingOK'
  <2>1. queue.syms # <<>> /\ queue.syms \in Seq(AllSymbols) /\ queue.owner \in Owners
    BY <1>9, FileSymbols DEF AddOneSymbol, StrongTypes, TypeOK
  <2> DEFINE sym == Head(queue.syms)
  <2>2. sym \in AllSymbols
    BY <2>1
  <2>3. cur' = [on |-> TRUE, h |-> Lookup(sym.name), row |-> sym.row, sym |-> sym, owner |-> queue.owner]
    BY <1>9 DEF AddOneSymbol
  <2>4. UNCHANGED hash
    BY <1>9 DEF AddOneSymbol
  <2> HIDE DEF sym
  <2>5. sym.name \in Names /\ Lookup(sym.name) = <<sym.name, Len(hash[sym.name].warnings)>>
    BY <2>2 DEF AllSymbols, Lookup
  <2>6. Len(hash[sym.name].warnings) \in Nat
    BY <1>2, <2>5
  <2>7. cur' \in Additions
    BY <2>1, <2>2, <2>3, <2>5, <2>6 DEF Additions, AllSymbols
  <2> QED BY <2>3, <2>4, <2>5, <2>6, <2>7 DEF AddingOK
<1>10. ASSUME AddsOne PROVE AddingOK'
  BY <1>5, <1>7, <1>8, <1>10 DEF AddsOne, ActNOACT, ActUND, ActWEAK, ActDEF, ActCOM, ActREF, ActBIG,
     ActCREF, ActMDEF, ActSET, ActWARN, ActMWARN
<1> QED BY <1>4, <1>9, <1>10
  DEF Next, Searches, AddObject, SearchBegins, SearchSkips, SearchGoesOn, SearchLooksAtElement, SearchEnds

\* What is said of symbols.
SeenOK == seen \in [Names -> Seq(Statements)]

\* The history keeps its type.
LEMMA SeenStep ==
  ASSUME StrongTypes, Next
  PROVE  SeenOK'
<1>1. seen \in [Names -> Seq(Statements)] /\ hash \in [Names -> Entries]
  BY DEF StrongTypes, TypeOK, Entries
<1>2. ASSUME UNCHANGED seen PROVE SeenOK'
  BY <1>1, <1>2 DEF SeenOK
<1>3. ASSUME AddOneSymbol PROVE SeenOK'
  <2>1. queue.syms # <<>> /\ queue.syms \in Seq(AllSymbols) /\ queue.owner \in Owners
    BY <1>3, FileSymbols DEF AddOneSymbol, StrongTypes, TypeOK
  <2> DEFINE sym == Head(queue.syms)
             it == [row |-> sym.row, value |-> sym.value, owner |-> queue.owner]
  <2>2. sym \in AllSymbols
    BY <2>1
  <2>3. seen' = [seen EXCEPT ![sym.name] = Append(@, it)]
    BY <1>3 DEF AddOneSymbol
  <2> HIDE DEF sym
  <2>4. it \in Statements /\ sym.name \in Names
    BY <2>1, <2>2 DEF Statements, AllSymbols
  <2> HIDE DEF it
  <2>5. Append(seen[sym.name], it) \in Seq(Statements)
    BY <1>1, <2>4
  <2> QED BY <1>1, <2>3, <2>5 DEF SeenOK
<1>4. ASSUME NEW el \in Elements, NEW k \in 1..(Len(Contents(el)) + 1), CommonsMade(el, k) PROVE SeenOK'
  <2>1. ASSUME NEW n \in Names PROVE seen'[n] \in Seq(Statements)
    <3>1. CASE Commons(el, k, n) = {}
      BY <1>1, <1>4, <3>1, EffectCommons
    <3>2. CASE Commons(el, k, n) # {}
      <4> DEFINE big == Max(Commons(el, k, n))
                 it == [row |-> "COMMON_ROW", value |-> big, owner |-> hash[n].owner]
      <4>1. big \in Nat /\ seen'[n] = Append(seen[n], it)
        BY <1>4, <3>2, EffectCommons
      <4>2. hash[n].owner \in Owners /\ seen[n] \in Seq(Statements)
        BY <1>1 DEF Entries
      <4> HIDE DEF big
      <4>3. it \in Statements
        BY <4>1, <4>2 DEF Statements, Rows
      <4> HIDE DEF it
      <4> QED BY <4>1, <4>2, <4>3
    <3> QED BY <3>1, <3>2
  <2>2. seen' = [n \in Names |-> seen'[n]]
    BY <1>4 DEF CommonsMade
  <2> QED BY <2>1, <2>2 DEF SeenOK
<1>5. ASSUME SearchLooksAtElement PROVE SeenOK'
  BY <1>2, <1>4, <1>5, LooksFacts
<1> QED BY <1>2, <1>3, <1>5
  DEF Next, AddsOne, Searches, AddObject, SearchBegins, SearchSkips, SearchGoesOn, SearchEnds, Outside,
      ActNOACT, ActUND, ActWEAK, ActDEF, ActCOM, ActREF, ActBIG, ActCREF, ActMDEF, ActIND, ActSET, ActWARNC,
      ActCYCLE, ActREFC, ActWARN, ActMWARN

\* What is to be added.
LEMMA QueueStep ==
  ASSUME StrongTypes, Next
  PROVE  QueueOK'
<1> DEFINE S == Symbols \cup UNION {ToSet(Contents(el)) : el \in Elements}
<1>1. queue \in [syms : Seq(S), owner : Owners]
  BY DEF StrongTypes, TypeOK
<1> HIDE DEF S
<1>2. ASSUME queue' \in [syms : Seq(S), owner : Owners] PROVE QueueOK'
  <2>1. Elements' = Elements /\ Owners' = Owners
    BY DEF Elements, Owners
  <2> QED BY <1>2, <2>1 DEF QueueOK, S
<1>3. ASSUME UNCHANGED queue PROVE QueueOK'
  BY <1>1, <1>2, <1>3
<1>4. ASSUME AddOneSymbol PROVE QueueOK'
  <2>1. queue.syms # <<>> /\ queue' = [queue EXCEPT !.syms = Tail(queue.syms)]
    BY <1>4 DEF AddOneSymbol
  <2>2. Tail(queue.syms) \in Seq(S)
    BY <1>1, <2>1
  <2>3. queue' \in [syms : Seq(S), owner : Owners]
    BY <1>1, <2>1, <2>2
  <2> QED BY <1>2, <2>3
<1>5. ASSUME AddObject PROVE QueueOK'
  <2>1. PICK sym \in Symbols : queue' = [syms |-> <<sym>>, owner |-> <<0, left.objects>>]
    BY <1>5 DEF AddObject
  <2>2. left.objects \in 0..MaxObjects
    BY DEF StrongTypes, TypeOK
  <2>3. <<0, left.objects>> \in Owners /\ sym \in S
    BY <2>2 DEF Owners, S
  <2>4. queue' \in [syms : Seq(S), owner : Owners]
    BY <2>1, <2>3
  <2> QED BY <1>2, <2>4
<1>6. ASSUME NEW el \in Elements PROVE Contents(el) \in Seq(S) /\ el \in Owners
  <2>1. Contents(el) \in Seq(AllSymbols)
    BY ElementFacts
  <2>2. \A i \in DOMAIN Contents(el) : Contents(el)[i] \in S
    BY <2>1 DEF S, ToSet
  <2>3. Contents(el) \in Seq(S)
    <3> DEFINE c == Contents(el)
    <3> HIDE DEF c, S
    <3>1. c = [i \in 1..Len(c) |-> c[i]] /\ Len(c) \in Nat
      BY <2>1 DEF c
    <3> QED BY <2>1, <2>2, <3>1 DEF c
  <2> QED BY <2>3 DEF Owners
<1>7. ASSUME SearchLooksAtElement PROVE QueueOK'
  <2> DEFINE el == <<search.archive, Min(Candidates)>>
  <2>1. el \in Elements
    BY <1>7, LooksFacts
  <2>2. queue' = queue \/ queue' = [syms |-> Contents(el), owner |-> el]
    BY <1>7, LooksFacts DEF Includes, LeavesOut
  <2> HIDE DEF el
  <2>3. Contents(el) \in Seq(S) /\ el \in Owners
    BY <1>6, <2>1
  <2>4. queue' \in [syms : Seq(S), owner : Owners]
    BY <1>1, <2>2, <2>3
  <2> QED BY <1>2, <2>4
<1> QED BY <1>3, <1>4, <1>5, <1>7
  DEF Next, AddsOne, Searches, SearchBegins, SearchSkips, SearchGoesOn, SearchEnds, Outside,
      ActNOACT, ActUND, ActWEAK, ActDEF, ActCOM, ActREF, ActBIG, ActCREF, ActMDEF, ActIND, ActSET, ActWARNC,
      ActCYCLE, ActREFC, ActWARN, ActMWARN

\* The passes of the archives and of their elements.
LEMMA PassesStep ==
  ASSUME StrongTypes, SearchOnList, HasList, Next
  PROVE  PassesOK'
<1> DEFINE Tail0 == Names \cup {"NULL"}
           Bound(s, passes, el) == IF s.on /\ s.archive = el[1] THEN s.pass ELSE passes[el[1]]
<1>1. /\ search \in SearchTypes
      /\ archive_pass \in [DOMAIN Archives -> Nat]
      /\ \A el \in Elements : element_pass[el] \in -1..Bound(search, archive_pass, el)
      /\ left.objects \in 0..MaxObjects /\ left.searches \in 0..MaxSearches
      /\ search.on => search.archive # 0
      /\ undefs_tail \in Tail0 /\ MaxObjects \in Nat /\ MaxSearches \in Nat
      /\ element_pass \in [Elements -> Int]
  BY LinkSymbolsAssumption DEF StrongTypes, TypeOK, SearchTypes
<1>2. Len(Archives) \in Nat /\ DOMAIN Archives = 1..Len(Archives) /\ (Archives # <<>> => 1 \in DOMAIN Archives)
  BY LinkSymbolsAssumption
<1>3. \A el \in Elements : el[1] \in DOMAIN Archives
  BY ElementFacts
<1>4. NotSearching \in SearchTypes /\ NotSearching.on = FALSE
  BY <1>2 DEF NotSearching, SearchTypes
<1>5. ASSUME search' \in SearchTypes, archive_pass' \in [DOMAIN Archives -> Nat],
             \A el \in Elements : element_pass'[el] \in -1..Bound(search', archive_pass', el),
             element_pass' \in [Elements -> Int],
             left'.objects \in 0..MaxObjects, left'.searches \in 0..MaxSearches,
             search'.on => search'.archive # 0
      PROVE  PassesOK'
  <2>1. Elements' = Elements
    BY DEF Elements
  <2> QED BY <1>5, <2>1 DEF PassesOK, SearchTypes, Bound, Tail0
<1> HIDE DEF Bound, Tail0
<1>6. ASSUME UNCHANGED <<search, archive_pass, element_pass, left>> PROVE PassesOK'
  BY <1>1, <1>5, <1>6
<1>7. ASSUME AddObject PROVE PassesOK'
  <2>1. /\ ~search.on /\ search' = NotSearching /\ UNCHANGED <<archive_pass, element_pass>>
        /\ left.objects > 0 /\ left'.objects = left.objects - 1 /\ left'.searches = left.searches
    BY <1>7 DEF AddObject
  <2>2. left'.objects \in 0..MaxObjects
    BY <1>1, <2>1
  <2>3. \A el \in Elements : Bound(search', archive_pass', el) = Bound(search, archive_pass, el)
    BY <1>4, <2>1 DEF Bound
  <2> QED BY <1>1, <1>4, <1>5, <2>1, <2>2, <2>3
<1>9. ASSUME NEW a \in DOMAIN Archives, NEW group \in BOOLEAN, NEW tail \in Tail0
      PROVE  LET s == StartsAt(a, group, tail)
             IN s \in SearchTypes /\ s.archive = a /\ a # 0 /\ s.on /\ s.pass = archive_pass[a] + 1
                /\ s.pass \in Nat
  BY <1>1, <1>2 DEF StartsAt, SearchTypes, Tail0
<1>10. ASSUME SearchBegins PROVE PassesOK'
  <2>1. /\ ~search.on /\ UNCHANGED <<archive_pass, element_pass>> /\ Archives # <<>>
        /\ left.searches > 0 /\ left'.objects = left.objects /\ left'.searches = left.searches - 1
    BY <1>10 DEF SearchBegins
  <2>2. \E a \in DOMAIN Archives : \E group \in BOOLEAN : \E tail \in Tail0 : search' = StartsAt(a, group, tail)
    BY <1>1, <1>2, <1>10 DEF SearchBegins, Tail0
  <2>3. PICK a \in DOMAIN Archives, group \in BOOLEAN, tail \in Tail0 : search' = StartsAt(a, group, tail)
    BY <2>2
  <2>4. search' \in SearchTypes /\ search'.archive = a /\ a # 0 /\ search'.on /\ search'.pass = archive_pass[a] + 1
    BY <1>9, <2>3
  <2>5. left'.searches \in 0..MaxSearches
    BY <1>1, <2>1
  <2>6. ASSUME NEW el \in Elements PROVE element_pass'[el] \in -1..Bound(search', archive_pass', el)
    <3>1. element_pass[el] \in -1..archive_pass[el[1]] /\ archive_pass[el[1]] \in Nat
      BY <1>1, <1>3, <2>1 DEF Bound
    <3> QED BY <2>1, <2>4, <3>1 DEF Bound
  <2> QED BY <1>1, <1>5, <2>1, <2>4, <2>5, <2>6
<1>12. At # "NULL" => At \in Names
  BY ListFacts
<1>13. ASSUME SearchSkips \/ SearchGoesOn PROVE PassesOK'
  <2>1. UNCHANGED <<archive_pass, element_pass, left>> /\ At # "NULL"
    BY <1>13 DEF SearchSkips, SearchGoesOn
  <2>2. UNCHANGED search \/ search' = [search EXCEPT !.pundef = At] \/ search' = [search EXCEPT !.pundef = At, !.l = 1]
    BY <1>13 DEF SearchSkips, SearchGoesOn
  <2>3. search' \in SearchTypes /\ search'.on = search.on /\ search'.archive = search.archive
        /\ search'.pass = search.pass
    <3>1. 1 \in Nat \ {0} /\ 0 \in Nat /\ At \in Names \cup {"HEAD"}
      BY <1>12, <2>1
    <3> HIDE DEF At
    <3>2. search' \in {search, [search EXCEPT !.pundef = At], [search EXCEPT !.pundef = At, !.l = 1]}
      BY <2>2
    <3>3. search \in SearchTypes
      BY <1>1
    <3>4. CASE search' = [search EXCEPT !.pundef = At]
      BY ONLY <3>1, <3>3, <3>4 DEF SearchTypes
    <3>5. CASE search' = [search EXCEPT !.pundef = At, !.l = 1]
      BY ONLY <3>1, <3>3, <3>5 DEF SearchTypes
    <3> QED BY <3>2, <3>3, <3>4, <3>5
  <2>4. \A el \in Elements : Bound(search', archive_pass', el) = Bound(search, archive_pass, el)
    BY <2>1, <2>3 DEF Bound
  <2> QED BY <1>1, <1>5, <2>1, <2>3, <2>4
<1>14. ASSUME SearchLooksAtElement PROVE PassesOK'
  <2> DEFINE i == Min(Candidates)
             el == <<search.archive, i>>
  <2>1. /\ search.on /\ el \in Elements /\ i \in Nat
        /\ \/ search' = [search EXCEPT !.l = i + 1] /\ UNCHANGED element_pass
           \/ /\ \/ search' = [search EXCEPT !.l = i + 1]
                 \/ search' = [search EXCEPT !.l = i + 1, !.pass = Rechecks]
              /\ element_pass' = [element_pass EXCEPT ![el] = -1]
           \/ /\ search' = [search EXCEPT !.l = i + 1]
              /\ element_pass' = [element_pass EXCEPT ![el] = search.pass]
        /\ UNCHANGED <<archive_pass, left>>
    BY <1>14, LooksFacts DEF Includes, LeavesOut
  <2> HIDE DEF i
  <2>2. search.pass \in Nat /\ Rechecks = search.pass + 1
    BY <1>1 DEF SearchTypes, Rechecks
  <2>3. /\ search' \in SearchTypes /\ search'.on = search.on /\ search'.archive = search.archive
        /\ search'.pass \in {search.pass, search.pass + 1}
    <3>1. i + 1 \in Nat \ {0} /\ Rechecks \in Nat /\ search.pundef \in Names \cup {"HEAD"}
      BY SMTT(30), <1>1, <2>1, <2>2 DEF SearchTypes
    <3>2. \/ search' = [search EXCEPT !.l = i + 1]
          \/ search' = [search EXCEPT !.l = i + 1, !.pass = Rechecks]
      BY <2>1
    <3> HIDE DEF Rechecks
    <3>3. search \in SearchTypes
      BY <1>1
    <3>4. CASE search' = [search EXCEPT !.l = i + 1]
      BY ONLY <3>1, <3>3, <3>4 DEF SearchTypes
    <3>5. CASE search' = [search EXCEPT !.l = i + 1, !.pass = Rechecks]
      <4>1. /\ search' \in SearchTypes /\ search'.on = search.on /\ search'.archive = search.archive
            /\ search'.pass = Rechecks
        BY ONLY <3>1, <3>3, <3>5 DEF SearchTypes
      <4> QED BY <2>2, <4>1
    <3> QED BY <3>2, <3>4, <3>5
  <2>4. ASSUME NEW e \in Elements PROVE element_pass'[e] \in -1..Bound(search', archive_pass', e)
    <3>1. element_pass'[e] = element_pass[e] \/ element_pass'[e] = -1 \/ (element_pass'[e] = search.pass /\ e = el)
      <4>1. element_pass' \in {element_pass, [element_pass EXCEPT ![el] = -1],
                               [element_pass EXCEPT ![el] = search.pass]}
        BY <2>1
      <4> HIDE DEF el
      <4> QED BY <1>1, <4>1
    <3>4. el \in Elements
      BY <2>1
    <3>2. element_pass[e] \in -1..Bound(search, archive_pass, e) /\ archive_pass[e[1]] \in Nat
      BY <1>1, <1>3
    <3>3. e = el => e[1] = search.archive
      OBVIOUS
    <3> QED BY <2>1, <2>2, <2>3, <3>1, <3>2, <3>3 DEF Bound
  <2>5. element_pass' \in [Elements -> Int]
    <3>1. -1 \in Int /\ search.pass \in Int
      BY <2>2
    <3> QED BY <1>1, <2>1, <3>1
  <2> QED BY <1>1, <1>5, <2>1, <2>3, <2>4, <2>5
<1>15. ASSUME SearchEnds PROVE PassesOK'
  <2>1. /\ search.on /\ search.archive # 0 /\ UNCHANGED <<element_pass, left>>
        /\ archive_pass' = [archive_pass EXCEPT ![search.archive] = search.pass]
    BY <1>1, <1>15 DEF SearchEnds, Searching, PassSaved
  <2>2. search.archive \in DOMAIN Archives /\ search.pass \in Nat /\ search.undefs \in Tail0
    BY <1>1, <1>2, <2>1 DEF SearchTypes, Tail0
  <2>3. archive_pass' \in [DOMAIN Archives -> Nat]
    BY <1>1, <2>1, <2>2
  <2>4. ASSUME NEW el \in Elements PROVE element_pass'[el] \in -1..archive_pass'[el[1]]
    <3>1. element_pass[el] \in -1..Bound(search, archive_pass, el) /\ el[1] \in DOMAIN Archives
      BY <1>1, <1>3
    <3> QED BY <1>1, <2>1, <3>1 DEF Bound
  <2>5. /\ search' \in SearchTypes
        /\ search'.on => search'.archive # 0
        /\ search'.on => search'.pass \in Nat /\ search'.pass >= archive_pass'[search'.archive]
    <3>1. \/ search' = [search EXCEPT !.on = FALSE]
          \/ /\ search' = StartsAt(search.archive + 1, TRUE, search.undefs)
             /\ search.archive < Len(Archives)
          \/ search' = [StartsAt(1, TRUE, undefs_tail) EXCEPT !.pass = archive_pass'[1] + 1]
      BY <1>15 DEF SearchEnds
    <3>2. CASE search' = [search EXCEPT !.on = FALSE]
      <4>1. search' \in SearchTypes /\ ~search'.on
        BY <1>1, <3>2 DEF SearchTypes
      <4> QED BY <4>1
    <3>3. CASE /\ search' = StartsAt(search.archive + 1, TRUE, search.undefs)
               /\ search.archive < Len(Archives)
      <4>1. search.archive + 1 \in DOMAIN Archives /\ search.archive + 1 # search.archive
        BY <1>2, <2>2, <3>3
      <4>2. /\ search' \in SearchTypes /\ search'.archive = search.archive + 1 /\ search.archive + 1 # 0
            /\ search'.pass = archive_pass[search.archive + 1] + 1 /\ search'.pass \in Nat
        BY <1>9, <2>2, <3>3, <4>1
      <4>3. archive_pass'[search.archive + 1] = archive_pass[search.archive + 1]
        BY <1>1, <2>1, <4>1
      <4>4. archive_pass[search.archive + 1] \in Nat
        BY <1>1, <4>1
      <4> QED BY <4>2, <4>3, <4>4
    <3>4. CASE search' = [StartsAt(1, TRUE, undefs_tail) EXCEPT !.pass = archive_pass'[1] + 1]
      <4>1. 1 \in DOMAIN Archives
        BY <1>2, <2>2
      <4>2. archive_pass'[1] \in Nat
        BY <2>3, <4>1
      <4>3. search' \in SearchTypes /\ search'.archive = 1 /\ search'.pass = archive_pass'[1] + 1
        <5> DEFINE r == StartsAt(1, TRUE, undefs_tail)
        <5>1. r \in SearchTypes /\ r.archive = 1
          BY <1>1, <1>2, <4>1 DEF StartsAt, SearchTypes, Tail0
        <5>2. archive_pass'[1] + 1 \in Nat /\ search' = [r EXCEPT !.pass = archive_pass'[1] + 1]
          BY <3>4, <4>2
        <5> HIDE DEF r
        <5> QED BY <5>1, <5>2 DEF SearchTypes
      <4> QED BY <4>2, <4>3
    <3> QED BY <3>1, <3>2, <3>3, <3>4
  <2>6. ASSUME NEW el \in Elements PROVE element_pass'[el] \in -1..Bound(search', archive_pass', el)
    <3>1. archive_pass'[el[1]] \in Nat /\ element_pass'[el] \in -1..archive_pass'[el[1]]
      BY <1>3, <2>3, <2>4
    <3> QED BY <2>5, <3>1 DEF Bound
  <2>7. left'.objects \in 0..MaxObjects /\ left'.searches \in 0..MaxSearches
    BY <1>1, <2>1
  <2>8. element_pass' \in [Elements -> Int]
    BY <1>1, <2>1
  <2> QED BY <1>5, <2>3, <2>5, <2>6, <2>7, <2>8
<1>16. ASSUME AddOneSymbol \/ AddsOne PROVE PassesOK'
  <2>1. UNCHANGED <<search, archive_pass, element_pass, left>>
    BY <1>16 DEF AddOneSymbol, AddsOne, Outside,
      ActNOACT, ActUND, ActWEAK, ActDEF, ActCOM, ActREF, ActBIG, ActCREF, ActMDEF, ActIND, ActSET, ActWARNC,
      ActCYCLE, ActREFC, ActWARN, ActMWARN
  <2> QED BY <1>6, <2>1
<1> QED BY <1>7, <1>10, <1>13, <1>14, <1>15, <1>16 DEF Next, Searches

\* The types are kept.
LEMMA TypesStep ==
  ASSUME StrongTypes, SearchOnList, HasList, Next
  PROVE  StrongTypes'
<1>1. HashOK' /\ LinksOK' /\ AddingOK' /\ SeenOK' /\ QueueOK' /\ PassesOK'
  BY HashStep, LinksStep, AddingStep, SeenStep, QueueStep, PassesStep
<1>2. AddingOK' => (cur.on \in BOOLEAN /\ (cur.on => cur.h \in Names \X Nat /\ cur.row \in Rows))'
  <2>1. cur' = NotAdding => cur'.on = FALSE
    BY DEF NotAdding
  <2>2. cur' \in Additions => cur'.on = TRUE /\ cur'.h \in Names \X Nat /\ cur'.row \in Rows
    BY DEF Additions
  <2> QED BY <2>1, <2>2 DEF AddingOK
<1>3. TypeOK'
  BY <1>1, <1>2 DEF TypeOK, HashOK, QueueOK, PassesOK, SearchTypes, Entries
<1> QED BY <1>1, <1>3 DEF StrongTypes, LinksOK, AddingOK, SeenOK, PassesOK

-----------------------------------------------------------------------------
(* What was said and done is not taken back.                               *)

\* What a step adds to what was said of x.
LEMMA SeenEffect ==
  ASSUME StrongTypes, Next
  PROVE  /\ ~AddOneSymbol => ((\A x \in Names : seen'[x] = seen[x]) \/ SearchLooksAtElement)
         /\ AddOneSymbol =>
              LET sym == Head(queue.syms)
                  it == [row |-> sym.row, value |-> sym.value, owner |-> queue.owner]
              IN /\ sym \in AllSymbols /\ it \in Statements
                 /\ cur' = [on |-> TRUE, h |-> Lookup(sym.name), row |-> sym.row, sym |-> sym,
                            owner |-> queue.owner]
                 /\ seen'[sym.name] = Append(seen[sym.name], it)
                 /\ \A x \in Names : x # sym.name => seen'[x] = seen[x]
         /\ \A x \in Names : /\ Len(seen'[x]) >= Len(seen[x]) /\ Len(seen[x]) \in Nat /\ Len(seen'[x]) \in Nat
                             /\ \A i \in 1..Len(seen[x]) : seen'[x][i] = seen[x][i]
<1>1. seen \in [Names -> Seq(Statements)] /\ hash \in [Names -> Entries]
  BY DEF StrongTypes, TypeOK, Entries
<1>2. ASSUME UNCHANGED seen
      PROVE  \A x \in Names : /\ Len(seen'[x]) >= Len(seen[x]) /\ Len(seen[x]) \in Nat /\ Len(seen'[x]) \in Nat
                              /\ \A i \in 1..Len(seen[x]) : seen'[x][i] = seen[x][i]
  BY <1>1, <1>2
<1>3. ASSUME NEW x \in Names, NEW it \in Statements, seen'[x] = Append(seen[x], it)
      PROVE  /\ Len(seen'[x]) >= Len(seen[x]) /\ Len(seen[x]) \in Nat /\ Len(seen'[x]) \in Nat
             /\ \A i \in 1..Len(seen[x]) : seen'[x][i] = seen[x][i]
  <2> DEFINE w == seen[x]
             v == seen'[x]
  <2>1. w \in Seq(Statements) /\ v = Append(w, it)
    BY <1>1, <1>3
  <2> HIDE DEF w, v
  <2>2. Len(v) = Len(w) + 1 /\ Len(w) \in Nat /\ \A i \in 1..Len(w) : v[i] = w[i]
    BY <2>1, Appending
  <2> QED BY <2>2 DEF w, v
<1>4. ASSUME AddOneSymbol
      PROVE  LET sym == Head(queue.syms)
                 it == [row |-> sym.row, value |-> sym.value, owner |-> queue.owner]
             IN /\ sym \in AllSymbols /\ it \in Statements
                /\ cur' = [on |-> TRUE, h |-> Lookup(sym.name), row |-> sym.row, sym |-> sym,
                           owner |-> queue.owner]
                /\ seen'[sym.name] = Append(seen[sym.name], it)
                /\ \A x \in Names : x # sym.name => seen'[x] = seen[x]
  <2>1. queue.syms # <<>> /\ queue.syms \in Seq(AllSymbols) /\ queue.owner \in Owners
    BY <1>4, FileSymbols DEF AddOneSymbol, StrongTypes, TypeOK
  <2> DEFINE sym == Head(queue.syms)
             it == [row |-> sym.row, value |-> sym.value, owner |-> queue.owner]
  <2>2. sym \in AllSymbols
    BY <2>1
  <2>3. /\ seen' = [seen EXCEPT ![sym.name] = Append(@, it)]
        /\ cur' = [on |-> TRUE, h |-> Lookup(sym.name), row |-> sym.row, sym |-> sym, owner |-> queue.owner]
    BY <1>4 DEF AddOneSymbol
  <2> HIDE DEF sym
  <2>4. it \in Statements /\ sym.name \in Names
    BY <2>1, <2>2 DEF Statements, AllSymbols
  <2>5. /\ seen'[sym.name] = Append(seen[sym.name], it)
        /\ \A x \in Names : x # sym.name => seen'[x] = seen[x]
    <3> HIDE DEF it
    <3> QED BY <1>1, <2>3, <2>4
  <2> QED BY <2>2, <2>3, <2>4, <2>5 DEF sym
<1>5. ASSUME AddOneSymbol, NEW x \in Names
      PROVE  /\ Len(seen'[x]) >= Len(seen[x]) /\ Len(seen[x]) \in Nat /\ Len(seen'[x]) \in Nat
             /\ \A i \in 1..Len(seen[x]) : seen'[x][i] = seen[x][i]
  <2> DEFINE sym == Head(queue.syms)
             it == [row |-> sym.row, value |-> sym.value, owner |-> queue.owner]
  <2>1. /\ it \in Statements /\ seen'[sym.name] = Append(seen[sym.name], it)
        /\ x # sym.name => seen'[x] = seen[x]
    BY <1>4, <1>5
  <2> HIDE DEF sym, it
  <2>2. CASE x = sym.name
    BY <1>3, <2>1, <2>2
  <2>3. CASE x # sym.name
    BY <1>1, <2>1, <2>3
  <2> QED BY <2>2, <2>3
<1>6. ASSUME SearchLooksAtElement, NEW x \in Names
      PROVE  /\ Len(seen'[x]) >= Len(seen[x]) /\ Len(seen[x]) \in Nat /\ Len(seen'[x]) \in Nat
             /\ \A i \in 1..Len(seen[x]) : seen'[x][i] = seen[x][i]
  <2>1. CASE UNCHANGED seen
    BY <1>2, <2>1
  <2>2. ASSUME NEW el \in Elements, NEW k \in 1..(Len(Contents(el)) + 1), CommonsMade(el, k)
        PROVE  /\ Len(seen'[x]) >= Len(seen[x]) /\ Len(seen[x]) \in Nat /\ Len(seen'[x]) \in Nat
               /\ \A i \in 1..Len(seen[x]) : seen'[x][i] = seen[x][i]
    <3>1. CASE Commons(el, k, x) = {}
      <4>1. seen'[x] = seen[x]
        BY <2>2, <3>1, EffectCommons
      <4> QED BY <1>1, <4>1
    <3>2. CASE Commons(el, k, x) # {}
      <4> DEFINE big == Max(Commons(el, k, x))
                 it == [row |-> "COMMON_ROW", value |-> big, owner |-> hash[x].owner]
      <4>1. big \in Nat /\ seen'[x] = Append(seen[x], it)
        BY <2>2, <3>2, EffectCommons
      <4>2. hash[x].owner \in Owners
        BY <1>1 DEF Entries
      <4> HIDE DEF big
      <4>3. it \in Statements
        BY <4>1, <4>2 DEF Statements, Rows
      <4> HIDE DEF it
      <4> QED BY <1>3, <4>1, <4>3
    <3> QED BY <3>1, <3>2
  <2> QED BY <1>6, <2>1, <2>2, LooksFacts
<1>7. UNCHANGED seen \/ AddOneSymbol \/ SearchLooksAtElement
  BY DEF Next, AddsOne, Searches, AddObject, SearchBegins, SearchSkips, SearchGoesOn, SearchEnds, Outside,
      ActNOACT, ActUND, ActWEAK, ActDEF, ActCOM, ActREF, ActBIG, ActCREF, ActMDEF, ActIND, ActSET, ActWARNC,
      ActCYCLE, ActREFC, ActWARN, ActMWARN
<1> QED BY <1>2, <1>4, <1>5, <1>6, <1>7

\* What was said stays said, what was reported stays reported.
LEMMA HistoryKept ==
  ASSUME StrongTypes, SearchOnList, HasList, Next
  PROVE  /\ reports \subseteq reports'
         /\ \A x \in Names : Said(x) \subseteq Said(x)'
         /\ \A x \in Names : LinkedTo(x) => LinkedTo(x)'
         /\ \A x \in Names : LinkedTo(x)' => LinkedTo(x) \/ (ActIND /\ x = cur.sym.string)
         /\ \A x \in Names : Unlisted(x) => Unlisted(x)'
         /\ Plain' \subseteq Plain
<1>1. reports \subseteq reports'
  BY DEF Next, AddsOne, Searches, AddObject, SearchBegins, AddOneSymbol, SearchSkips, SearchGoesOn, SearchEnds,
      SearchLooksAtElement, Callback,
      ActNOACT, ActUND, ActWEAK, ActDEF, ActCOM, ActREF, ActBIG, ActCREF, ActMDEF, ActIND, ActSET, ActWARNC,
      ActCYCLE, ActREFC, ActWARN, ActMWARN
<1>2. ASSUME NEW x \in Names PROVE Said(x) \subseteq Said(x)'
  <2>1. /\ Len(seen'[x]) >= Len(seen[x]) /\ Len(seen[x]) \in Nat /\ Len(seen'[x]) \in Nat
        /\ \A i \in 1..Len(seen[x]) : seen'[x][i] = seen[x][i]
    BY SeenEffect
  <2>2. seen[x] \in Seq(Statements) /\ seen'[x] \in Seq(Statements)
    BY SeenStep DEF SeenOK, StrongTypes
  <2>3. DOMAIN seen[x] = 1..Len(seen[x]) /\ DOMAIN seen'[x] = 1..Len(seen'[x])
    BY <2>2
  <2>4. \A i \in DOMAIN seen[x] : i \in DOMAIN seen'[x] /\ seen'[x][i].row = seen[x][i].row
    BY <2>1, <2>3
  <2> QED BY <2>4 DEF Said
<1>3. "NULL" \notin Names
  BY LinkSymbolsAssumption
<1>4. LinksOK /\ LinksOK'
  BY LinksStep DEF StrongTypes, LinksOK
<1>5. ASSUME NEW x \in Names, LinkedTo(x) PROVE LinkedTo(x)'
  <2>1. PICK y \in Names : hash[y].link[1] = x
    BY <1>5 DEF LinkedTo
  <2>2. hash[y].type = "indr"
    BY <1>3, <1>4, <2>1 DEF LinksOK
  <2>3. hash'[y].link = hash[y].link
    BY <2>2, EntriesKept DEF Kept
  <2> QED BY <2>1, <2>3 DEF LinkedTo
<1>6. ASSUME NEW x \in Names, LinkedTo(x)' PROVE LinkedTo(x) \/ (ActIND /\ x = cur.sym.string)
  <2>1. PICK y \in Names : hash'[y].link[1] = x
    BY <1>6 DEF LinkedTo
  <2>2. hash'[y].type = "indr"
    BY <1>3, <1>4, <2>1 DEF LinksOK
  <2>3. CASE hash[y].type = "indr"
    <3>1. hash'[y].link = hash[y].link
      BY <2>3, EntriesKept DEF Kept
    <3> QED BY <2>1, <3>1 DEF LinkedTo
  <2>4. CASE hash[y].type # "indr"
    <3>1. ActIND /\ hash'[y].link = Lookup(cur.sym.string)
      BY <2>2, <2>4, EntriesKept DEF Kept
    <3> QED BY <2>1, <3>1 DEF Lookup
  <2> QED BY <2>3, <2>4
<1>7. ASSUME NEW x \in Names, Unlisted(x) PROVE Unlisted(x)'
  <2>1. Said(x) \subseteq Said(x)' /\ LinkedTo(x) => LinkedTo(x)'
    BY <1>2, <1>5
  <2> QED BY <1>1, <1>2, <1>5, <1>7 DEF Unlisted, LinkedTo
<1>8. Plain' \subseteq Plain
  BY <1>2, <1>5 DEF Plain, LinkedTo
<1> QED BY <1>1, <1>2, <1>5, <1>6, <1>7, <1>8

\* What is being added was said last.
LEMMA BeingAdded ==
  ASSUME StrongTypes, CurOK, cur.on
  PROVE  /\ cur.sym.name \in Names /\ cur.sym.row \in Said(cur.sym.name)
         /\ cur.row \in {"INDR_ROW", "UNDEFW_ROW", "DEF_ROW", "DEFW_ROW", "COMMON_ROW", "WARN_ROW", "SET_ROW"} =>
              cur.sym.row = cur.row
<1>1. cur.sym.name \in Names
  BY Acting DEF AllSymbols
<1>2. seen[cur.sym.name] \in Seq(Statements)
  BY <1>1 DEF StrongTypes
<1> DEFINE w == seen[cur.sym.name]
<1>3. w # <<>> /\ Last(w).row = cur.sym.row
  BY DEF CurOK
<1> HIDE DEF w
<1>4. w \in Seq(Statements)
  BY <1>2 DEF w
<1>5. Len(w) \in DOMAIN w /\ w[Len(w)].row = cur.sym.row
  BY <1>3, <1>4 DEF Last
<1>6. cur.sym.row \in Said(cur.sym.name)
  BY <1>5 DEF Said, w
<1> QED BY <1>1, <1>6 DEF CurOK

\* What is known of the symbol that is being added stays true.
LEMMA CurStep ==
  ASSUME StrongTypes, CurOK, SearchOnList, HasList, Next
  PROVE  CurOK'
<1>1. /\ \A x \in Names : Kept(x)
      /\ \A x \in Names : Said(x) \subseteq Said(x)'
      /\ \A x \in Names : LinkedTo(x) => LinkedTo(x)'
      /\ \A x \in Names : LinkedTo(x)' => LinkedTo(x) \/ (ActIND /\ x = cur.sym.string)
      /\ Plain' \subseteq Plain
  BY EntriesKept, HistoryKept
<1>2. ASSUME NEW x \in Names PROVE hash'[x].type = "indr" => "INDR_ROW" \in Said(x)' \/ LinkedTo(x)'
  <2>1. CASE hash[x].type = "indr"
    BY <1>1, <2>1 DEF CurOK
  <2>2. CASE hash'[x].type = "indr" /\ hash[x].type # "indr"
    <3>1. ActIND /\ x = This /\ cur.on
      BY <1>1, <2>2 DEF Kept, ActIND, Does
    <3>2. cur.row = "INDR_ROW"
      BY <3>1, EffectIND
    <3>3. x = cur.sym.name \/ LinkedTo(x)
      BY <3>1 DEF CurOK, This
    <3> QED BY <1>1, <3>1, <3>2, <3>3, BeingAdded
  <2> QED BY <2>1, <2>2
<1>3. ASSUME NEW x \in Names, hash'[x].type = "undefw", hash'[x].warnings = <<>>
      PROVE  "UNDEFW_ROW" \in Said(x)'
  <2>1. hash[x].warnings = <<>>
    BY <1>1, <1>3 DEF Kept
  <2>2. CASE hash[x].type = "undefw"
    BY <1>1, <2>1, <2>2 DEF CurOK
  <2>3. CASE hash[x].type # "undefw"
    <3>1. ActWEAK /\ x = This /\ cur.on
      BY <1>1, <1>3, <2>3 DEF Kept, ActWEAK, Does
    <3>2. cur.row = "UNDEFW_ROW" /\ Type(cur.h) = "new"
      BY <3>1, Acting, Table DEF ActWEAK, Does
    <3>3. hash[x].type = "new"
      BY <3>1, <3>2, Acting
    <3>4. x = cur.sym.name
      BY <2>1, <3>1, <3>3 DEF CurOK, This
    <3> QED BY <1>1, <3>1, <3>2, <3>4, BeingAdded
  <2> QED BY <2>2, <2>3
<1>4. ASSUME NEW x \in Names, LinkedTo(x)', hash'[x].warnings = <<>> PROVE hash'[x].type # "new"
  <2>1. hash[x].warnings = <<>>
    BY <1>1, <1>4 DEF Kept
  <2>2. CASE hash[x].type # "new"
    BY <1>1, <2>2 DEF Kept
  <2>3. CASE hash[x].type = "new"
    <3>1. ActIND /\ x = cur.sym.string
      BY <1>1, <1>4, <2>1, <2>3 DEF CurOK
    <3> QED BY <2>1, <2>3, <3>1, EffectIND
  <2> QED BY <2>2, <2>3
<1> DEFINE There == /\ seen[cur.sym.name] # <<>>
                    /\ Last(seen[cur.sym.name]) =
                         [row |-> cur.sym.row, value |-> cur.sym.value, owner |-> cur.owner]
                    /\ cur.row = cur.sym.row \/ (cur.row = "UNDEF_ROW" /\ cur.sym.row = "INDR_ROW")
                    /\ cur.h[1] = cur.sym.name \/ LinkedTo(cur.h[1])
                    /\ cur.sym.name \in Plain => cur.h[1] = cur.sym.name
                    /\ cur.row = "WARN_ROW" => cur.h = Lookup(cur.sym.name)
<1>5. ASSUME cur'.on => There' PROVE CurOK'
  BY <1>2, <1>3, <1>4, <1>5 DEF CurOK
<1>6. cur.on => There
  BY DEF CurOK
<1>7. ASSUME AddOneSymbol PROVE There'
  <2> DEFINE sym == Head(queue.syms)
             it == [row |-> sym.row, value |-> sym.value, owner |-> queue.owner]
  <2>1. /\ sym \in AllSymbols /\ it \in Statements
        /\ cur' = [on |-> TRUE, h |-> Lookup(sym.name), row |-> sym.row, sym |-> sym, owner |-> queue.owner]
        /\ seen'[sym.name] = Append(seen[sym.name], it)
    BY <1>7, SeenEffect
  <2> HIDE DEF sym
  <2>2. /\ cur'.h = Lookup(sym.name) /\ cur'.sym = sym /\ cur'.row = sym.row /\ cur'.owner = queue.owner
        /\ sym.name \in Names /\ seen[sym.name] \in Seq(Statements)
    BY <2>1 DEF StrongTypes, AllSymbols
  <2>3. seen'[sym.name] # <<>> /\ Last(seen'[sym.name]) = it
    <3> HIDE DEF it
    <3> QED BY <2>1, <2>2, Appending
  <2>4. hash' = hash /\ Lookup(sym.name) = <<sym.name, Len(hash[sym.name].warnings)>>
    BY <1>7 DEF AddOneSymbol, Lookup
  <2>5. cur'.h[1] = cur'.sym.name /\ cur'.h = <<cur'.sym.name, Len(hash'[cur'.sym.name].warnings)>>
    BY <2>2, <2>4
  <2>6. Last(seen'[cur'.sym.name]) = it /\ seen'[cur'.sym.name] # <<>>
    BY <2>2, <2>3
  <2> HIDE DEF it
  <2>7. it = [row |-> cur'.sym.row, value |-> cur'.sym.value, owner |-> cur'.owner]
    BY <2>2 DEF it
  <2> QED BY <2>2, <2>5, <2>6, <2>7 DEF Lookup
<1>8. ASSUME cur.on, UNCHANGED seen, cur'.sym = cur.sym, cur'.owner = cur.owner,
             \/ cur'.row = cur.row /\ cur.row # "WARN_ROW"
             \/ cur.row = "INDR_ROW" /\ cur'.row = "UNDEF_ROW",
             \/ cur'.h[1] = cur.h[1]
             \/ hash[This].type = "indr" /\ cur'.h = hash[This].link
      PROVE  There'
  <2>1. This \in Names /\ (hash[This].type = "indr" => hash[This].link[1] \in Names)
    BY <1>8, Acting DEF StrongTypes
  <2>2. hash[This].type = "indr" => LinkedTo(hash[This].link[1]) /\ This \notin Plain
    BY <2>1 DEF CurOK, LinkedTo, Plain
  <2>3. cur.sym.name \in Names
    BY <1>8, BeingAdded
  <2>4. cur'.h[1] \in Names
    BY <1>8, <2>1 DEF This
  <2>5. cur'.h[1] = cur.sym.name \/ \E y \in Names : hash'[y].link[1] = cur'.h[1]
    <3>1. cur'.h[1] = cur.sym.name \/ LinkedTo(cur'.h[1])
      BY <1>6, <1>8, <2>2 DEF This
    <3>2. \A x \in Names : LinkedTo(x) => \E y \in Names : hash'[y].link[1] = x
      BY <1>1 DEF LinkedTo
    <3> QED BY <2>4, <3>1, <3>2
  <2>6. cur.sym.name \in Plain' => cur'.h[1] = cur.sym.name
    BY <1>1, <1>6, <1>8, <2>2, <2>3 DEF This
  <2> QED BY <1>6, <1>8, <2>5, <2>6 DEF LinkedTo
<1>9. ASSUME ActWARNC \/ ActCYCLE \/ ActREFC PROVE There'
  <2>1. cur.on /\ Cycle(LinkOf(cur.h)) /\ UNCHANGED seen
    BY <1>9 DEF ActWARNC, ActCYCLE, ActREFC, Does, Outside
  <2>2. Type(cur.h) \in {"indr", "warn"} /\ cur.row # "WARN_ROW"
    <3>1. cur.row \in Rows /\ Type(cur.h) \in Types \cup {"warn"}
      BY <2>1, Acting
    <3> QED BY <1>9, <3>1, Table DEF ActWARNC, ActCYCLE, ActREFC, Does
  <2> DEFINE h == LinkOf(cur.h)
  <2>3. h = <<This, cur.h[2] - 1>> \/ (hash[This].type = "indr" /\ h = hash[This].link)
    BY <2>1, <2>2, Linked
  <2>4. cur' = [cur EXCEPT !.h = h] /\ cur \in Additions
    BY <2>1, Acting DEF Cycle
  <2> HIDE DEF h
  <2>5. cur'.h = h /\ cur'.row = cur.row /\ cur'.sym = cur.sym /\ cur'.owner = cur.owner
    BY <2>4 DEF Additions
  <2>6. cur'.h[1] = cur.h[1] \/ (hash[This].type = "indr" /\ cur'.h = hash[This].link)
    BY <2>3, <2>5 DEF This
  <2> QED BY <1>8, <2>1, <2>2, <2>5, <2>6
<1>10. ASSUME ActIND, cur'.on PROVE There'
  <2>1. cur' = NotAdding \/ cur' = [cur EXCEPT !.row = "UNDEF_ROW"]
    BY <1>10, EffectIND
  <2>2. cur.row = "INDR_ROW" /\ cur.on /\ UNCHANGED seen
    BY <1>10, EffectIND DEF ActIND, Outside
  <2>3. cur \in Additions
    BY <2>2, Acting
  <2>4. cur' = [cur EXCEPT !.row = "UNDEF_ROW"]
    BY <1>10, <2>1 DEF NotAdding
  <2>5. cur'.h = cur.h /\ cur'.row = "UNDEF_ROW" /\ cur'.sym = cur.sym /\ cur'.owner = cur.owner
    BY <2>3, <2>4 DEF Additions
  <2> QED BY <1>8, <2>2, <2>5
<1>11. ASSUME AddsOne, cur'.on PROVE There'
  <2>1. Done => cur'.on = FALSE
    BY DEF Done, NotAdding
  <2> QED BY <1>9, <1>10, <1>11, <2>1 DEF AddsOne, ActNOACT, ActUND, ActWEAK, ActDEF, ActCOM, ActREF, ActBIG,
     ActCREF, ActMDEF, ActSET, ActWARN, ActMWARN
<1>12. ASSUME AddObject \/ SearchBegins \/ Searches, cur'.on PROVE FALSE
  BY <1>12 DEF AddObject, SearchBegins, Searches, SearchSkips, SearchGoesOn, SearchLooksAtElement, SearchEnds,
     Searching, Idle
<1> QED BY <1>5, <1>7, <1>11, <1>12 DEF Next

-----------------------------------------------------------------------------
(* The list of undefined symbols.                                          *)

\* A symbol that neither joins nor leaves the list.
LEMMA StaysPlaced ==
  ASSUME StrongTypes, SearchOnList, HasList, Next, NEW x \in Names, Placed(x), OnList(x)' <=> OnList(x),
         hash'[x].next = hash[x].next \/ OnList(x) \/ hash[x].type \in {"def", "defw", "indr"},
         hash'[x].type = "undef" => hash[x].type = "undef" \/ <<"add_to_set", x>> \in reports',
         hash'[x].type = "com" => hash[x].type \in {"com", "undef"} \/ Unlisted(x)' \/ hash'[x].warnings # <<>>
  PROVE  Placed(x)'
<1>2. Kept(x) /\ reports \subseteq reports' /\ (Unlisted(x) => Unlisted(x)') /\ hash'[x].type \in Types
  BY EntriesKept, HistoryKept, HashStep DEF HashOK, Entries
<1>3. OnList(x)' => hash'[x].type \notin {"new", "undefw"}
  BY <1>2 DEF Placed, Kept
<1>4. (~OnList(x)' /\ hash'[x].next # "NULL") => hash'[x].type \in {"def", "defw", "indr"}
  BY <1>2 DEF Placed, Kept, Types
<1>5. (hash'[x].type = "undef" /\ <<"add_to_set", x>> \notin reports') => OnList(x)'
  BY <1>2 DEF Placed
<1>6. (hash'[x].type = "com" /\ hash'[x].warnings = <<>> /\ ~Unlisted(x)') => OnList(x)'
  BY <1>2 DEF Placed, Kept, Unlisted
<1> QED BY <1>3, <1>4, <1>5, <1>6 DEF Placed

\* A step that leaves the list as it is.
LEMMA ListStays ==
  ASSUME StrongTypes, ListOK, Next, UNCHANGED <<undefs, undefs_tail>>,
         \A x \in Names : hash'[x].next = hash[x].next \/ (~OnList(x) /\ hash[x].type \in {"def", "defw", "indr"}),
         \A x \in Names : /\ hash'[x].type = "undef" => hash[x].type = "undef" \/ <<"add_to_set", x>> \in reports'
                          /\ hash'[x].type = "com" => \/ hash[x].type \in {"com", "undef"}
                                                       \/ Unlisted(x)' \/ hash'[x].warnings # <<>>,
         search'.pundef \in {"HEAD", search.pundef} \/ (search'.pundef = At /\ At # "NULL")
  PROVE  ListOK'
<1>1. HasList' /\ \A x : OnList(x)' <=> OnList(x)
  BY ListSame DEF ListOK
<1>2. \A x \in Names : Placed(x)'
  BY <1>1, StaysPlaced DEF ListOK
<1>3. search'.pundef = "HEAD" \/ OnList(search'.pundef)
  BY ListFacts DEF ListOK, SearchOnList
<1>4. SearchOnList'
  BY <1>1, <1>3 DEF SearchOnList, OnList
<1> QED BY <1>1, <1>2, <1>4 DEF ListOK

\* A step that puts a symbol on the list.
LEMMA ListGrows ==
  ASSUME StrongTypes, ListOK, Next, NEW n \in Names, Adds(n), UNCHANGED search,
         hash[n].type \in {"new", "undefw"}, hash'[n].type \notin {"new", "undefw"},
         \A x \in Names : /\ hash'[x].type = "undef" => hash[x].type = "undef" \/ x = n
                          /\ hash'[x].type = "com" => hash[x].type = "com" \/ x = n
  PROVE  ListOK'
<1>1. ~OnList(n) /\ hash[n].next = "NULL"
  BY DEF ListOK, Placed
<1>2. HasList' /\ \A x : OnList(x)' <=> OnList(x) \/ x = n
  BY <1>1, ListAdded DEF ListOK, Adds
<1>3. ASSUME NEW x \in Names PROVE Placed(x)'
  <2>1. CASE x = n
    BY <1>2, <2>1 DEF Placed
  <2>2. CASE x # n
    <3>1. hash'[x].next = hash[x].next \/ OnList(x)
      <4>1. "NULL" \notin Names
        BY LinkSymbolsAssumption
      <4>2. x = undefs_tail => OnList(x)
        BY <4>1, ListFacts DEF ListOK
      <4> QED BY <4>2 DEF Adds
    <3> QED BY <1>2, <2>2, <3>1, StaysPlaced DEF ListOK
  <2> QED BY <2>1, <2>2
<1>4. SearchOnList'
  BY <1>2 DEF SearchOnList, OnList, ListOK
<1> QED BY <1>2, <1>3, <1>4 DEF ListOK

\* The list stays whole: what joins it comes after its tail, and what is taken off it is not
\* looked for.
LEMMA ListStep ==
  ASSUME StrongTypes, CurOK, ListOK, Next
  PROVE  ListOK'
<1>1. SearchOnList /\ HasList
  BY DEF ListOK
<1>2. \A x \in Names : Kept(x)
  BY <1>1, EntriesKept
<1>3. ASSUME UNCHANGED <<hash, undefs, undefs_tail>>,
             search'.pundef \in {"HEAD", search.pundef} \/ (search'.pundef = At /\ At # "NULL")
      PROVE  ListOK'
  BY <1>3, ListStays
<1>4. ASSUME AddsOne \/ AddOneSymbol PROVE search' = search
  BY <1>4 DEF AddsOne, AddOneSymbol, Outside,
      ActNOACT, ActUND, ActWEAK, ActDEF, ActCOM, ActREF, ActBIG, ActCREF, ActMDEF, ActIND, ActSET, ActWARNC,
      ActCYCLE, ActREFC, ActWARN, ActMWARN
<1>5. ASSUME cur.on
      PROVE  /\ This \in Names /\ cur.row \in Rows /\ Type(cur.h) \in Types \cup {"warn"}
             /\ Type(cur.h) # "warn" => Type(cur.h) = hash[This].type
  BY <1>5, Acting
<1>6. ASSUME AddsOne, ListFixed, \A x \in Names : (hash'[x].type \in {"undef", "com"}) => hash'[x].type = hash[x].type
      PROVE  ListOK'
  BY <1>4, <1>6, ListStays DEF ListFixed
<1>7. ASSUME ActUND PROVE ListOK'
  <2>1. cur.on
    BY <1>7 DEF ActUND, Does
  <2>2. hash[This].type \in {"new", "undefw"}
    BY <1>5, <1>7, <2>1, Table DEF ActUND, Does
  <2>3. Becomes(This, "undef", cur.owner, hash[This].value) /\ Adds(This)
    BY <1>7, Effects
  <2> QED BY <1>4, <1>5, <1>7, <2>1, <2>2, <2>3, ListGrows DEF Becomes, OthersFixed, Fixed, AddsOne
<1>8. ASSUME ActWEAK PROVE ListOK'
  <2>1. Becomes(This, "undefw", cur.owner, hash[This].value) /\ ListFixed
    BY <1>8, Effects
  <2> QED BY <1>6, <1>8, <2>1 DEF Becomes, OthersFixed, Fixed, AddsOne
<1>9. ASSUME ActDEF PROVE ListOK'
  <2>1. /\ Becomes(This, IF Does("DEFW") THEN "defw" ELSE "def", cur.owner, cur.sym.value)
        /\ ListFixed
    BY <1>9, Effects
  <2> QED BY <1>6, <1>9, <2>1 DEF Becomes, OthersFixed, Fixed, AddsOne
<1>10. ASSUME ActCOM PROVE ListOK'
  <2>1. cur.on
    BY <1>10 DEF ActCOM, Does
  <2>2. cur.row = "COMMON_ROW" /\ Type(cur.h) \in {"new", "undef", "undefw"} /\ hash[This].type = Type(cur.h)
    BY <1>5, <1>10, <2>1, Table DEF ActCOM, Does
  <2>3. /\ Becomes(This, "com", cur.owner, cur.sym.value)
        /\ IF Type(cur.h) = "new" THEN Adds(This) ELSE ListFixed
    BY <1>10, Effects
  <2>4. CASE Type(cur.h) = "new"
    BY <1>4, <1>5, <1>10, <2>1, <2>2, <2>3, <2>4, ListGrows DEF Becomes, OthersFixed, Fixed, AddsOne
  <2>5. CASE Type(cur.h) # "new"
    <3>1. ASSUME NEW x \in Names, x = This, hash[x].type = "undefw", hash'[x].warnings = <<>> PROVE Unlisted(x)'
      <4>1. "UNDEFW_ROW" \in Said(x)
        BY <2>3, <3>1 DEF CurOK, Becomes
      <4>2. x = cur.sym.name \/ LinkedTo(x)
        BY <2>1, <3>1 DEF CurOK, This
      <4>3. cur.sym.row \in Said(cur.sym.name) /\ cur.sym.row = "COMMON_ROW"
        BY <2>1, <2>2, BeingAdded
      <4>4. Unlisted(x)
        BY <4>1, <4>2, <4>3 DEF Unlisted, LinkedTo
      <4> QED BY <1>1, <4>4, HistoryKept
    <3>2. ASSUME NEW x \in Names
          PROVE  /\ hash'[x].type = "undef" => hash[x].type = "undef"
                 /\ hash'[x].type = "com" => \/ hash[x].type \in {"com", "undef"}
                                              \/ Unlisted(x)' \/ hash'[x].warnings # <<>>
      <4>1. CASE x = This
        BY <2>2, <2>3, <2>5, <3>1, <4>1 DEF Becomes
      <4>2. CASE x # This
        BY <2>3, <4>2 DEF Becomes, OthersFixed, Fixed
      <4> QED BY <4>1, <4>2
    <3> QED BY <1>4, <1>10, <2>3, <2>5, <3>2, ListStays DEF ListFixed, AddsOne
  <2> QED BY <2>4, <2>5
<1>11. ASSUME ActREF \/ ActREFC PROVE ListOK'
  <2>1. cur.on
    BY <1>11 DEF ActREF, ActREFC, Does
  <2>2. hash[This].type \in {"def", "defw", "indr"}
    BY <1>5, <1>11, <2>1, Table DEF ActREF, ActREFC, Does
  <2>3. Marks(This)
    BY <1>11, Effects
  <2>4. ASSUME NEW x \in Names
        PROVE  hash'[x].next = hash[x].next \/ (~OnList(x) /\ hash[x].type \in {"def", "defw", "indr"})
    <3>1. OnList(x) => Referenced(x)
      BY <1>1, ListFacts
    <3> QED BY <2>2, <2>3, <3>1 DEF Marks
  <2>5. \A x \in Names : hash'[x].type = hash[x].type
    BY <2>3 DEF Marks, Fixed
  <2> QED BY <1>4, <1>11, <2>3, <2>4, <2>5, ListStays DEF Marks, AddsOne
<1>12. ASSUME ActBIG PROVE ListOK'
  <2>1. /\ Becomes(This, hash[This].type, hash[This].owner, Bigger(hash[This].value, cur.sym.value))
        /\ ListFixed
    BY <1>12, Effects
  <2> HIDE DEF Bigger
  <2>2. \A x \in Names : hash'[x].type = hash[x].type
    BY <2>1 DEF Becomes, OthersFixed, Fixed
  <2> QED BY <1>6, <1>12, <2>1, <2>2 DEF AddsOne
<1>13. ASSUME ActIND PROVE ListOK'
  <2> DEFINE target == cur.sym.string
             fresh == hash[target].type = "new" /\ hash[target].warnings = <<>>
  <2>1. /\ This \in Names /\ target \in Names
        /\ \A y \in Names : (y # This /\ ~(fresh /\ y = target)) => Fixed(y)
        /\ hash'[This].type = "indr"
        /\ (fresh /\ target # This) => hash'[target].type = "undef"
        /\ fresh => Adds(target)
        /\ ~fresh => ListFixed
    BY <1>13, EffectIND
  <2>2. CASE fresh
    <3>1. \A x \in Names : x # target => /\ hash'[x].type = "undef" => hash[x].type = "undef"
                                         /\ hash'[x].type = "com" => hash[x].type = "com"
      BY <2>1, <2>2 DEF Fixed
    <3>2. hash'[target].type \notin {"new", "undefw"}
      BY <2>1, <2>2
    <3>3. \A n \in Names : n = target => Adds(n)
      BY <2>1, <2>2
    <3> HIDE DEF target
    <3> QED BY <1>4, <1>13, <2>1, <2>2, <3>1, <3>2, <3>3, ListGrows DEF AddsOne
  <2>3. CASE ~fresh
    <3>1. \A x \in Names : hash'[x].type \in {"undef", "com"} => hash'[x].type = hash[x].type
      BY <2>1, <2>3 DEF Fixed
    <3> QED BY <1>6, <1>13, <2>1, <2>3, <3>1 DEF AddsOne
  <2> QED BY <2>2, <2>3
<1>14. ASSUME ActSET PROVE ListOK'
  <2>1. /\ ListFixed
        /\ IF build_constructors /\ Type(cur.h) = "new"
           THEN Becomes(This, "undef", cur.owner, hash[This].value) ELSE hash' = hash
    BY <1>14, Effects
  <2>2. <<"add_to_set", This>> \in reports'
    BY <1>14 DEF ActSET, Callback
  <2>3. \A x \in Names : /\ hash'[x].type = "undef" => hash[x].type = "undef" \/ <<"add_to_set", x>> \in reports'
                         /\ hash'[x].type = "com" => hash[x].type = "com"
    BY <2>1, <2>2 DEF Becomes, OthersFixed, Fixed
  <2> QED BY <1>4, <1>14, <2>1, <2>3, ListStays DEF ListFixed, AddsOne
<1>15. ASSUME ActWARNC \/ ActMWARN PROVE ListOK'
  <2>1. PICK w : WarningsAre(This, w)
    BY <1>15, Effects
  <2>2. ListFixed /\ \A x \in Names : hash'[x].type = hash[x].type
    BY <2>1 DEF WarningsAre, OthersFixed, Fixed
  <2> QED BY <1>6, <1>15, <2>2 DEF AddsOne
<1>16. ASSUME SearchSkips PROVE ListOK'
  <2>1. /\ At # "NULL" /\ hash[At].type \notin {"undef", "com"} /\ UNCHANGED <<undefs_tail, reports, seen>>
    BY <1>16 DEF SearchSkips, Wanted
  <2>2. OnList(At) /\ At \in Names
    BY <1>1, <2>1, ListFacts
  <2>3. CASE ~Forgets
    <3>1. search' = [search EXCEPT !.pundef = At] /\ UNCHANGED <<hash, undefs>>
      BY <1>16, <2>3 DEF SearchSkips
    <3>2. search'.pundef = At
      BY <3>1 DEF StrongTypes, TypeOK
    <3> QED BY <1>3, <2>1, <3>1, <3>2
  <2>4. CASE Forgets
    <3>1. /\ \A x \in Names : hash'[x].next = IF x = search.pundef THEN hash[At].next ELSE hash[x].next
          /\ \A x \in Names : hash'[x].type = hash[x].type
          /\ undefs' = (IF search.pundef = "HEAD" THEN hash[At].next ELSE undefs)
          /\ UNCHANGED <<undefs_tail, search>> /\ At # undefs_tail
      <4>1. hash \in [Names -> Entries] /\ "HEAD" \notin Names
        BY LinkSymbolsAssumption DEF StrongTypes, TypeOK, Entries
      <4>2. CASE search.pundef = "HEAD"
        BY <1>16, <2>4, <4>1, <4>2 DEF SearchSkips, Forgets
      <4>3. CASE search.pundef # "HEAD"
        <5>1. hash' = [hash EXCEPT ![search.pundef].next = hash[At].next] /\ UNCHANGED <<undefs, undefs_tail, search>>
          BY <1>16, <2>4, <4>3 DEF SearchSkips
        <5>2. At # undefs_tail
          BY <2>4 DEF Forgets
        <5> QED BY <4>1, <4>3, <5>1, <5>2 DEF Entries
      <4> QED BY <4>2, <4>3
    <3>2. HasList' /\ (\A x : OnList(x)' <=> OnList(x) /\ x # At) /\ \A x : Passed(x)' <=> Passed(x)
      BY <1>1, <2>1, <3>1, ListForgets
    <3>3. ASSUME NEW x \in Names PROVE Placed(x)'
      <4>1. CASE x = At
        <5>1. hash'[x].type = hash[At].type /\ hash[At].type \in Types /\ hash[At].type \notin {"new", "undefw"}
          BY <2>2, <3>1, <4>1 DEF ListOK, Placed, StrongTypes, TypeOK
        <5> QED BY <2>1, <3>2, <4>1, <5>1 DEF Placed, Types
      <4>2. CASE x # At
        <5>1. hash'[x].next = hash[x].next \/ OnList(x)
          BY <1>1, <3>1, LinkSymbolsAssumption DEF SearchOnList
        <5> QED BY <1>1, <1>16, <3>1, <3>2, <4>2, <5>1, StaysPlaced DEF ListOK
      <4> QED BY <4>1, <4>2
    <3>4. SearchOnList'
      <4>1. \A x : (x = search.pundef /\ OnList(x)) => Passed(x)
        <5>1. \A x : OnList(x) => \E list \in Lists : IsList(list) /\ \E i \in DOMAIN list : list[i] = x
          BY DEF OnList, ToSet
        <5>2. \A list \in Lists : \A i \in DOMAIN list : i <= i
          BY ListsAre
        <5> QED BY <5>1, <5>2 DEF Passed
      <4>2. \A x : Passed(x)' => OnList(x)'
        BY DEF Passed, OnList, ToSet
      <4>3. \A x : (x = search.pundef /\ OnList(x)) => OnList(x)'
        BY <3>2, <4>1, <4>2
      <4> QED BY <1>1, <3>1, <4>3 DEF SearchOnList, OnList
    <3> QED BY <3>2, <3>3, <3>4 DEF ListOK
  <2> QED BY <2>3, <2>4
<1>17. ASSUME SearchGoesOn PROVE ListOK'
  <2>1. search' = [search EXCEPT !.pundef = At, !.l = 1] /\ At # "NULL" /\ UNCHANGED <<hash, undefs, undefs_tail>>
    BY <1>17 DEF SearchGoesOn
  <2>2. search'.pundef = At
    BY <2>1 DEF StrongTypes, TypeOK
  <2> QED BY <1>3, <2>1, <2>2
<1>18. ASSUME SearchLooksAtElement PROVE ListOK'
  <2>1. \A n \in Names : /\ hash'[n].next = hash[n].next
                         /\ hash'[n].type = hash[n].type \/ (hash[n].type \in {"undef", "com"} /\ hash'[n].type = "com")
    <3>1. CASE UNCHANGED hash
      BY <3>1
    <3>2. ASSUME NEW el \in Elements, NEW k \in 1..(Len(Contents(el)) + 1), CommonsMade(el, k)
          PROVE  \A n \in Names : /\ hash'[n].next = hash[n].next
                                  /\ \/ hash'[n].type = hash[n].type
                                     \/ hash[n].type \in {"undef", "com"} /\ hash'[n].type = "com"
      <4> TAKE n \in Names
      <4>1. /\ hash'[n].next = hash[n].next
            /\ Commons(el, k, n) = {} => hash'[n] = hash[n]
            /\ Commons(el, k, n) # {} => hash[n].type \in {"undef", "com"} /\ hash'[n].type = "com"
        BY <3>2, EffectCommons
      <4> QED BY <4>1
    <3> QED BY <1>18, <3>1, <3>2, LooksFacts
  <2>2. search'.pundef = search.pundef /\ UNCHANGED <<undefs, undefs_tail>>
    <3>1. \E n, q : search' = [search EXCEPT !.l = n] \/ search' = [search EXCEPT !.l = n, !.pass = q]
      BY <1>18, LooksFacts
    <3>2. UNCHANGED <<undefs, undefs_tail>>
      BY <1>18, LooksFacts
    <3> QED BY <3>1, <3>2 DEF StrongTypes, TypeOK
  <2> QED BY <2>1, <2>2, ListStays
<1>19. ASSUME SearchEnds PROVE ListOK'
  <2>1. search'.pundef \in {"HEAD", search.pundef}
    BY <1>19 DEF SearchEnds, StartsAt, StrongTypes, TypeOK
  <2> QED BY <1>3, <1>19, <2>1 DEF SearchEnds
<1>20. ASSUME AddObject \/ SearchBegins PROVE ListOK'
  <2>1. search'.pundef = "HEAD"
    BY <1>20 DEF AddObject, SearchBegins, StartsAt, NotSearching
  <2> QED BY <1>3, <1>20, <2>1 DEF AddObject, SearchBegins
<1>21. ASSUME AddOneSymbol PROVE ListOK'
  BY <1>3, <1>4, <1>21 DEF AddOneSymbol
<1>22. ASSUME AddsOne PROVE ListOK'
  <2>1. UNCHANGED <<hash, undefs, undefs_tail>> => ListOK'
    BY <1>3, <1>4, <1>22
  <2> QED BY <2>1, <1>7, <1>8, <1>9, <1>10, <1>11, <1>12, <1>13, <1>14, <1>15, <1>22, Effects DEF AddsOne
<1> QED BY <1>16, <1>17, <1>18, <1>19, <1>20, <1>21, <1>22 DEF Next, Searches

-----------------------------------------------------------------------------
(* Strong references reach what indirect symbols stand for.                *)

\* What is new of what was said.
LEMMA SaidGrows ==
  ASSUME StrongTypes, Next, NEW x \in Names, NEW row \in Said(x)', row \notin Said(x)
  PROVE  \/ /\ AddOneSymbol /\ cur' \in Additions /\ cur'.on /\ cur'.row = row /\ cur'.sym.name = x
            /\ cur'.sym.row = row /\ cur'.h = Lookup(x) /\ Lookup(x)[1] = x
         \/ SearchLooksAtElement /\ row = "COMMON_ROW"
<1>1. seen \in [Names -> Seq(Statements)] /\ hash \in [Names -> Entries]
  BY DEF StrongTypes, TypeOK, Entries
<1>2. ASSUME NEW it \in Statements, seen'[x] = Append(seen[x], it) PROVE row = it.row
  <2> DEFINE w == seen[x]
             v == seen'[x]
  <2>1. w \in Seq(Statements) /\ v = Append(w, it)
    BY <1>1, <1>2
  <2>2. PICK i \in DOMAIN v : v[i].row = row
    BY DEF Said
  <2>3. \A j \in DOMAIN w : w[j].row # row
    BY DEF Said
  <2> HIDE DEF w, v
  <2>4. /\ DOMAIN v = 1..(Len(w) + 1) /\ DOMAIN w = 1..Len(w) /\ Len(w) \in Nat
        /\ v[Len(w) + 1] = it /\ \A j \in 1..Len(w) : v[j] = w[j]
    BY <2>1, Appending
  <2>5. i \notin 1..Len(w)
    BY <2>2, <2>3, <2>4
  <2>6. i = Len(w) + 1
    BY <2>2, <2>4, <2>5
  <2> QED BY <2>2, <2>4, <2>6
<1>3. seen'[x] # seen[x]
  BY DEF Said
<1>4. CASE AddOneSymbol
  <2> DEFINE sym == Head(queue.syms)
             it == [row |-> sym.row, value |-> sym.value, owner |-> queue.owner]
  <2>1. /\ sym \in AllSymbols /\ it \in Statements
        /\ cur' = [on |-> TRUE, h |-> Lookup(sym.name), row |-> sym.row, sym |-> sym, owner |-> queue.owner]
        /\ seen'[sym.name] = Append(seen[sym.name], it) /\ (x # sym.name => seen'[x] = seen[x])
    BY <1>4, SeenEffect
  <2>2. queue.owner \in Owners
    BY DEF StrongTypes, TypeOK
  <2> HIDE DEF sym
  <2>3. x = sym.name /\ row = it.row
    <3> HIDE DEF it
    <3> QED BY <1>2, <1>3, <2>1
  <2>4. Lookup(x) = <<x, Len(hash[x].warnings)>> /\ Len(hash[x].warnings) \in Nat
    BY <1>1 DEF Lookup, Entries
  <2>5. cur' \in Additions
    BY <2>1, <2>2, <2>3, <2>4 DEF Additions, AllSymbols
  <2> QED BY <1>4, <2>1, <2>3, <2>4, <2>5
<1>5. CASE SearchLooksAtElement
  <2>1. ASSUME NEW el \in Elements, NEW k \in 1..(Len(Contents(el)) + 1), CommonsMade(el, k)
        PROVE  row = "COMMON_ROW"
    <3>1. Commons(el, k, x) # {}
      BY <1>3, <2>1, EffectCommons
    <3> DEFINE big == Max(Commons(el, k, x))
               it == [row |-> "COMMON_ROW", value |-> big, owner |-> hash[x].owner]
    <3>2. big \in Nat /\ seen'[x] = Append(seen[x], it)
      BY <2>1, <3>1, EffectCommons
    <3> HIDE DEF big
    <3>3. it \in Statements
      BY <1>1, <3>2 DEF Statements, Rows, Entries
    <3>4. row = it.row
      <4> HIDE DEF it
      <4> QED BY <1>2, <3>2, <3>3
    <3> QED BY <3>4
  <2>2. ~(UNCHANGED seen)
    BY <1>3
  <2> QED BY <1>5, <2>1, <2>2, LooksFacts
<1> QED BY <1>3, <1>4, <1>5, SeenEffect

\* What is done with a strong reference.
LEMMA UndefRow ==
  ASSUME StrongTypes, AddsOne, cur.row = "UNDEF_ROW"
  PROVE  \/ ActNOACT /\ Type(cur.h) \in {"undef", "com"}
         \/ (ActUND /\ Type(cur.h) \in {"new", "undefw"}) \/ (ActREF /\ Type(cur.h) \in {"def", "defw"})
         \/ (ActWARNC /\ Type(cur.h) = "warn")
         \/ (ActREFC /\ Type(cur.h) = "indr")
<1>1. cur.on
  BY DEF AddsOne, ActNOACT, ActUND, ActWEAK, ActDEF, ActCOM, ActREF, ActBIG, ActCREF, ActMDEF,
     ActIND, ActSET, ActWARNC, ActCYCLE, ActREFC, ActWARN, ActMWARN, Warns, Does
<1>2. Type(cur.h) \in Types \cup {"warn"} /\ cur.row \in Rows
  BY <1>1, Acting
<1> DEFINE a == link_action["UNDEF_ROW"][Type(cur.h)]
<1>3. a \in {"UND", "NOACT", "REF", "REFC", "WARNC"}
  BY <1>2 DEF link_action, Types
<1>4. /\ a = "NOACT" => Type(cur.h) \in {"undef", "com"}
      /\ a = "UND" => Type(cur.h) \in {"new", "undefw"}
      /\ a = "REF" => Type(cur.h) \in {"def", "defw"}
      /\ a = "REFC" => Type(cur.h) = "indr"
      /\ a = "WARNC" => Type(cur.h) = "warn"
  BY <1>2, Table
<1> HIDE DEF a
<1>5. \A action : Does(action) => action = a
  BY DEF Does, a
<1>6. \/ (ActNOACT /\ a = "NOACT") \/ (ActUND /\ a = "UND") \/ (ActREF /\ a = "REF") \/ (ActWARNC /\ a = "WARNC")
      \/ (ActREFC /\ a = "REFC")
  BY <1>3, <1>5, ActionsDo DEF AddsOne
<1> QED BY <1>4, <1>6

\* What adding a warning does.
LEMMA WarnRow ==
  ASSUME StrongTypes, AddsOne, cur.row = "WARN_ROW"
  PROVE  ActWARN \/ ActMWARN
<1>1. cur.on
  BY DEF AddsOne, ActNOACT, ActUND, ActWEAK, ActDEF, ActCOM, ActREF, ActBIG, ActCREF, ActMDEF,
     ActIND, ActSET, ActWARNC, ActCYCLE, ActREFC, ActWARN, ActMWARN, Warns, Does
<1>2. Type(cur.h) \in Types \cup {"warn"}
  BY <1>1, Acting
<1> DEFINE a == link_action["WARN_ROW"][Type(cur.h)]
<1>3. a \in {"WARN", "CWARN", "MWARN"}
  BY <1>2 DEF link_action, Types
<1> HIDE DEF a
<1>4. \A action : Does(action) => action = a
  BY DEF Does, a
<1> QED BY <1>3, <1>4, ActionsDo DEF AddsOne

\* A strong reference that was on its way has arrived, or is at the next symbol.
LEMMA PushStep ==
  ASSUME StrongTypes, CurOK, ListOK, PushOK, Next
  PROVE  PushOK'
<1>1. SearchOnList /\ HasList
  BY DEF ListOK
<1>2. \A x \in Names : Kept(x)
  BY <1>1, EntriesKept
<1>3. PICK W \in SUBSET Names : Pushed(W)
  BY DEF PushOK
<1>4. ASSUME NEW V \in SUBSET Names, NEW R, Reached' = R,
             \A x \in Names : "UNDEF_ROW" \in Said(x)' => x \in V \cup R,
             \A x \in V \ R : hash'[x].type = "indr" => hash'[x].link[1] \in V \cup R,
             \A x \in V : hash'[x].type \notin {"new", "undefw"}
      PROVE  PushOK'
  <2>1. Pushed(V)'
    BY <1>4 DEF Pushed
  <2> QED BY <2>1 DEF PushOK
<1>5. ASSUME NEW x \in Names, ~AddOneSymbol, "UNDEF_ROW" \in Said(x)' PROVE x \in W \cup Reached
  <2>1. "UNDEF_ROW" \in Said(x)
    BY <1>5, SaidGrows
  <2> QED BY <1>3, <2>1 DEF Pushed
<1>6. \A x \in W : hash'[x].type \notin {"new", "undefw"}
  BY <1>2, <1>3 DEF Pushed, Kept
<1>7. ASSUME NEW x \in W, x \notin Reached, ~ActIND, hash'[x].type = "indr"
      PROVE  hash'[x].link[1] \in W \cup Reached
  <2>1. hash[x].type = "indr" /\ hash'[x].link = hash[x].link
    BY <1>2, <1>7 DEF Kept
  <2> QED BY <1>3, <1>7, <2>1 DEF Pushed
<1>8. ASSUME ~AddOneSymbol, ~ActIND, Reached' = Reached PROVE PushOK'
  BY <1>4, <1>5, <1>6, <1>7, <1>8
<1>9. CASE AddOneSymbol
  <2>1. ~cur.on /\ UNCHANGED hash
    BY <1>9 DEF AddOneSymbol
  <2>2. Reached = {}
    BY <2>1 DEF Reached
  <2>3. ~ActIND
    BY <2>1 DEF ActIND, Does
  <2>4. ASSUME NEW x \in Names, "UNDEF_ROW" \in Said(x)' PROVE x \in W \cup Reached'
    <3>1. CASE "UNDEF_ROW" \in Said(x)
      BY <1>3, <2>2, <3>1 DEF Pushed
    <3>2. CASE "UNDEF_ROW" \notin Said(x)
      <4>1. cur'.on /\ cur'.row = "UNDEF_ROW" /\ cur'.h[1] = x
        BY <2>4, <3>2, SaidGrows
      <4> QED BY <4>1 DEF Reached
    <3> QED BY <3>1, <3>2
  <2> QED BY <1>4, <1>6, <1>7, <2>2, <2>3, <2>4
<1>10. ASSUME cur.on
       PROVE  /\ This \in Names /\ cur.row \in Rows /\ Type(cur.h) \in Types \cup {"warn"}
              /\ Type(cur.h) # "warn" => Type(cur.h) = hash[This].type
              /\ cur \in Additions
  BY <1>10, Acting
<1>11. CASE ActIND
  <2> DEFINE target == cur.sym.string
             fresh == hash[target].type = "new" /\ hash[target].warnings = <<>>
  <2>1. /\ cur.on /\ cur.row = "INDR_ROW" /\ This \in Names
        /\ cur' = IF hash[This].type = "new" /\ ~(fresh /\ target = This)
                  THEN NotAdding ELSE [cur EXCEPT !.row = "UNDEF_ROW"]
    BY <1>11, EffectIND
  <2>2. Reached = {}
    BY <2>1 DEF Reached
  <2>3. (Reached' = {} /\ hash[This].type = "new") \/ Reached' = {This}
    <3>1. CASE cur' = NotAdding /\ hash[This].type = "new"
      BY <3>1 DEF Reached, NotAdding
    <3>2. CASE cur' = [cur EXCEPT !.row = "UNDEF_ROW"]
      <4>1. cur'.on /\ cur'.row = "UNDEF_ROW" /\ cur'.h = cur.h
        BY <1>10, <2>1, <3>2 DEF Additions
      <4> QED BY <4>1 DEF Reached, This
    <3> QED BY <2>1, <3>1, <3>2
  <2>4. ~AddOneSymbol
    BY <2>1 DEF AddOneSymbol
  <2>5. ASSUME NEW x \in W \ Reached', hash'[x].type = "indr" PROVE hash'[x].link[1] \in W
    <3>1. hash[x].type # "new"
      BY <1>3 DEF Pushed
    <3>2. x # This
      BY <2>3, <2>5, <3>1
    <3>3. hash[x].type = "indr" /\ hash'[x].link = hash[x].link
      BY <1>2, <2>5, <3>2 DEF Kept
    <3> QED BY <1>3, <2>2, <3>3 DEF Pushed
  <2> QED BY <1>4, <1>5, <1>6, <2>2, <2>4, <2>5
<1>12. CASE AddsOne /\ ~ActIND
  <2>1. cur.on /\ ~AddOneSymbol
    BY <1>12 DEF AddsOne, ActNOACT, ActUND, ActWEAK, ActDEF, ActCOM, ActREF, ActBIG, ActCREF, ActMDEF,
       ActIND, ActSET, ActWARNC, ActCYCLE, ActREFC, ActWARN, ActMWARN, Warns, Does, AddOneSymbol
  <2>2. CASE cur.row # "UNDEF_ROW"
    <3>1. cur' = NotAdding \/ \E h : cur' = [cur EXCEPT !.h = h]
      BY <1>12 DEF AddsOne, ActNOACT, ActUND, ActWEAK, ActDEF, ActCOM, ActREF, ActBIG, ActCREF, ActMDEF,
         ActSET, ActWARNC, ActCYCLE, ActREFC, ActWARN, ActMWARN, Done, Cycle
    <3>2. ~cur'.on \/ cur'.row = cur.row
      BY <1>10, <2>1, <3>1 DEF NotAdding, Additions
    <3>3. Reached = {} /\ Reached' = {}
      BY <2>2, <3>2 DEF Reached
    <3> QED BY <1>8, <1>12, <2>1, <3>3
  <2>3. CASE cur.row = "UNDEF_ROW"
    <3>1. Reached = {This}
      BY <2>1, <2>3 DEF Reached, This
    <3>2. ASSUME Done, hash'[This].type \notin {"new", "undefw", "indr"} PROVE PushOK'
      <4>1. Reached' = {}
        BY <3>2 DEF Reached, Done, NotAdding
      <4> DEFINE V == W \cup {This}
      <4>2. V \in SUBSET Names /\ V = W \cup Reached
        BY <1>10, <2>1, <3>1
      <4>3. \A x \in V : hash'[x].type = "indr" => hash'[x].link[1] \in V
        BY <1>7, <1>12, <3>1, <3>2, <4>2
      <4>4. \A x \in V : hash'[x].type \notin {"new", "undefw"}
        BY <1>6, <3>2
      <4> HIDE DEF V
      <4> QED BY <1>4, <1>5, <2>1, <4>1, <4>2, <4>3, <4>4
    <3>3. \/ ActNOACT /\ Type(cur.h) \in {"undef", "com"}
          \/ ActUND \/ (ActREF /\ Type(cur.h) \in {"def", "defw"}) \/ (ActWARNC /\ Type(cur.h) = "warn")
          \/ (ActREFC /\ Type(cur.h) = "indr")
      BY <1>12, <2>3, UndefRow
    <3>4. CASE ActNOACT /\ Type(cur.h) \in {"undef", "com"}
      BY <1>10, <2>1, <3>2, <3>4 DEF ActNOACT
    <3>5. CASE ActUND
      <4>1. hash'[This].type = "undef"
        BY <3>5, Effects DEF Becomes
      <4> QED BY <3>2, <3>5, <4>1 DEF ActUND
    <3>6. CASE ActREF /\ Type(cur.h) \in {"def", "defw"}
      <4>1. hash'[This].type = hash[This].type
        BY <1>10, <2>1, <3>6, Effects DEF Marks, Fixed
      <4> QED BY <1>10, <2>1, <3>2, <3>6, <4>1 DEF ActREF
    <3>7. CASE ActWARNC /\ Type(cur.h) = "warn"
      <4>1. cur' = [cur EXCEPT !.h = LinkOf(cur.h)] /\ LinkOf(cur.h)[1] = This
        BY <2>1, <3>7, Linked DEF ActWARNC, Cycle
      <4>2. cur'.on /\ cur'.row = "UNDEF_ROW" /\ cur'.h = LinkOf(cur.h)
        <5> HIDE DEF LinkOf
        <5> QED BY <1>10, <2>1, <2>3, <4>1 DEF Additions
      <4>3. Reached' = Reached
        BY <3>1, <4>1, <4>2 DEF Reached
      <4> QED BY <1>8, <1>12, <2>1, <4>3
    <3>8. CASE ActREFC /\ Type(cur.h) = "indr"
      <4> DEFINE h == LinkOf(cur.h)
      <4>1. cur' = [cur EXCEPT !.h = h] /\ h = hash[This].link /\ hash[This].type = "indr"
        BY <2>1, <3>8, Linked DEF ActREFC, Cycle
      <4> HIDE DEF h
      <4>2. cur'.on /\ cur'.row = "UNDEF_ROW" /\ cur'.h = h
        BY <1>10, <2>1, <2>3, <4>1 DEF Additions
      <4>3. Reached' = {hash[This].link[1]} /\ \A y \in Names : Fixed(y)
        BY <3>8, <4>1, <4>2, Effects DEF Reached, Marks
      <4> DEFINE V == W \cup {This}
      <4>4. V \in SUBSET Names /\ V = W \cup Reached
        BY <1>10, <2>1, <3>1
      <4>5. \A x \in V \ Reached' : hash'[x].type = "indr" => hash'[x].link[1] \in V \cup Reached'
        BY <1>7, <1>10, <1>12, <2>1, <3>1, <4>3, <4>4 DEF Fixed
      <4>6. \A x \in V : hash'[x].type \notin {"new", "undefw"}
        BY <1>6, <1>10, <2>1, <4>1, <4>3 DEF Fixed
      <4> HIDE DEF V
      <4> QED BY <1>4, <1>5, <2>1, <4>4, <4>5, <4>6
    <3> QED BY <3>3, <3>4, <3>5, <3>6, <3>7, <3>8
  <2> QED BY <2>2, <2>3
<1>13. CASE AddObject \/ SearchBegins \/ Searches
  <2>1. ~cur.on /\ UNCHANGED cur /\ ~AddOneSymbol
    BY <1>13 DEF AddObject, SearchBegins, Searches, SearchSkips, SearchGoesOn, SearchLooksAtElement, SearchEnds,
       Searching, Idle, AddOneSymbol
  <2>2. Reached' = Reached /\ ~ActIND
    BY <2>1 DEF Reached, ActIND, Does
  <2> QED BY <1>8, <2>1, <2>2
<1> QED BY <1>9, <1>11, <1>12, <1>13 DEF Next

-----------------------------------------------------------------------------
(* What is said of a symbol decides what it is.                            *)

\* One more statement.
LEMMA OneMoreSaid ==
  ASSUME NEW s \in Seq(Statements), NEW it \in Statements, NEW r, r = Append(s, it)
  PROVE  /\ DOMAIN r = 1..(Len(s) + 1) /\ DOMAIN s = 1..Len(s) /\ Len(s) \in Nat
         /\ r[Len(s) + 1] = it /\ \A i \in 1..Len(s) : r[i] = s[i] /\ i \in DOMAIN r
         /\ \A rows : Has(r, rows) <=> Has(s, rows) \/ it.row \in rows
         /\ \A rows, i : IsFirst(s, rows, i) => IsFirst(r, rows, i) /\ i \in DOMAIN s /\ r[i] = s[i]
         /\ \A rows, i : (IsFirst(r, rows, i) /\ Has(s, rows)) => IsFirst(s, rows, i)
         /\ \A rows : (~Has(s, rows) /\ it.row \in rows) => IsFirst(r, rows, Len(s) + 1)
<1>1. /\ DOMAIN r = 1..(Len(s) + 1) /\ DOMAIN s = 1..Len(s) /\ Len(s) \in Nat
      /\ r[Len(s) + 1] = it /\ \A i \in 1..Len(s) : r[i] = s[i]
  BY Appending
<1>2. \A i \in 1..Len(s) : i \in DOMAIN r /\ i # Len(s) + 1 /\ ~(Len(s) + 1 < i)
  BY <1>1
<1>3. \A i \in 1..(Len(s) + 1) : i \in 1..Len(s) \/ i = Len(s) + 1
  BY <1>1
<1>4. ASSUME NEW rows PROVE Has(r, rows) <=> Has(s, rows) \/ it.row \in rows
  <2>1. Has(r, rows) => Has(s, rows) \/ it.row \in rows
    BY <1>1, <1>3 DEF Has
  <2>2. Has(s, rows) => Has(r, rows)
    BY <1>1, <1>2 DEF Has
  <2>3. it.row \in rows => Has(r, rows)
    BY <1>1 DEF Has
  <2> QED BY <2>1, <2>2, <2>3
<1>5. ASSUME NEW rows, NEW i, IsFirst(s, rows, i) PROVE IsFirst(r, rows, i) /\ i \in DOMAIN s /\ r[i] = s[i]
  <2>1. i \in 1..Len(s) /\ s[i].row \in rows /\ \A j \in 1..(i - 1) : s[j].row \notin rows
    BY <1>1, <1>5 DEF IsFirst
  <2>2. \A j \in 1..(i - 1) : j \in 1..Len(s)
    BY <1>1, <2>1
  <2> QED BY <1>1, <1>2, <2>1, <2>2 DEF IsFirst
<1>6. ASSUME NEW rows, NEW i, IsFirst(r, rows, i), Has(s, rows) PROVE IsFirst(s, rows, i)
  <2>1. i \in 1..(Len(s) + 1) /\ r[i].row \in rows /\ \A j \in 1..(i - 1) : r[j].row \notin rows
    BY <1>1, <1>6 DEF IsFirst
  <2>2. i \in 1..Len(s)
    <3>1. PICK k \in 1..Len(s) : s[k].row \in rows
      BY <1>1, <1>6 DEF Has
    <3>2. i = Len(s) + 1 => k \in 1..(i - 1)
      BY <1>1
    <3> QED BY <1>1, <1>3, <2>1, <3>1, <3>2
  <2>3. \A j \in 1..(i - 1) : j \in 1..Len(s)
    BY <1>1, <2>2
  <2> QED BY <1>1, <2>1, <2>2, <2>3 DEF IsFirst
<1>7. ASSUME NEW rows, ~Has(s, rows), it.row \in rows PROVE IsFirst(r, rows, Len(s) + 1)
  <2>1. \A j \in 1..((Len(s) + 1) - 1) : j \in 1..Len(s)
    BY <1>1
  <2> QED BY <1>1, <1>7, <2>1 DEF IsFirst, Has
<1> QED BY <1>1, <1>2, <1>4, <1>5, <1>6, <1>7

\* The first is one.
LEMMA OneFirst ==
  ASSUME NEW s \in Seq(Statements), NEW rows, NEW i, NEW j, IsFirst(s, rows, i), IsFirst(s, rows, j)
  PROVE  i = j
<1>1. i \in 1..Len(s) /\ j \in 1..Len(s) /\ Len(s) \in Nat
  BY DEF IsFirst
<1>2. CASE i < j
  <2>1. i \in 1..(j - 1)
    BY <1>1, <1>2
  <2> QED BY <2>1 DEF IsFirst
<1>3. CASE j < i
  <2>1. j \in 1..(i - 1)
    BY <1>1, <1>3
  <2> QED BY <2>1 DEF IsFirst
<1> QED BY <1>1, <1>2, <1>3

\* What the table makes of an entry.
Resolves(e, it, f) ==
  \/ /\ f.type = e.type /\ f.owner = e.owner /\ f.value = e.value
     /\ it.row \in {"UNDEF_ROW", "UNDEFW_ROW", "DEF_ROW", "DEFW_ROW", "COMMON_ROW", "WARN_ROW"}
     /\ it.row = "UNDEF_ROW" => e.type \in {"undef", "com", "def", "defw"}
     /\ it.row = "UNDEFW_ROW" => e.type # "new"
     /\ it.row = "DEF_ROW" => e.type = "def"
     /\ it.row = "DEFW_ROW" => e.type \in {"def", "defw", "com"}
     /\ it.row = "COMMON_ROW" => e.type \in {"def", "defw"}
  \/ it.row = "UNDEF_ROW" /\ e.type \in {"new", "undefw"} /\ f.type = "undef"
  \/ it.row = "UNDEFW_ROW" /\ e.type = "new" /\ f.type = "undefw"
  \/ it.row = "DEF_ROW" /\ e.type # "def" /\ f.type = "def" /\ f.owner = it.owner /\ f.value = it.value
  \/ it.row = "DEFW_ROW" /\ e.type \in {"new", "undef", "undefw"} /\ f.type = "defw" /\ f.owner = it.owner
  \/ it.row = "COMMON_ROW" /\ e.type \in {"new", "undef", "undefw"} /\ f.type = "com" /\ f.value = it.value
  \/ it.row = "COMMON_ROW" /\ e.type = "com" /\ f.type = "com" /\ f.value = Bigger(e.value, it.value)

\* An entry stays right when a statement is added and the entry becomes what the statement makes
\* of it.
LEMMA RightStep ==
  ASSUME NEW s \in Seq(Statements), NEW it \in Statements, NEW e, NEW f, e.value \in Nat,
         Right(e, s), Resolves(e, it, f), NEW r, r = Append(s, it)
  PROVE  Right(f, r)
<1> DEFINE n == Len(s) + 1
<1>1. /\ DOMAIN r = 1..n /\ DOMAIN s = 1..Len(s) /\ Len(s) \in Nat
      /\ r[n] = it /\ \A i \in 1..Len(s) : r[i] = s[i] /\ i \in DOMAIN r
      /\ \A rows : Has(r, rows) <=> Has(s, rows) \/ it.row \in rows
      /\ \A rows, i : IsFirst(s, rows, i) => IsFirst(r, rows, i) /\ i \in DOMAIN s /\ r[i] = s[i]
      /\ \A rows : (~Has(s, rows) /\ it.row \in rows) => IsFirst(r, rows, n)
  <2> DEFINE q == Append(s, it)
  <2>1. /\ DOMAIN q = 1..n /\ DOMAIN s = 1..Len(s) /\ Len(s) \in Nat
        /\ q[n] = it /\ \A i \in 1..Len(s) : q[i] = s[i] /\ i \in DOMAIN q
        /\ \A rows : Has(q, rows) <=> Has(s, rows) \/ it.row \in rows
        /\ \A rows, i : IsFirst(s, rows, i) => IsFirst(q, rows, i) /\ i \in DOMAIN s /\ q[i] = s[i]
        /\ \A rows : (~Has(s, rows) /\ it.row \in rows) => IsFirst(q, rows, n)
    BY OneMoreSaid
  <2>2. r = q
    OBVIOUS
  <2> HIDE DEF q, n
  <2> QED BY ONLY <2>1, <2>2
<1>2. it.value \in Nat /\ n \in DOMAIN r /\ \A i \in 1..Len(s) : s[i].value \in Nat
  <2>1. \A i \in 1..Len(s) : s[i] \in Statements
    OBVIOUS
  <2>2. n \in DOMAIN r
    BY <1>1
  <2> QED BY <2>1, <2>2 DEF Statements
<1>3. \A i \in 1..n : i \in 1..Len(s) \/ i = n
  BY <1>1
<1> HIDE DEF n
<1>4. (\A rows : Has(s, rows) => Has(r, rows)) /\ \A rows : it.row \notin rows => (Has(r, rows) <=> Has(s, rows))
  BY <1>1
<1>5. CASE /\ f.type = e.type /\ f.owner = e.owner /\ f.value = e.value
           /\ it.row \in {"UNDEF_ROW", "UNDEFW_ROW", "DEF_ROW", "DEFW_ROW", "COMMON_ROW", "WARN_ROW"}
           /\ it.row = "UNDEF_ROW" => e.type \in {"undef", "com", "def", "defw"}
           /\ it.row = "UNDEFW_ROW" => e.type # "new"
           /\ it.row = "DEF_ROW" => e.type = "def"
           /\ it.row = "DEFW_ROW" => e.type \in {"def", "defw", "com"}
           /\ it.row = "COMMON_ROW" => e.type \in {"def", "defw"}
  <2>1. f.type \in {"new", "undef", "undefw"} =>
          /\ ~Has(r, {"DEF_ROW", "DEFW_ROW", "COMMON_ROW"})
          /\ f.type = "undef" <=> Has(r, {"UNDEF_ROW"})
          /\ f.type = "new" => ~Has(r, {"UNDEFW_ROW"})
          /\ f.type = "undefw" => Has(r, {"UNDEFW_ROW"})
    BY <1>1, <1>5 DEF Right
  <2>2. f.type = "def" =>
          \E i \in DOMAIN r : /\ IsFirst(r, {"DEF_ROW"}, i)
                              /\ f.owner = r[i].owner /\ f.value = r[i].value
    BY <1>1, <1>5 DEF Right
  <2>3. f.type \in {"defw", "com"} => ~Has(r, {"DEF_ROW"})
    BY <1>1, <1>5 DEF Right
  <2>4. f.type = "defw" =>
          \E i \in DOMAIN r : IsFirst(r, WeakRows, i) /\ r[i].row = "DEFW_ROW" /\ f.owner = r[i].owner
    BY <1>1, <1>5 DEF Right
  <2>5. f.type = "com" =>
          /\ \E i \in DOMAIN r : IsFirst(r, WeakRows, i) /\ r[i].row = "COMMON_ROW"
          /\ \E i \in DOMAIN r : r[i].row = "COMMON_ROW" /\ r[i].value = f.value
          /\ \A i \in DOMAIN r : r[i].row = "COMMON_ROW" => r[i].value <= f.value
    <3> SUFFICES ASSUME f.type = "com"
                 PROVE  /\ \E i \in DOMAIN r : IsFirst(r, WeakRows, i) /\ r[i].row = "COMMON_ROW"
                        /\ \E i \in DOMAIN r : r[i].row = "COMMON_ROW" /\ r[i].value = f.value
                        /\ \A i \in DOMAIN r : r[i].row = "COMMON_ROW" => r[i].value <= f.value
      OBVIOUS
    <3>1. /\ \E i \in DOMAIN s : IsFirst(s, WeakRows, i) /\ s[i].row = "COMMON_ROW"
          /\ \E i \in DOMAIN s : s[i].row = "COMMON_ROW" /\ s[i].value = e.value
          /\ \A i \in DOMAIN s : s[i].row = "COMMON_ROW" => s[i].value <= e.value
      BY <1>5 DEF Right
    <3>2. it.row # "COMMON_ROW"
      BY <1>5
    <3> QED BY <1>1, <1>3, <1>5, <3>1, <3>2
  <2> QED BY <1>5, <2>1, <2>2, <2>3, <2>4, <2>5 DEF Right
<1>6. CASE it.row = "UNDEF_ROW" /\ e.type \in {"new", "undefw"} /\ f.type = "undef"
  BY <1>1, <1>6 DEF Right
<1>7. CASE it.row = "UNDEFW_ROW" /\ e.type = "new" /\ f.type = "undefw"
  BY <1>1, <1>7 DEF Right
<1>8. CASE it.row = "DEF_ROW" /\ e.type # "def" /\ f.type = "def" /\ f.owner = it.owner /\ f.value = it.value
  <2>1. ~Has(s, {"DEF_ROW"})
    BY <1>8 DEF Right, Has
  <2>2. IsFirst(r, {"DEF_ROW"}, n)
    BY <1>1, <1>8, <2>1
  <2> QED BY <1>1, <1>2, <1>8, <2>2 DEF Right
<1>9. CASE it.row = "DEFW_ROW" /\ e.type \in {"new", "undef", "undefw"} /\ f.type = "defw" /\ f.owner = it.owner
  <2>1. ~Has(s, WeakRows) /\ ~Has(s, {"DEF_ROW"})
    BY <1>9 DEF Right, Has, WeakRows
  <2>2. IsFirst(r, WeakRows, n) /\ ~Has(r, {"DEF_ROW"})
    BY <1>1, <1>9, <2>1 DEF WeakRows
  <2> QED BY <1>1, <1>2, <1>9, <2>2 DEF Right
<1>10. CASE it.row = "COMMON_ROW" /\ e.type \in {"new", "undef", "undefw"} /\ f.type = "com" /\ f.value = it.value
  <2>1. ~Has(s, WeakRows) /\ ~Has(s, {"DEF_ROW"}) /\ ~Has(s, {"COMMON_ROW"})
    BY <1>10 DEF Right, Has, WeakRows
  <2>2. IsFirst(r, WeakRows, n) /\ ~Has(r, {"DEF_ROW"})
    BY <1>1, <1>10, <2>1 DEF WeakRows
  <2>3. \A i \in 1..Len(s) : s[i].row # "COMMON_ROW"
    BY <1>1, <2>1 DEF Has
  <2>4. \A i \in 1..n : r[i].row = "COMMON_ROW" => i = n
    BY <1>1, <1>3, <2>3
  <2> QED BY <1>1, <1>2, <1>10, <2>2, <2>4 DEF Right
<1>11. CASE it.row = "COMMON_ROW" /\ e.type = "com" /\ f.type = "com" /\ f.value = Bigger(e.value, it.value)
  <2>1. /\ ~Has(s, {"DEF_ROW"})
        /\ \E i \in DOMAIN s : IsFirst(s, WeakRows, i) /\ s[i].row = "COMMON_ROW"
        /\ \E i \in DOMAIN s : s[i].row = "COMMON_ROW" /\ s[i].value = e.value
        /\ \A i \in DOMAIN s : s[i].row = "COMMON_ROW" => s[i].value <= e.value
    BY <1>11 DEF Right
  <2>2. ~Has(r, {"DEF_ROW"}) /\ \E i \in DOMAIN r : IsFirst(r, WeakRows, i) /\ r[i].row = "COMMON_ROW"
    BY <1>1, <1>11, <2>1
  <2>3. f.value \in {e.value, it.value} /\ e.value <= f.value /\ it.value <= f.value /\ f.value \in Nat
    BY <1>2, <1>11 DEF Bigger
  <2>4. \E i \in DOMAIN r : r[i].row = "COMMON_ROW" /\ r[i].value = f.value
    BY <1>1, <1>2, <1>11, <2>1, <2>3
  <2>5. \A i \in DOMAIN r : r[i].row = "COMMON_ROW" => r[i].value <= f.value
    <3>1. \A i \in 1..Len(s) : r[i].row = "COMMON_ROW" => r[i].value <= f.value
      <4> TAKE i \in 1..Len(s)
      <4>1. r[i] = s[i] /\ s[i].value \in Nat /\ (s[i].row = "COMMON_ROW" => s[i].value <= e.value)
        BY <1>1, <1>2, <2>1
      <4> QED BY <2>3, <4>1
    <3> QED BY <1>1, <1>3, <2>3, <3>1
  <2> QED BY <1>11, <2>2, <2>4, <2>5 DEF Right
<1> QED BY <1>5, <1>6, <1>7, <1>8, <1>9, <1>10, <1>11 DEF Resolves

\* A second strong definition is one that is told from the first.
LEMMA ClashStep ==
  ASSUME NEW s \in Seq(Statements), NEW it \in Statements
  PROVE  /\ (it.row # "DEF_ROW" \/ ~Has(s, {"DEF_ROW"})) => (Clash(Append(s, it)) <=> Clash(s))
         /\ it.row = "DEF_ROW" =>
              \A i : IsFirst(s, {"DEF_ROW"}, i) =>
                (Clash(Append(s, it)) <=> Clash(s) \/ it.value = 0 \/ it.value # s[i].value)
<1> DEFINE r == Append(s, it)
           n == Len(s) + 1
<1>1. /\ DOMAIN r = 1..n /\ DOMAIN s = 1..Len(s) /\ Len(s) \in Nat
      /\ r[n] = it /\ \A i \in 1..Len(s) : r[i] = s[i] /\ i \in DOMAIN r
      /\ \A rows, i : IsFirst(s, rows, i) => IsFirst(r, rows, i) /\ i \in DOMAIN s /\ r[i] = s[i]
      /\ \A rows, i : (IsFirst(r, rows, i) /\ Has(s, rows)) => IsFirst(s, rows, i)
      /\ \A rows : (~Has(s, rows) /\ it.row \in rows) => IsFirst(r, rows, n)
  BY ZenonT(40), OneMoreSaid
<1>2. /\ \A i \in 1..n : (i \in 1..Len(s) \/ i = n) /\ ~(i > n)
      /\ \A i \in 1..Len(s) : n > i /\ i \in 1..n
      /\ n \in 1..n
  BY <1>1
<1> HIDE DEF r, n
<1>3. Clash(s) => Clash(r)
  <2> SUFFICES ASSUME Clash(s) PROVE Clash(r)
    OBVIOUS
  <2>1. PICK i \in 1..Len(s), j \in 1..Len(s) :
          /\ IsFirst(s, {"DEF_ROW"}, i) /\ j > i /\ s[j].row = "DEF_ROW"
          /\ s[j].value = 0 \/ s[j].value # s[i].value
    BY <1>1 DEF Clash
  <2> QED BY <1>1, <2>1 DEF Clash
<1>4. ASSUME Clash(r), ~Clash(s)
      PROVE  \E i \in 1..Len(s) : /\ IsFirst(s, {"DEF_ROW"}, i) /\ it.row = "DEF_ROW"
                                  /\ it.value = 0 \/ it.value # s[i].value
  <2>1. PICK i \in 1..n, j \in 1..n :
          /\ IsFirst(r, {"DEF_ROW"}, i) /\ j > i /\ r[j].row = "DEF_ROW"
          /\ r[j].value = 0 \/ r[j].value # r[i].value
    BY <1>1, <1>4 DEF Clash
  <2>2. i \in 1..Len(s)
    BY <1>2, <2>1
  <2>3. Has(s, {"DEF_ROW"})
    BY <1>1, <2>1, <2>2 DEF Has, IsFirst
  <2>4. IsFirst(s, {"DEF_ROW"}, i)
    BY <1>1, <2>1, <2>3
  <2>5. j = n
    <3>1. j \in 1..Len(s) => Clash(s)
      BY <1>1, <2>1, <2>2, <2>4 DEF Clash
    <3> QED BY <1>2, <1>4, <3>1
  <2> QED BY <1>1, <2>1, <2>2, <2>4, <2>5
<1>5. ASSUME NEW i, IsFirst(s, {"DEF_ROW"}, i), it.row = "DEF_ROW", it.value = 0 \/ it.value # s[i].value
      PROVE  Clash(r)
  <2>1. i \in 1..Len(s) /\ IsFirst(r, {"DEF_ROW"}, i) /\ r[i] = s[i] /\ n > i /\ i \in 1..n
    BY <1>1, <1>2, <1>5
  <2> QED BY <1>1, <1>2, <1>5, <2>1 DEF Clash
<1>6. (it.row # "DEF_ROW" \/ ~Has(s, {"DEF_ROW"})) => (Clash(r) <=> Clash(s))
  <2>1. \A i \in 1..Len(s) : IsFirst(s, {"DEF_ROW"}, i) => Has(s, {"DEF_ROW"})
    BY DEF IsFirst, Has
  <2> QED BY <1>3, <1>4, <2>1
<1>7. ASSUME it.row = "DEF_ROW", NEW i, IsFirst(s, {"DEF_ROW"}, i)
      PROVE  Clash(r) <=> Clash(s) \/ it.value = 0 \/ it.value # s[i].value
  <2>1. \A k : IsFirst(s, {"DEF_ROW"}, k) => k = i
    BY <1>7, OneFirst
  <2> QED BY <1>3, <1>4, <1>5, <1>7, <2>1
<1> HIDE DEF Clash
<1> QED BY <1>6, <1>7 DEF r

\* A sequence is all but its last and its last.
LEMMA SplitLast ==
  ASSUME NEW S, NEW w \in Seq(S), w # <<>>
  PROVE  Front(w) \in Seq(S) /\ Last(w) \in S /\ w = Append(Front(w), Last(w))
<1>1. Len(w) \in Nat /\ Len(w) > 0
  OBVIOUS
<1>2. Front(w) \in Seq(S) /\ Len(Front(w)) = Len(w) - 1 /\ \A i \in 1..(Len(w) - 1) : Front(w)[i] = w[i]
  <2> DEFINE m == Len(w) - 1
             u == SubSeq(w, 1, m)
  <2>1. m \in Nat /\ m <= Len(w) /\ \A i \in 1..m : i \in 1..Len(w)
    BY <1>1
  <2>2. u = [i \in 1..m |-> w[i]]
    <3> HIDE DEF m
    <3> QED BY <2>1
  <2>3. \A i \in 1..m : w[i] \in S
    BY <2>1
  <2>4. u \in Seq(S)
    <3> HIDE DEF m, u
    <3> QED BY <2>1, <2>2, <2>3
  <2>5. Len(u) = m /\ \A i \in 1..m : u[i] = w[i]
    <3> HIDE DEF m, u
    <3> QED BY <2>1, <2>2, <2>4
  <2> QED BY <2>4, <2>5 DEF Front
<1>3. Last(w) \in S /\ Last(w) = w[Len(w)]
  BY <1>1 DEF Last
<1> DEFINE v == Append(Front(w), Last(w))
<1>4. v \in Seq(S) /\ Len(v) = Len(w) /\ \A i \in 1..Len(w) : v[i] = w[i]
  BY <1>1, <1>2, <1>3
<1>5. v = w
  <2> HIDE DEF v
  <2> QED BY <1>4
<1> QED BY <1>2, <1>3, <1>5

\* Only the type, the owner and the value matter.
LEMMA SameRight ==
  ASSUME NEW e, NEW f, NEW s, Right(e, s), f.type = e.type, f.owner = e.owner, f.value = e.value
  PROVE  Right(f, s)
BY DEF Right

\* A symbol that has nothing to do with indirection is added under its own name.
LEMMA PlainAdding ==
  ASSUME StrongTypes, CurOK, cur.on, This \in Plain
  PROVE  LET it == [row |-> cur.sym.row, value |-> cur.sym.value, owner |-> cur.owner]
         IN /\ This = cur.sym.name /\ cur.row = cur.sym.row /\ cur.row \in Rows \ {"INDR_ROW", "SET_ROW"}
            /\ it \in Statements /\ Heard(This) \in Seq(Statements)
            /\ seen[This] = Append(Heard(This), it)
<1> DEFINE it == [row |-> cur.sym.row, value |-> cur.sym.value, owner |-> cur.owner]
<1>1. This \in Names /\ cur.sym \in AllSymbols /\ cur.owner \in Owners
  BY Acting
<1>2. This = cur.sym.name
  BY <1>1 DEF CurOK, Plain, LinkedTo, This
<1>3. cur.sym.row \in Said(This)
  BY <1>2, BeingAdded
<1>4. cur.sym.row \in Rows \ {"INDR_ROW", "SET_ROW"}
  BY <1>1, <1>3 DEF Plain, AllSymbols
<1>5. cur.row = cur.sym.row
  BY <1>4 DEF CurOK
<1>6. it \in Statements
  BY <1>1, <1>4 DEF Statements, AllSymbols
<1>7. seen[This] \in Seq(Statements) /\ seen[This] # <<>> /\ Last(seen[This]) = it
  BY <1>1, <1>2 DEF StrongTypes, CurOK
<1>8. Heard(This) = Front(seen[This])
  BY DEF Heard, This
<1> HIDE DEF it
<1>9. Heard(This) \in Seq(Statements) /\ seen[This] = Append(Heard(This), it)
  BY <1>7, <1>8, SplitLast
<1> QED BY <1>2, <1>4, <1>5, <1>6, <1>9 DEF it

\* Multiple definitions are reported by ActMDEF only.
LEMMA ReportsStep ==
  ASSUME Next, NEW x
  PROVE  (~ActMDEF \/ x # This) =>
           (<<"multiple_definition", x>> \in reports' <=> <<"multiple_definition", x>> \in reports)
<1>1. CASE ActMDEF
  BY <1>1 DEF ActMDEF, Callback
<1>2. CASE AddsOne /\ ~ActMDEF
  <2>1. \/ reports' = reports \/ reports' = reports \cup {<<"multiple_common", This>>}
        \/ reports' = reports \cup {<<"warning", This>>}
        \/ reports' = reports \cup {<<"add_to_set", This>>}
    BY <1>2 DEF AddsOne, Callback, ActNOACT, ActUND, ActWEAK, ActDEF, ActCOM, ActREF, ActBIG, ActCREF,
       ActIND, ActSET, ActWARNC, ActCYCLE, ActREFC, ActWARN, ActMWARN
  <2> QED BY <2>1
<1>3. CASE AddObject \/ SearchBegins \/ AddOneSymbol \/ Searches
  BY <1>3 DEF Searches, AddObject, SearchBegins, AddOneSymbol, SearchSkips, SearchGoesOn, SearchEnds,
     SearchLooksAtElement
<1> QED BY <1>1, <1>2, <1>3 DEF Next

\* What the actions make of such a symbol.
LEMMA ThisResolved ==
  ASSUME StrongTypes, CurOK, AddsOne, This \in Plain, Right(hash[This], Heard(This))
  PROVE  LET it == [row |-> cur.sym.row, value |-> cur.sym.value, owner |-> cur.owner]
             e == hash[This]
             f == hash'[This]
         IN \/ /\ cur' = NotAdding /\ Resolves(e, it, f)
               /\ ActMDEF \/ it.row # "DEF_ROW" \/ e.type # "def"
            \/ /\ cur'.on /\ cur'.h[1] = This /\ ~ActMDEF
               /\ f.type = e.type /\ f.owner = e.owner /\ f.value = e.value
<1> DEFINE it == [row |-> cur.sym.row, value |-> cur.sym.value, owner |-> cur.owner]
           type == Type(cur.h)
           Same == /\ hash'[This].type = hash[This].type /\ hash'[This].owner = hash[This].owner
                   /\ hash'[This].value = hash[This].value
           Goal == \/ /\ cur' = NotAdding /\ Resolves(hash[This], it, hash'[This])
                      /\ ActMDEF \/ it.row # "DEF_ROW" \/ hash[This].type # "def"
                   \/ cur'.on /\ cur'.h[1] = This /\ ~ActMDEF /\ Same
<1>1. cur.on
  BY DEF AddsOne, ActNOACT, ActUND, ActWEAK, ActDEF, ActCOM, ActREF, ActBIG, ActCREF, ActMDEF,
     ActIND, ActSET, ActWARNC, ActCYCLE, ActREFC, ActWARN, ActMWARN, Warns, Does
<1>2. /\ This \in Names /\ cur.row \in Rows /\ type \in Types \cup {"warn"}
      /\ type # "warn" => type = hash[This].type
      /\ cur \in Additions
  BY <1>1, Acting
<1>3. /\ cur.row = cur.sym.row /\ cur.row \in Rows \ {"INDR_ROW", "SET_ROW"}
      /\ it.row = cur.row /\ it.value = cur.sym.value /\ it.owner = cur.owner
  BY <1>1, PlainAdding
<1>4. type \in {"new", "undef", "undefw", "def", "defw", "com", "warn"}
  BY <1>2 DEF Right
<1>5. \A action : Does(action) <=> link_action[cur.row][type] = action
  BY <1>1 DEF Does
<1> DEFINE a == link_action[cur.row][type]
<1>6. /\ a = "NOACT" => /\ cur.row \in {"UNDEF_ROW", "UNDEFW_ROW", "DEFW_ROW"}
                        /\ cur.row = "UNDEF_ROW" => type \in {"undef", "com"}
                        /\ cur.row = "UNDEFW_ROW" => type \in {"undef", "undefw", "com"}
                        /\ cur.row = "DEFW_ROW" => type \in {"def", "defw", "com"}
      /\ a = "UND" => cur.row = "UNDEF_ROW" /\ type \in {"new", "undefw"}
      /\ a = "WEAK" => cur.row = "UNDEFW_ROW" /\ type = "new"
      /\ a = "DEF" => cur.row = "DEF_ROW" /\ type \in {"new", "undef", "undefw", "defw"}
      /\ a = "DEFW" => cur.row = "DEFW_ROW" /\ type \in {"new", "undef", "undefw"}
      /\ a = "CDEF" => cur.row = "DEF_ROW" /\ type = "com"
      /\ a = "COM" => cur.row = "COMMON_ROW" /\ type \in {"new", "undef", "undefw"}
      /\ a = "REF" => cur.row \in {"UNDEF_ROW", "UNDEFW_ROW"} /\ type \in {"def", "defw"}
      /\ a = "BIG" => cur.row = "COMMON_ROW" /\ type = "com"
      /\ a = "CREF" => cur.row = "COMMON_ROW" /\ type \in {"def", "defw"}
      /\ a = "MDEF" => cur.row = "DEF_ROW" /\ type = "def"
      /\ a \in {"WARN", "MWARN", "CWARN"} => cur.row = "WARN_ROW"
      /\ a \in {"WARNC", "CYCLE"} => type = "warn"
      /\ a \notin {"IND", "CIND", "MIND", "SET", "REFC"}
  BY <1>2, <1>3, <1>4, Table
<1> HIDE DEF a, type, it
<1>7. ASSUME hash' = hash PROVE Same
  BY <1>7
<1>8. ASSUME ActNOACT PROVE Goal
  <2>1. a = "NOACT" /\ Same /\ cur' = NotAdding
    BY <1>5, <1>8 DEF ActNOACT, Done, a
  <2> QED BY <1>2, <1>3, <1>6, <2>1 DEF Resolves
<1>9. ASSUME ActUND PROVE Goal
  <2>1. a = "UND" /\ hash'[This].type = "undef" /\ cur' = NotAdding
    BY <1>5, <1>9, Effects DEF ActUND, Done, a, Becomes
  <2> QED BY <1>2, <1>3, <1>6, <2>1 DEF Resolves
<1>10. ASSUME ActWEAK PROVE Goal
  <2>1. a = "WEAK" /\ hash'[This].type = "undefw" /\ cur' = NotAdding
    BY <1>5, <1>10, Effects DEF ActWEAK, Done, a, Becomes
  <2> QED BY <1>2, <1>3, <1>6, <2>1 DEF Resolves
<1>11. ASSUME ActDEF PROVE Goal
  <2>1. /\ a \in {"DEF", "DEFW", "CDEF"} /\ (Does("DEFW") <=> a = "DEFW") /\ cur' = NotAdding
        /\ hash'[This].type = (IF Does("DEFW") THEN "defw" ELSE "def")
        /\ hash'[This].owner = cur.owner /\ hash'[This].value = cur.sym.value
    BY <1>5, <1>11, Effects DEF ActDEF, Done, a, Becomes
  <2> QED BY <1>2, <1>3, <1>6, <2>1 DEF Resolves
<1>12. ASSUME ActCOM PROVE Goal
  <2>1. a = "COM" /\ hash'[This].type = "com" /\ hash'[This].value = cur.sym.value /\ cur' = NotAdding
    BY <1>5, <1>12, Effects DEF ActCOM, Done, a, Becomes
  <2> QED BY <1>2, <1>3, <1>6, <2>1 DEF Resolves
<1>13. ASSUME ActREF PROVE Goal
  <2>1. a = "REF" /\ Same /\ cur' = NotAdding
    BY <1>2, <1>5, <1>13, Effects DEF ActREF, Done, a, Marks, Fixed
  <2> QED BY <1>2, <1>3, <1>6, <2>1 DEF Resolves
<1>14. ASSUME ActBIG PROVE Goal
  <2>1. /\ a = "BIG" /\ hash'[This].type = hash[This].type
        /\ hash'[This].value = Bigger(hash[This].value, cur.sym.value) /\ cur' = NotAdding
    BY <1>5, <1>14, Effects DEF ActBIG, Done, a, Becomes
  <2> QED BY <1>2, <1>3, <1>6, <2>1 DEF Resolves
<1>15. ASSUME ActCREF PROVE Goal
  <2>1. a = "CREF" /\ Same /\ cur' = NotAdding
    BY <1>5, <1>15 DEF ActCREF, Done, a
  <2> QED BY <1>2, <1>3, <1>6, <2>1 DEF Resolves
<1>16. ASSUME ActMDEF PROVE Goal
  <2>1. a \in {"MDEF", "MIND"} /\ Same /\ cur' = NotAdding
    BY <1>5, <1>16 DEF ActMDEF, Done, a
  <2> QED BY <1>2, <1>3, <1>6, <1>16, <2>1 DEF Resolves
<1>17. ~ActIND /\ ~ActSET /\ ~ActREFC
  BY <1>5, <1>6 DEF ActIND, ActSET, ActREFC, a
<1>18. ASSUME ActWARNC \/ ActCYCLE PROVE Goal
  <2>1. a \in {"WARNC", "CYCLE"} /\ cur' = [cur EXCEPT !.h = LinkOf(cur.h)] /\ ~ActMDEF
    BY <1>5, <1>18 DEF ActWARNC, ActCYCLE, ActMDEF, Cycle, a
  <2>2. LinkOf(cur.h)[1] = This
    BY <1>1, <1>6, <2>1, Linked DEF type
  <2>3. cur'.on /\ cur'.h = LinkOf(cur.h)
    <3> HIDE DEF LinkOf
    <3> QED BY <1>2, <2>1 DEF Additions
  <2>4. Same
    BY <1>2, <1>18, Effects DEF WarningsAre
  <2> QED BY <2>1, <2>2, <2>3, <2>4
<1>19. ASSUME ActWARN \/ ActMWARN PROVE Goal
  <2>1. a \in {"WARN", "MWARN", "CWARN"} /\ cur' = NotAdding
    BY <1>5, <1>19 DEF ActWARN, ActMWARN, Warns, Done, a
  <2>2. Same
    BY <1>2, <1>19, Effects DEF WarningsAre
  <2> QED BY <1>2, <1>3, <1>6, <2>1, <2>2 DEF Resolves
<1>20. Goal
  <2> HIDE DEF Goal
  <2> QED BY <1>8, <1>9, <1>10, <1>11, <1>12, <1>13, <1>14, <1>15, <1>16, <1>17, <1>18, <1>19 DEF AddsOne
<1> QED BY <1>20 DEF it

\* The report of a multiple definition of such a symbol.
LEMMA ThisReported ==
  ASSUME StrongTypes, CurOK, ActMDEF, This \in Plain, Right(hash[This], Heard(This))
  PROVE  \E i : /\ IsFirst(Heard(This), {"DEF_ROW"}, i) /\ cur.sym.row = "DEF_ROW"
                /\ <<"multiple_definition", This>> \in reports' <=>
                     \/ <<"multiple_definition", This>> \in reports
                     \/ cur.sym.value = 0 \/ cur.sym.value # Heard(This)[i].value
<1>1. cur.on
  BY DEF ActMDEF, Does
<1>2. /\ This \in Names /\ cur.row \in Rows /\ Type(cur.h) \in Types \cup {"warn"}
      /\ Type(cur.h) # "warn" => Type(cur.h) = hash[This].type
      /\ cur.sym.value \in Nat
  BY <1>1, Acting DEF AllSymbols
<1>3. cur.row = cur.sym.row /\ cur.row \notin {"INDR_ROW", "SET_ROW"}
  BY <1>1, PlainAdding
<1>4. Type(cur.h) # "indr"
  BY <1>2 DEF Right
<1>5. cur.row = "DEF_ROW" /\ Type(cur.h) = "def" /\ ~Does("MIND")
  BY <1>1, <1>2, <1>3, <1>4, Table DEF ActMDEF, Does
<1>6. hash[This].type = "def"
  BY <1>2, <1>5
<1>7. PICK i \in DOMAIN Heard(This) : IsFirst(Heard(This), {"DEF_ROW"}, i) /\ hash[This].value = Heard(This)[i].value
  BY <1>6 DEF Right
<1>8. Harmless <=> cur.sym.value # 0 /\ cur.sym.value = Heard(This)[i].value
  BY <1>5, <1>7 DEF Harmless
<1>9. /\ Harmless => reports' = reports
      /\ ~Harmless => reports' = reports \cup {<<"multiple_definition", This>>}
  BY DEF ActMDEF, Callback
<1>10. <<"multiple_definition", This>> \in reports' <=>
         <<"multiple_definition", This>> \in reports \/ ~Harmless
  <2>1. Harmless => ~(cur.sym.value = 0 \/ cur.sym.value # Heard(This)[i].value)
    BY <1>8
  <2>2. Harmless => <<"multiple_definition", This>> \notin reports'
                    \/ <<"multiple_definition", This>> \in reports
    BY <1>9
  <2> HIDE DEF Harmless
  <2> QED BY <1>9, <2>2
<1> QED BY <1>3, <1>5, <1>7, <1>8, <1>10

\* Symbols are resolved to what was said of them.
LEMMA PlainStep ==
  ASSUME StrongTypes, CurOK, SearchOnList, HasList, PlainOK, Next
  PROVE  PlainOK'
<1> DEFINE Told(x) == <<"multiple_definition", x>> \in reports
<1>1. seen \in [Names -> Seq(Statements)] /\ hash \in [Names -> Entries]
  BY DEF StrongTypes, TypeOK, Entries
<1> SUFFICES ASSUME NEW x \in Names, x \in Plain'
             PROVE  Right(hash'[x], Heard(x)') /\ (Told(x)' <=> Clash(Heard(x)'))
  BY DEF PlainOK, Plain
<1>2. x \in Plain /\ Right(hash[x], Heard(x)) /\ (Told(x) <=> Clash(Heard(x)))
  BY HistoryKept DEF PlainOK
<1>3. hash[x].type \in {"new", "undef", "undefw", "def", "defw", "com"} /\ hash[x].value \in Nat
  BY <1>1, <1>2 DEF Right, Entries
<1>4. hash[x].type # "def" => ~Has(Heard(x), {"DEF_ROW"})
  BY <1>2, <1>3 DEF Right, Has
<1>5. (~ActMDEF \/ x # This) => (Told(x)' <=> Told(x))
  BY ReportsStep
<1>6. ASSUME Heard(x)' = Heard(x), ~ActMDEF \/ x # This,
             hash'[x].type = hash[x].type, hash'[x].owner = hash[x].owner, hash'[x].value = hash[x].value
      PROVE  Right(hash'[x], Heard(x)') /\ (Told(x)' <=> Clash(Heard(x)'))
  <2> DEFINE e == hash[x]
             f == hash'[x]
             s == Heard(x)
  <2>1. Right(f, s)
    <3>1. Right(e, s) /\ f.type = e.type /\ f.owner = e.owner /\ f.value = e.value
      BY <1>2, <1>6
    <3> HIDE DEF e, f, s
    <3> QED BY <3>1, SameRight
  <2> HIDE DEF Heard
  <2> QED BY <1>2, <1>5, <1>6, <2>1
<1>7. ASSUME NEW it \in Statements, Heard(x)' = Append(Heard(x), it), Heard(x) \in Seq(Statements),
             Resolves(hash[x], it, hash'[x])
      PROVE  /\ Right(hash'[x], Heard(x)')
             /\ (it.row # "DEF_ROW" \/ hash[x].type # "def") => (Clash(Heard(x)') <=> Clash(Heard(x)))
             /\ it.row = "DEF_ROW" =>
                  \A i : IsFirst(Heard(x), {"DEF_ROW"}, i) =>
                    (Clash(Heard(x)') <=> Clash(Heard(x)) \/ it.value = 0 \/ it.value # Heard(x)[i].value)
  <2> DEFINE e == hash[x]
             f == hash'[x]
             s == Heard(x)
             r == Heard(x)'
  <2>1. s \in Seq(Statements) /\ r = Append(s, it) /\ Right(e, s) /\ Resolves(e, it, f) /\ e.value \in Nat
    BY <1>2, <1>3, <1>7
  <2>2. e.type # "def" => ~Has(s, {"DEF_ROW"})
    BY <1>4
  <2> HIDE DEF e, f, s, r
  <2>3. Right(f, r)
    BY <2>1, RightStep
  <2>4. /\ (it.row # "DEF_ROW" \/ e.type # "def") => (Clash(r) <=> Clash(s))
        /\ it.row = "DEF_ROW" =>
             \A i : IsFirst(s, {"DEF_ROW"}, i) =>
               (Clash(r) <=> Clash(s) \/ it.value = 0 \/ it.value # s[i].value)
    BY <2>1, <2>2, ClashStep
  <2> QED BY <2>3, <2>4 DEF e, f, s, r
<1>8. ASSUME cur.on, cur.h[1] # x, cur' = NotAdding \/ cur'.sym = cur.sym
      PROVE  ~(cur'.on /\ cur'.h[1] = x)
  <2>1. (cur'.on /\ cur'.h[1] = x) => cur'.sym.name = x
    <3>1. CurOK'
      BY CurStep
    <3> QED BY <3>1 DEF CurOK, Plain, LinkedTo
  <2>2. cur.sym.name # x
    BY <1>2, <1>8 DEF CurOK
  <2> QED BY <1>8, <2>1, <2>2 DEF NotAdding
<1>9. CASE AddsOne /\ This = x
  <2>1. cur.on
    BY <1>9 DEF AddsOne, ActNOACT, ActUND, ActWEAK, ActDEF, ActCOM, ActREF, ActBIG, ActCREF, ActMDEF,
       ActIND, ActSET, ActWARNC, ActCYCLE, ActREFC, ActWARN, ActMWARN, Warns, Does
  <2> DEFINE it == [row |-> cur.sym.row, value |-> cur.sym.value, owner |-> cur.owner]
  <2>2. it \in Statements /\ Heard(x) \in Seq(Statements) /\ seen[x] = Append(Heard(x), it)
    BY <1>2, <1>9, <2>1, PlainAdding
  <2>3. UNCHANGED seen
    BY <1>9 DEF Outside, AddsOne, ActNOACT, ActUND, ActWEAK, ActDEF, ActCOM, ActREF, ActBIG, ActCREF, ActMDEF,
       ActIND, ActSET, ActWARNC, ActCYCLE, ActREFC, ActWARN, ActMWARN
  <2>4. \/ /\ cur' = NotAdding /\ Resolves(hash[x], it, hash'[x])
           /\ ActMDEF \/ it.row # "DEF_ROW" \/ hash[x].type # "def"
        \/ /\ cur'.on /\ cur'.h[1] = x /\ ~ActMDEF
           /\ hash'[x].type = hash[x].type /\ hash'[x].owner = hash[x].owner /\ hash'[x].value = hash[x].value
    BY <1>2, <1>9, ThisResolved
  <2>5. CASE /\ cur' = NotAdding /\ Resolves(hash[x], it, hash'[x])
             /\ ActMDEF \/ it.row # "DEF_ROW" \/ hash[x].type # "def"
    <3>1. Heard(x)' = Append(Heard(x), it)
      BY <2>2, <2>3, <2>5 DEF Heard, NotAdding
    <3>2. it.row = cur.sym.row /\ it.value = cur.sym.value
      OBVIOUS
    <3> HIDE DEF it, Heard
    <3>3. /\ Right(hash'[x], Heard(x)')
          /\ (it.row # "DEF_ROW" \/ hash[x].type # "def") => (Clash(Heard(x)') <=> Clash(Heard(x)))
          /\ it.row = "DEF_ROW" =>
               \A i : IsFirst(Heard(x), {"DEF_ROW"}, i) =>
                 (Clash(Heard(x)') <=> Clash(Heard(x)) \/ it.value = 0 \/ it.value # Heard(x)[i].value)
      BY <1>7, <2>2, <2>5, <3>1
    <3>4. CASE ActMDEF
      <4>1. \E i : /\ IsFirst(Heard(x), {"DEF_ROW"}, i) /\ cur.sym.row = "DEF_ROW"
                   /\ Told(x)' <=> Told(x) \/ cur.sym.value = 0 \/ cur.sym.value # Heard(x)[i].value
        BY <1>2, <1>9, <3>4, ThisReported
      <4> HIDE DEF Told
      <4> QED BY <1>2, <3>2, <3>3, <4>1
    <3>5. CASE ~ActMDEF
      <4>1. it.row # "DEF_ROW" \/ hash[x].type # "def"
        BY <2>5, <3>5
      <4> HIDE DEF Told
      <4> QED BY <1>2, <1>5, <3>3, <3>5, <4>1
    <3> QED BY <3>4, <3>5
  <2>6. CASE /\ cur'.on /\ cur'.h[1] = x /\ ~ActMDEF
             /\ hash'[x].type = hash[x].type /\ hash'[x].owner = hash[x].owner /\ hash'[x].value = hash[x].value
    <3>1. Heard(x)' = Heard(x)
      BY <1>9, <2>1, <2>3, <2>6 DEF Heard, This
    <3> QED BY <1>6, <2>6, <3>1
  <2> QED BY <2>4, <2>5, <2>6
<1>10. CASE AddsOne /\ This # x
  <2>1. cur.on
    BY <1>10 DEF AddsOne, ActNOACT, ActUND, ActWEAK, ActDEF, ActCOM, ActREF, ActBIG, ActCREF, ActMDEF,
       ActIND, ActSET, ActWARNC, ActCYCLE, ActREFC, ActWARN, ActMWARN, Warns, Does
  <2>2. UNCHANGED seen
    BY <1>10 DEF Outside, AddsOne, ActNOACT, ActUND, ActWEAK, ActDEF, ActCOM, ActREF, ActBIG, ActCREF, ActMDEF,
       ActIND, ActSET, ActWARNC, ActCYCLE, ActREFC, ActWARN, ActMWARN
  <2>3. cur' = NotAdding \/ cur'.sym = cur.sym
    <3>1. cur \in Additions
      BY <2>1, Acting
    <3>2. cur' = NotAdding \/ (\E h : cur' = [cur EXCEPT !.h = h]) \/ cur' = [cur EXCEPT !.row = "UNDEF_ROW"]
      <4>1. CASE ActIND
        BY <4>1, EffectIND
      <4>2. CASE ~ActIND
        BY <1>10, <4>2 DEF AddsOne, ActNOACT, ActUND, ActWEAK, ActDEF, ActCOM, ActREF, ActBIG, ActCREF, ActMDEF,
           ActSET, ActWARNC, ActCYCLE, ActREFC, ActWARN, ActMWARN, Done, Cycle
      <4> QED BY <4>1, <4>2
    <3> QED BY <3>1, <3>2 DEF Additions
  <2>4. Heard(x)' = Heard(x)
    BY <1>8, <1>10, <2>1, <2>2, <2>3 DEF Heard, This
  <2>5. hash'[x].type = hash[x].type /\ hash'[x].owner = hash[x].owner /\ hash'[x].value = hash[x].value
    <3>1. CASE ActIND
      <4>1. x # cur.sym.string
        <5>1. This \in Names /\ hash'[This].link = Lookup(cur.sym.string)
          BY <3>1, EffectIND
        <5> QED BY <5>1 DEF Plain, Lookup
      <4> QED BY <1>10, <3>1, <4>1, EffectIND DEF Fixed
    <3>2. CASE ~ActIND
      BY <1>10, <3>2, Effects DEF AddsOne, Becomes, Marks, WarningsAre, OthersFixed, Fixed
    <3> QED BY <3>1, <3>2
  <2> QED BY <1>6, <1>10, <2>4, <2>5
<1>11. CASE AddOneSymbol
  <2> DEFINE sym == Head(queue.syms)
             it == [row |-> sym.row, value |-> sym.value, owner |-> queue.owner]
  <2>1. /\ it \in Statements
        /\ cur' = [on |-> TRUE, h |-> Lookup(sym.name), row |-> sym.row, sym |-> sym, owner |-> queue.owner]
        /\ seen'[sym.name] = Append(seen[sym.name], it)
        /\ x # sym.name => seen'[x] = seen[x]
    BY <1>11, SeenEffect
  <2>2. ~cur.on /\ UNCHANGED hash /\ ~ActMDEF
    BY <1>11 DEF AddOneSymbol, ActMDEF, Does
  <2> HIDE DEF sym, it
  <2>3. cur'.on /\ cur'.h[1] = sym.name
    BY <2>1 DEF Lookup
  <2>4. CASE x = sym.name
    <3>1. Front(seen'[x]) = seen[x]
      <4> DEFINE w == seen[x]
      <4>1. w \in Seq(Statements) /\ seen'[x] = Append(w, it)
        BY <1>1, <2>1, <2>4
      <4> HIDE DEF w
      <4>2. Front(Append(w, it)) = w
        BY <2>1, <4>1, Appending
      <4> QED BY <4>1, <4>2 DEF w
    <3> QED BY <1>6, <2>2, <2>3, <2>4, <3>1 DEF Heard
  <2>5. CASE x # sym.name
    BY <1>6, <2>1, <2>2, <2>3, <2>5 DEF Heard
  <2> QED BY <2>4, <2>5
<1>12. CASE SearchLooksAtElement
  <2>1. ~cur.on /\ UNCHANGED cur /\ ~ActMDEF
    BY <1>12, LooksFacts DEF Idle, ActMDEF, Does
  <2>2. Heard(x) = seen[x] /\ Heard(x)' = seen'[x]
    BY <2>1 DEF Heard
  <2>3. CASE UNCHANGED <<hash, seen>>
    BY <1>6, <2>1, <2>2, <2>3
  <2>4. ASSUME NEW el \in Elements, NEW k \in 1..(Len(Contents(el)) + 1), CommonsMade(el, k)
        PROVE  Right(hash'[x], Heard(x)') /\ (Told(x)' <=> Clash(Heard(x)'))
    <3>1. CASE Commons(el, k, x) = {}
      <4>1. hash'[x] = hash[x] /\ seen'[x] = seen[x]
        BY <2>4, <3>1, EffectCommons
      <4> QED BY <1>6, <2>1, <2>2, <4>1
    <3>2. CASE Commons(el, k, x) # {}
      <4> DEFINE big == Max(Commons(el, k, x))
                 it == [row |-> "COMMON_ROW", value |-> big, owner |-> hash[x].owner]
      <4>1. /\ hash[x].type \in {"undef", "com"} /\ hash'[x].type = "com" /\ big \in Nat
            /\ hash'[x].value = Bigger(IF hash[x].type = "com" THEN hash[x].value ELSE 0, big)
            /\ seen'[x] = Append(seen[x], it)
        BY <2>4, <3>2, EffectCommons
      <4> HIDE DEF big
      <4>2. it \in Statements /\ it.row = "COMMON_ROW" /\ it.value = big
        BY <1>1, <4>1 DEF Statements, Rows, Entries
      <4>3. Resolves(hash[x], it, hash'[x])
        BY <4>1, <4>2 DEF Resolves, Bigger
      <4> HIDE DEF it, Heard
      <4>4. Right(hash'[x], Heard(x)') /\ (Clash(Heard(x)') <=> Clash(Heard(x)))
        BY <1>1, <1>7, <2>2, <4>1, <4>2, <4>3
      <4> HIDE DEF Told
      <4> QED BY <1>2, <1>5, <2>1, <4>4
    <3> QED BY <3>1, <3>2
  <2> QED BY <1>12, <2>3, <2>4, LooksFacts
<1>13. CASE AddObject \/ SearchBegins \/ SearchGoesOn \/ SearchEnds
  <2>1. UNCHANGED <<cur, seen, hash>> /\ ~cur.on
    BY <1>13 DEF AddObject, SearchBegins, SearchGoesOn, SearchEnds, Idle, Searching
  <2> QED BY <1>6, <2>1 DEF Heard, ActMDEF, Does
<1>14. CASE SearchSkips
  <2>1. UNCHANGED <<cur, seen>> /\ ~cur.on
    BY <1>14 DEF SearchSkips, Idle, Searching
  <2>2. hash'[x].type = hash[x].type /\ hash'[x].owner = hash[x].owner /\ hash'[x].value = hash[x].value
    <3>1. CASE hash' = hash
      BY <3>1
    <3>2. CASE \E p, n : hash' = [hash EXCEPT ![p].next = n]
      BY <1>1, <3>2 DEF Entries
    <3> QED BY <1>14, <3>1, <3>2 DEF SearchSkips
  <2> QED BY <1>6, <2>1, <2>2 DEF Heard, ActMDEF, Does
<1> QED BY <1>9, <1>10, <1>11, <1>12, <1>13, <1>14 DEF Next, Searches

-----------------------------------------------------------------------------
(* Warnings are issued.                                                    *)

\* The actions concern the symbol that is being added.
LEMMA AddsFacts ==
  ASSUME AddsOne
  PROVE  cur.on /\ UNCHANGED <<queue, search, archive_pass, element_pass, seen, left>>
BY DEF AddsOne, ActNOACT, ActUND, ActWEAK, ActDEF, ActCOM, ActREF, ActBIG, ActCREF, ActMDEF,
   ActIND, ActSET, ActWARNC, ActCYCLE, ActREFC, ActWARN, ActMWARN, Warns, Does, Outside

\* What a search does to the list.
LEMMA SkipFacts ==
  ASSUME StrongTypes, SearchSkips
  PROVE  /\ At # "NULL" /\ hash[At].type \notin {"undef", "com"} /\ search.l = 1 /\ Searching
         /\ UNCHANGED <<undefs_tail, queue, cur, archive_pass, element_pass, seen, reports, left>>
         /\ \A x \in Names : /\ hash'[x].type = hash[x].type /\ hash'[x].link = hash[x].link
                             /\ hash'[x].warnings = hash[x].warnings
         /\ \/ At = undefs_tail /\ search' = [search EXCEPT !.pundef = At] /\ UNCHANGED <<hash, undefs>>
            \/ /\ At # undefs_tail /\ UNCHANGED search
               /\ \A x \in Names : hash'[x].next = IF x = search.pundef THEN hash[At].next ELSE hash[x].next
               /\ undefs' = (IF search.pundef = "HEAD" THEN hash[At].next ELSE undefs)
<1>1. hash \in [Names -> Entries] /\ "HEAD" \notin Names
  BY LinkSymbolsAssumption DEF StrongTypes, TypeOK, Entries
<1>2. /\ At # "NULL" /\ hash[At].type \notin {"undef", "com"} /\ search.l = 1 /\ Searching
      /\ UNCHANGED <<undefs_tail, queue, cur, archive_pass, element_pass, seen, reports, left>>
  BY DEF SearchSkips, Wanted
<1>3. CASE ~Forgets
  <2>1. search' = [search EXCEPT !.pundef = At] /\ UNCHANGED <<hash, undefs>>
    BY <1>3 DEF SearchSkips
  <2>2. At = undefs_tail
    BY <1>3 DEF Forgets
  <2>3. \A x \in Names : /\ hash'[x].type = hash[x].type /\ hash'[x].link = hash[x].link
                         /\ hash'[x].warnings = hash[x].warnings
    BY <2>1
  <2> HIDE DEF At, Searching
  <2> QED BY <1>2, <2>1, <2>2, <2>3
<1>4. CASE Forgets /\ search.pundef = "HEAD"
  <2>1. undefs' = hash[At].next /\ UNCHANGED <<hash, search>>
    BY <1>4 DEF SearchSkips
  <2>2. At # undefs_tail
    BY <1>4 DEF Forgets
  <2>3. \A x \in Names : hash'[x].next = IF x = search.pundef THEN hash[At].next ELSE hash[x].next
    BY <1>1, <1>4, <2>1
  <2>4. \A x \in Names : /\ hash'[x].type = hash[x].type /\ hash'[x].link = hash[x].link
                         /\ hash'[x].warnings = hash[x].warnings
    BY <2>1
  <2> HIDE DEF At, Searching
  <2> QED BY <1>2, <1>4, <2>1, <2>2, <2>3, <2>4
<1>5. CASE Forgets /\ search.pundef # "HEAD"
  <2>1. hash' = [hash EXCEPT ![search.pundef].next = hash[At].next] /\ UNCHANGED <<undefs, undefs_tail, search>>
    BY <1>5 DEF SearchSkips
  <2>2. At # undefs_tail
    BY <1>5 DEF Forgets
  <2> DEFINE n == hash[At].next
  <2>3. hash' = [hash EXCEPT ![search.pundef].next = n]
    BY <2>1
  <2> HIDE DEF n
  <2>4. /\ \A x \in Names : /\ hash'[x].type = hash[x].type /\ hash'[x].link = hash[x].link
                            /\ hash'[x].warnings = hash[x].warnings
        /\ \A x \in Names : hash'[x].next = IF x = search.pundef THEN n ELSE hash[x].next
    BY <1>1, <2>3 DEF Entries
  <2> HIDE DEF At, Searching
  <2> QED BY <1>2, <1>5, <2>1, <2>2, <2>4 DEF n
<1> QED BY <1>3, <1>4, <1>5

\* An element that is looked at leaves the list and the wrappers alone.
LEMMA LookLeaves ==
  ASSUME StrongTypes, SearchLooksAtElement
  PROVE  \A x \in Names : hash'[x].next = hash[x].next /\ hash'[x].warnings = hash[x].warnings
<1>1. ASSUME NEW el \in Elements, NEW k \in 1..(Len(Contents(el)) + 1), CommonsMade(el, k)
      PROVE  \A x \in Names : hash'[x].next = hash[x].next /\ hash'[x].warnings = hash[x].warnings
  BY <1>1, EffectCommons
<1> QED BY <1>1, LooksFacts

\* A mark stays.
LEMMA MarksKept ==
  ASSUME StrongTypes, SearchOnList, HasList, Next, NEW x \in Names, Referenced(x)
  PROVE  Referenced(x)'
<1>1. "NULL" \notin Names
  BY LinkSymbolsAssumption
<1>2. ASSUME hash'[x].next = hash[x].next, UNCHANGED undefs_tail PROVE Referenced(x)'
  BY <1>2 DEF Referenced
<1>3. ASSUME NEW n \in Names, Adds(n) PROVE Referenced(x)'
  BY <1>1, <1>3 DEF Adds, Referenced
<1>4. CASE AddsOne
  <2>1. cur.on /\ This \in Names
    BY <1>4, AddsFacts, Acting
  <2>2. CASE ActIND
    BY <1>2, <1>3, <2>2, EffectIND DEF ListFixed
  <2>3. CASE ActREF \/ ActREFC
    BY <1>1, <1>2, <2>1, <2>3, Effects DEF Marks, Referenced
  <2>4. CASE ActUND \/ ActCOM
    BY <1>2, <1>3, <2>1, <2>4, Effects DEF ListFixed
  <2>5. CASE ~ActIND /\ ~ActREF /\ ~ActREFC /\ ~ActUND /\ ~ActCOM
    BY <1>2, <1>4, <2>5, Effects DEF AddsOne, ListFixed, WarningsAre
  <2> QED BY <2>2, <2>3, <2>4, <2>5
<1>5. CASE SearchSkips
  <2>1. CASE hash'[x].next = hash[x].next
    BY <1>2, <1>5, <2>1, SkipFacts
  <2>2. CASE hash'[x].next # hash[x].next
    <3>1. At # undefs_tail /\ hash'[x].next = hash[At].next /\ At # "NULL"
      BY <1>5, <2>2, SkipFacts
    <3>2. hash[At].next \in Names
      BY <3>1, ListFacts
    <3> QED BY <1>1, <3>1, <3>2 DEF Referenced
  <2> QED BY <2>1, <2>2
<1>6. CASE SearchLooksAtElement
  BY <1>2, <1>6, LookLeaves, LooksFacts
<1>7. CASE AddObject \/ SearchBegins \/ AddOneSymbol \/ SearchGoesOn \/ SearchEnds
  BY <1>2, <1>7 DEF AddObject, SearchBegins, AddOneSymbol, SearchGoesOn, SearchEnds
<1> QED BY <1>4, <1>5, <1>6, <1>7 DEF Next, Searches

\* What becomes of the wrappers.
LEMMA WrappersStep ==
  ASSUME StrongTypes, Next, NEW x \in Names
  PROVE  \/ hash'[x].warnings = hash[x].warnings /\ ~(x = This /\ (ActWARNC \/ ActMWARN))
         \/ x = This /\ ActWARNC /\ hash'[x].warnings = [hash[x].warnings EXCEPT ![cur.h[2]] = FALSE]
         \/ x = This /\ ActMWARN /\ hash'[x].warnings = Append(hash[x].warnings, TRUE)
<1>1. CASE AddsOne
  <2>1. CASE ActIND
    <3> DEFINE target == cur.sym.string
    <3>1. /\ x = This => hash'[x].warnings = hash[x].warnings
          /\ (x # This /\ x # target) => hash'[x].warnings = hash[x].warnings
          /\ (x # This /\ x = target) => hash'[x].warnings = hash[x].warnings
      BY <2>1, EffectIND DEF Fixed
    <3>2. ~ActWARNC /\ ~ActMWARN
      <4>1. cur.row = "INDR_ROW" /\ cur.on /\ cur.h[2] = 0
        BY <2>1, EffectIND
      <4>2. Type(cur.h) \in Types \cup {"warn"} /\ Type(cur.h) # "warn"
        BY <4>1, Acting
      <4> DEFINE a == link_action["INDR_ROW"][Type(cur.h)]
      <4>3. a \notin {"WARNC", "MWARN", "CWARN"}
        BY <4>2, Table DEF Rows
      <4> HIDE DEF a
      <4>4. \A action : Does(action) => action = a
        BY <4>1 DEF Does, a
      <4> QED BY <4>3, <4>4 DEF ActWARNC, ActMWARN
    <3> QED BY <3>1, <3>2
  <2>2. CASE ActWARNC \/ ActMWARN
    BY <2>2, Effects DEF WarningsAre, OthersFixed, Fixed
  <2>3. CASE ~ActIND /\ ~ActWARNC /\ ~ActMWARN
    <3>1. hash' = hash \/ Marks(This) \/ \E type, owner, value : Becomes(This, type, owner, value)
      BY <1>1, <2>3, Effects DEF AddsOne
    <3>2. hash'[x].warnings = hash[x].warnings
      BY <3>1 DEF Becomes, Marks, OthersFixed, Fixed
    <3> QED BY <2>3, <3>2
  <2> QED BY <2>1, <2>2, <2>3
<1>2. CASE AddObject \/ SearchBegins \/ AddOneSymbol \/ Searches
  <2>1. ~ActWARNC /\ ~ActMWARN
    BY <1>2 DEF AddObject, SearchBegins, AddOneSymbol, Searches, SearchSkips, SearchGoesOn, SearchLooksAtElement,
       SearchEnds, Searching, Idle, ActWARNC, ActMWARN, Does
  <2>2. CASE SearchSkips
    BY <2>1, <2>2, SkipFacts
  <2>3. CASE SearchLooksAtElement
    BY <2>1, <2>3, LookLeaves
  <2>4. CASE AddObject \/ SearchBegins \/ AddOneSymbol \/ SearchGoesOn \/ SearchEnds
    BY <2>1, <2>4 DEF AddObject, SearchBegins, AddOneSymbol, SearchGoesOn, SearchEnds
  <2> QED BY <1>2, <2>2, <2>3, <2>4 DEF Searches
<1> QED BY <1>1, <1>2 DEF Next

\* A reference is marked, a warning kept or issued.
LEMMA WarnStep ==
  ASSUME StrongTypes, CurOK, ListOK, WarnOK, Next
  PROVE  WarnOK'
<1>1. SearchOnList /\ HasList /\ hash \in [Names -> Entries]
  BY DEF ListOK, StrongTypes, TypeOK, Entries
<1> DEFINE Warned(x) == <<"warning", x>> \in reports
           Asked(x) == "UNDEF_ROW" \in Said(x) /\ ~Unlisted(x)
<1> SUFFICES ASSUME NEW x \in Names
             PROVE  /\ (Asked(x)' /\ hash'[x].warnings = <<>>) => Referenced(x)' \/ x \in Reached'
                    /\ \A k \in DOMAIN hash'[x].warnings : ~hash'[x].warnings[k] => Warned(x)'
                    /\ (Asked(x)' /\ hash'[x].warnings # <<>>) =>
                         Warned(x)' \/ (cur'.on /\ cur'.row = "UNDEF_ROW" /\ cur'.h = Lookup(x)')
                    /\ "WARN_ROW" \in Said(x)' =>
                         \/ hash'[x].warnings # <<>> \/ Warned(x)'
                         \/ cur'.on /\ cur'.row = "WARN_ROW" /\ cur'.h[1] = x
  BY DEF WarnOK
<1>2. /\ (Asked(x) /\ hash[x].warnings = <<>>) => Referenced(x) \/ x \in Reached
      /\ \A k \in DOMAIN hash[x].warnings : ~hash[x].warnings[k] => Warned(x)
      /\ (Asked(x) /\ hash[x].warnings # <<>>) =>
           Warned(x) \/ (cur.on /\ cur.row = "UNDEF_ROW" /\ cur.h = Lookup(x))
      /\ "WARN_ROW" \in Said(x) =>
           \/ hash[x].warnings # <<>> \/ Warned(x)
           \/ cur.on /\ cur.row = "WARN_ROW" /\ cur.h[1] = x
  BY DEF WarnOK
<1>3. /\ Kept(x) /\ (Warned(x) => Warned(x)') /\ (Unlisted(x) => Unlisted(x)')
      /\ hash[x].warnings \in Seq(BOOLEAN) /\ Len(hash[x].warnings) \in Nat
  BY <1>1, EntriesKept, HistoryKept DEF Entries
<1>4. hash[x].warnings # <<>> => hash'[x].warnings # <<>>
  BY <1>3 DEF Kept
<1>5. ASSUME "UNDEF_ROW" \in Said(x)', "UNDEF_ROW" \notin Said(x)
      PROVE  /\ cur'.on /\ cur'.row = "UNDEF_ROW" /\ cur'.h = Lookup(x)' /\ x \in Reached'
  <2>1. /\ AddOneSymbol /\ cur'.on /\ cur'.row = "UNDEF_ROW" /\ cur'.h = Lookup(x) /\ cur'.h[1] = x
    BY <1>5, SaidGrows
  <2>2. UNCHANGED hash
    BY <2>1 DEF AddOneSymbol
  <2> QED BY <2>1, <2>2 DEF Reached, Lookup
<1>6. Referenced(x) => Referenced(x)'
  BY <1>1, MarksKept
<1>7. ~Unlisted(x) =>
        /\ hash[x].type = "undef" => Referenced(x)
        /\ (hash[x].type = "com" /\ hash[x].warnings = <<>>) => Referenced(x)
  <2>1. OnList(x) => Referenced(x)
    BY <1>1, ListFacts
  <2> QED BY <2>1 DEF ListOK, Placed, Unlisted
<1>8. (hash[x].type = "new" /\ Referenced(x)) => FALSE
  <2>1. undefs_tail = x => OnList(x)
    BY <1>1, ListFacts, LinkSymbolsAssumption
  <2> QED BY <2>1 DEF Referenced, ListOK, Placed
<1>9. cur.on => AddsOne
  BY DEF Next, AddObject, SearchBegins, AddOneSymbol, Searches, SearchSkips, SearchGoesOn, SearchLooksAtElement,
     SearchEnds, Searching, Idle
<1>10. ASSUME cur.on, x = This
       PROVE  /\ cur.h[2] \in Nat /\ cur.h[2] <= Len(hash[x].warnings) /\ cur.h = <<x, cur.h[2]>>
              /\ Type(cur.h) \in Types \cup {"warn"}
              /\ Type(cur.h) = "warn" => cur.h[2] > 0
              /\ Type(cur.h) # "warn" => cur.h[2] = 0 /\ Type(cur.h) = hash[x].type
              /\ hash[x].warnings = <<>> => Type(cur.h) # "warn"
              /\ cur.row \in Rows
  <2>1. /\ cur.h[2] \in Nat /\ cur.h[2] <= Len(hash[x].warnings) /\ cur.h = <<x, cur.h[2]>>
        /\ Type(cur.h) \in Types \cup {"warn"}
        /\ Type(cur.h) = "warn" => cur.h[2] > 0
        /\ Type(cur.h) # "warn" => cur.h[2] = 0 /\ Type(cur.h) = hash[x].type
        /\ cur.row \in Rows
    BY <1>10, Acting DEF This
  <2>2. hash[x].warnings = <<>> => Len(hash[x].warnings) = 0
    OBVIOUS
  <2> QED BY <2>1, <2>2
<1>11. ASSUME Asked(x)', hash'[x].warnings = <<>> PROVE Referenced(x)' \/ x \in Reached'
  <2>1. CASE "UNDEF_ROW" \notin Said(x)
    BY <1>5, <1>11, <2>1
  <2>2. CASE "UNDEF_ROW" \in Said(x) /\ Referenced(x)
    BY <1>6, <2>2
  <2>3. CASE "UNDEF_ROW" \in Said(x) /\ x \in Reached /\ ~Referenced(x)
    <3>1. cur.on /\ cur.row = "UNDEF_ROW" /\ x = This /\ AddsOne
      BY <1>9, <2>3 DEF Reached, This
    <3>2. hash[x].warnings = <<>> /\ ~Unlisted(x)
      BY <1>3, <1>4, <1>11
    <3>3. hash[x].type \notin {"undef", "com"} /\ Type(cur.h) # "warn"
      BY <1>7, <1>10, <2>3, <3>1, <3>2
    <3>4. ActUND \/ ActREF \/ ActREFC
      BY <1>10, <3>1, <3>3, UndefRow
    <3>5. Adds(x) \/ Marks(x)
      BY <3>1, <3>4, Effects
    <3> QED BY <2>3, <3>5, LinkSymbolsAssumption DEF Adds, Marks, Referenced
  <2> QED BY <1>2, <1>3, <1>4, <1>11, <2>1, <2>2, <2>3
<1>12. ASSUME NEW k \in DOMAIN hash'[x].warnings, ~hash'[x].warnings[k] PROVE Warned(x)'
  <2>1. CASE hash'[x].warnings = hash[x].warnings
    BY <1>2, <1>3, <1>12, <2>1
  <2>2. CASE x = This /\ ActWARNC /\ hash'[x].warnings = [hash[x].warnings EXCEPT ![cur.h[2]] = FALSE]
    <3> DEFINE w == hash[x].warnings
               m == cur.h[2]
               v == [w EXCEPT ![m] = FALSE]
    <3>1. cur.on /\ m \in Nat
      BY <1>10, <2>2 DEF ActWARNC, Does
    <3>2. w \in Seq(BOOLEAN) /\ v = hash'[x].warnings
      BY <1>3, <2>2
    <3> HIDE DEF m, w
    <3>3. DOMAIN v = DOMAIN w /\ \A i \in DOMAIN w : v[i] = IF i = m THEN FALSE ELSE w[i]
      BY <3>1, <3>2, Cleared, Zenon
    <3> HIDE DEF v
    <3>4. k \in DOMAIN w /\ (k # m => v[k] = w[k])
      BY <1>12, <3>2, <3>3
    <3>5. CASE k # m
      BY <1>2, <1>3, <1>12, <3>2, <3>4, <3>5 DEF w
    <3>6. CASE k = m
      <4>1. IF hash[This].warnings[cur.h[2]] THEN Callback("warning") ELSE UNCHANGED reports
        BY <2>2 DEF ActWARNC
      <4>2. CASE w[m]
        BY <2>2, <4>1, <4>2 DEF Callback, w, m
      <4>3. CASE ~w[m]
        BY <1>2, <1>3, <3>4, <3>6, <4>3 DEF w
      <4> QED BY <4>2, <4>3
    <3> QED BY <3>5, <3>6
  <2>3. CASE x = This /\ ActMWARN /\ hash'[x].warnings = Append(hash[x].warnings, TRUE)
    <3> DEFINE w == hash[x].warnings
               c == TRUE
               v == Append(w, c)
    <3>1. w \in Seq(BOOLEAN) /\ v = hash'[x].warnings /\ c \in BOOLEAN
      BY <1>3, <2>3
    <3> HIDE DEF w, c
    <3>2. \A i \in DOMAIN v : (i \in DOMAIN w /\ v[i] = w[i]) \/ v[i] = c
      BY <3>1, AppendedAt, ZenonT(40)
    <3> HIDE DEF v
    <3>3. k \in DOMAIN w /\ v[k] = w[k]
      BY <1>12, <3>1, <3>2 DEF c
    <3> QED BY <1>2, <1>3, <1>12, <3>1, <3>3 DEF w
  <2> QED BY <2>1, <2>2, <2>3, WrappersStep
<1>13. ASSUME Asked(x)', hash'[x].warnings # <<>>
       PROVE  Warned(x)' \/ (cur'.on /\ cur'.row = "UNDEF_ROW" /\ cur'.h = Lookup(x)')
  <2>1. CASE "UNDEF_ROW" \notin Said(x)
    BY <1>5, <1>13, <2>1
  <2>2. CASE Asked(x) /\ hash[x].warnings = <<>>
    <3>1. x = This /\ ActMWARN
      <4>1. CASE x = This /\ ActWARNC
        <5>1. cur.on /\ Type(cur.h) = "warn"
          BY <4>1, Acting, Table DEF ActWARNC, Does
        <5> QED BY <1>10, <2>2, <4>1, <5>1
      <4> QED BY <1>13, <2>2, <4>1, WrappersStep
    <3>2. cur.on /\ (Does("MWARN") \/ (Does("CWARN") /\ ~Referenced(x)))
      BY <3>1 DEF ActMWARN, Warns, Does
    <3>3. cur.row = "WARN_ROW" /\ (Does("MWARN") => Type(cur.h) \in {"new", "warn"})
      BY <1>10, <3>1, <3>2, Table DEF Does
    <3>4. Referenced(x)
      BY <1>2, <2>2, <3>3 DEF Reached
    <3> QED BY <1>8, <1>10, <2>2, <3>1, <3>2, <3>3, <3>4
  <2>3. CASE cur.on /\ cur.row = "UNDEF_ROW" /\ cur.h = Lookup(x) /\ hash[x].warnings # <<>>
    <3>1. cur.h[1] = x /\ cur.h[2] = Len(hash[x].warnings) /\ cur.h[2] > 0 /\ x = This
      BY <1>3, <2>3 DEF Lookup, This
    <3>2. Type(cur.h) = "warn"
      BY <3>1 DEF Type
    <3>3. ActWARNC
      BY <1>9, <2>3, <3>2, UndefRow
    <3>4. CASE hash[x].warnings[cur.h[2]]
      BY <3>1, <3>3, <3>4 DEF ActWARNC, Callback
    <3>5. CASE ~hash[x].warnings[cur.h[2]]
      <4>1. cur.h[2] \in DOMAIN hash[x].warnings
        BY <1>3, <3>1
      <4> QED BY <1>2, <1>3, <3>5, <4>1
    <3> QED BY <3>4, <3>5
  <2> QED BY <1>2, <1>3, <1>13, <2>1, <2>2, <2>3
<1>14. ASSUME "WARN_ROW" \in Said(x)'
       PROVE  \/ hash'[x].warnings # <<>> \/ Warned(x)'
              \/ cur'.on /\ cur'.row = "WARN_ROW" /\ cur'.h[1] = x
  <2>1. CASE "WARN_ROW" \notin Said(x)
    BY <1>14, <2>1, SaidGrows
  <2>2. CASE cur.on /\ cur.row = "WARN_ROW" /\ cur.h[1] = x
    <3>1. x = This /\ (ActWARN \/ ActMWARN)
      BY <1>9, <2>2, WarnRow DEF This
    <3>2. CASE ActWARN
      BY <3>1, <3>2 DEF ActWARN, Callback
    <3>3. CASE ActMWARN
      <4>1. hash'[x].warnings = Append(hash[x].warnings, TRUE)
        BY <3>1, <3>3, Effects DEF WarningsAre
      <4>2. \A w \in Seq(BOOLEAN) : Append(w, TRUE) # <<>>
        BY Appending, Zenon
      <4> QED BY <1>3, <4>1, <4>2
    <3> QED BY <3>1, <3>2, <3>3
  <2> QED BY <1>2, <1>3, <1>4, <2>1, <2>2
<1> QED BY <1>11, <1>12, <1>13, <1>14

-----------------------------------------------------------------------------
(* The search of archives misses no element.                               *)

\* Indirect symbols are followed within a set that has what they point to.
LEMMA FollowIn ==
  ASSUME NEW W, W \subseteq Names, NEW x \in W,
         \A y \in W : hash[y].type = "indr" => hash[y].link[1] \in W
  PROVE  Follow(x) \in W
<1> DEFINE next == [y \in Names |-> IF hash[y].type = "indr" THEN hash[y].link[1] ELSE y]
           C == Cardinality(Names)
           IsPath(at, c) == at = [i \in 0..c |-> IF i = 0 THEN x ELSE next[at[i - 1]]]
           path == CHOOSE at : IsPath(at, C)
           Bad == {c \in Nat : ~\E at : IsPath(at, c)}
<1>1. C \in Nat
  BY LinkSymbolsAssumption, FS_CardinalityType
<1>2. \A y \in W : next[y] \in W
  OBVIOUS
<1>3. Follow(x) = path[C]
  BY DEF Follow
<1> HIDE DEF next, C
<1>4. Bad = {}
  <2> SUFFICES ASSUME Bad # {} PROVE FALSE
    OBVIOUS
  <2>1. Bad \subseteq Nat
    OBVIOUS
  <2>2. PICK c \in Bad : \A y \in Bad : c <= y
    <3> HIDE DEF Bad
    <3> QED BY <2>1, LeastNat
  <2>3. c \in Nat /\ ~\E at : IsPath(at, c)
    BY <2>2
  <2>4. CASE c = 0
    <3>1. IsPath([i \in 0..0 |-> x], 0)
      OBVIOUS
    <3> QED BY <2>3, <2>4, <3>1
  <2>5. CASE c # 0
    <3>1. c - 1 \in Nat /\ ~(c <= c - 1)
      BY <2>3, <2>5
    <3>2. \E at : IsPath(at, c - 1)
      BY <2>2, <3>1
    <3>3. PICK at : IsPath(at, c - 1)
      BY <3>2
    <3> DEFINE more == [i \in 0..c |-> IF i = c THEN next[at[c - 1]] ELSE at[i]]
    <3>4. \A i \in 0..c : more[i] = IF i = 0 THEN x ELSE next[more[i - 1]]
      <4> TAKE i \in 0..c
      <4>1. \A j \in 0..(c - 1) : at[j] = IF j = 0 THEN x ELSE next[at[j - 1]]
        BY <3>3
      <4>2. CASE i = c
        BY <2>3, <2>5, <3>1, <4>2
      <4>3. CASE i # c
        <5>1. i \in 0..(c - 1) /\ (i # 0 => i - 1 \in 0..c /\ i - 1 # c)
          BY <2>3, <4>3
        <5> QED BY <4>1, <4>3, <5>1
      <4> QED BY <4>2, <4>3
    <3>5. IsPath(more, c)
      <4>1. more = [i \in 0..c |-> more[i]]
        OBVIOUS
      <4> HIDE DEF more
      <4> QED BY <3>4, <4>1
    <3> QED BY <2>3, <3>5
  <2> QED BY <2>4, <2>5
<1>5. IsPath(path, C)
  <2>1. \E at : IsPath(at, C)
    BY <1>1, <1>4
  <2> QED BY <2>1
<1> HIDE DEF path
<1>6. /\ path[0] = x /\ \A i \in 0..C : i # 0 => path[i] = next[path[i - 1]]
  BY <1>1, <1>5
<1> DEFINE Out == {i \in 0..C : path[i] \notin W}
<1>7. Out = {}
  <2> SUFFICES ASSUME Out # {} PROVE FALSE
    OBVIOUS
  <2>1. Out \subseteq Nat
    BY <1>1
  <2>2. PICK c \in Out : \A y \in Out : c <= y
    <3> HIDE DEF Out
    <3> QED BY <2>1, LeastNat
  <2>3. c # 0 /\ c \in 0..C
    BY <1>6, <2>2
  <2>4. c - 1 \in 0..C /\ ~(c <= c - 1)
    BY <1>1, <2>3
  <2>5. path[c - 1] \in W
    BY <2>2, <2>4
  <2>6. path[c] = next[path[c - 1]]
    BY <1>6, <2>3
  <2> QED BY <1>2, <2>2, <2>5, <2>6
<1> QED BY <1>1, <1>3, <1>7

\* A symbol that does not count as looked for does not come to do so, unless it was unknown.
LEMMA LackStays ==
  ASSUME StrongTypes, SearchOnList, HasList, Next, NEW x \in Names, NEW el \in Elements,
         hash[x].type \notin {"new", "undefw"}, Lacks(x, el)'
  PROVE  Lacks(x, el)
<1>1. /\ hash'[x].type = "undef" => hash[x].type = "undef"
      /\ hash'[x].type = "com" => hash[x].type \in {"com", "undef"}
  BY EntriesKept DEF Kept
<1>2. PICK i \in DOMAIN Contents(el) : LookedFor(x, Contents(el)[i])'
  BY DEF Lacks, Contents
<1>3. LookedFor(x, Contents(el)[i])
  BY <1>1, <1>2 DEF LookedFor, Contents, Defines
<1> QED BY <1>2, <1>3 DEF Lacks

\* An element that was included stays included.
LEMMA IncludedStays ==
  ASSUME StrongTypes, Next, NEW el \in Elements, element_pass[el] = -1
  PROVE  element_pass'[el] = -1
<1>1. CASE SearchLooksAtElement
  <2> DEFINE i == Min(Candidates)
             e == <<search.archive, i>>
  <2>1. \/ UNCHANGED element_pass
        \/ element_pass' = [element_pass EXCEPT ![e] = -1]
        \/ /\ element_pass[e] \notin {-1, search.pass}
           /\ \E k \in 1..(Len(Contents(e)) + 1) : Includes(e, k) \/ LeavesOut(e)
    BY <1>1, LooksFacts
  <2> HIDE DEF e
  <2>2. \/ UNCHANGED element_pass
        \/ element_pass' = [element_pass EXCEPT ![e] = -1]
        \/ element_pass[e] # -1 /\ \E p : element_pass' = [element_pass EXCEPT ![e] = p]
    BY <2>1 DEF Includes, LeavesOut
  <2>3. element_pass \in [Elements -> Int]
    BY DEF StrongTypes
  <2> QED BY <2>2, <2>3
<1>2. CASE ~SearchLooksAtElement
  <2>1. UNCHANGED element_pass
    BY <1>2, AddsFacts DEF Next, Searches, AddObject, SearchBegins, AddOneSymbol, SearchSkips, SearchGoesOn, SearchEnds
  <2> QED BY <2>1
<1> QED BY <1>1, <1>2

\* An element that has nothing to offer for a symbol, or was included, stays so.
LEMMA SettledStays ==
  ASSUME StrongTypes, SearchOnList, HasList, Next, NEW x \in Names, NEW el \in Elements,
         hash[x].type \notin {"new", "undefw"}, Settled(x, el)
  PROVE  Settled(x, el)'
<1>1. Lacks(x, el)' => Lacks(x, el)
  BY LackStays
<1>2. element_pass[el] = -1 => element_pass'[el] = -1
  BY IncludedStays
<1> QED BY <1>1, <1>2 DEF Settled

\* What the actions do to the list.
LEMMA AddsEffect ==
  ASSUME StrongTypes, AddsOne
  PROVE  ListFixed \/ Marks(This) \/ \E n \in Names : Adds(n) /\ hash[n].type \in {"new", "undefw"}
<1>1. cur.on
  BY AddsFacts
<1>2. /\ This \in Names /\ cur.row \in Rows /\ Type(cur.h) \in Types \cup {"warn"}
      /\ Type(cur.h) # "warn" => Type(cur.h) = hash[This].type
  BY <1>1, Acting
<1>3. CASE ActUND
  <2>1. hash[This].type \in {"new", "undefw"}
    BY <1>2, <1>3, Table DEF ActUND, Does
  <2> QED BY <1>2, <1>3, <2>1, Effects
<1>4. CASE ActCOM
  <2>1. IF Type(cur.h) = "new" THEN Adds(This) ELSE ListFixed
    BY <1>4, Effects
  <2> QED BY <1>2, <2>1
<1>5. CASE ActIND
  <2> DEFINE target == cur.sym.string
             fresh == hash[target].type = "new" /\ hash[target].warnings = <<>>
  <2>1. target \in Names /\ (fresh => Adds(target)) /\ (~fresh => ListFixed)
    BY <1>5, EffectIND
  <2> QED BY <2>1
<1>6. CASE ~ActUND /\ ~ActCOM /\ ~ActIND
  <2>1. UNCHANGED <<hash, undefs, undefs_tail>> => ListFixed
    BY DEF ListFixed
  <2>2. \A w : WarningsAre(This, w) => ListFixed
    BY DEF WarningsAre
  <2> QED BY <1>6, <2>1, <2>2, Effects DEF AddsOne
<1> QED BY <1>3, <1>4, <1>5, <1>6

\* The search does not lose its place when symbols are added, and only an unknown symbol joins.
LEMMA AddsList ==
  ASSUME StrongTypes, ListOK, AddsOne
  PROVE  /\ \A x : Passed(x)' <=> Passed(x)
         /\ At # "NULL" => At' = At
         /\ \/ UNCHANGED undefs_tail /\ \A x : OnList(x)' <=> OnList(x)
            \/ undefs_tail' \in Names /\ hash[undefs_tail'].type \in {"new", "undefw"}
<1>1. SearchOnList /\ HasList /\ UNCHANGED search /\ "NULL" \notin Names /\ "HEAD" \notin Names
  BY AddsFacts, LinkSymbolsAssumption DEF ListOK
<1>2. /\ undefs_tail # "NULL" => OnList(undefs_tail) /\ hash[undefs_tail].next = "NULL"
      /\ \A x : OnList(x) => x \in Names /\ Referenced(x)
  BY <1>1, ListFacts
<1>3. search.pundef # "HEAD" => OnList(search.pundef) /\ search.pundef \in Names
  BY <1>1, <1>2 DEF SearchOnList
<1>4. ASSUME \A x \in Names : OnList(x) => hash'[x].next = hash[x].next, UNCHANGED <<undefs, undefs_tail>>
      PROVE  /\ (\A x : Passed(x)' <=> Passed(x)) /\ At' = At
             /\ UNCHANGED undefs_tail /\ \A x : OnList(x)' <=> OnList(x)
  <2>1. (\A x : Passed(x)' <=> Passed(x)) /\ \A x : OnList(x)' <=> OnList(x)
    BY <1>1, <1>4, ListSame
  <2>2. At' = At
    BY <1>1, <1>3, <1>4 DEF At
  <2> QED BY <1>4, <2>1, <2>2
<1>5. CASE ListFixed
  BY <1>4, <1>5 DEF ListFixed
<1>6. CASE Marks(This)
  <2>1. \A x \in Names : OnList(x) => hash'[x].next = hash[x].next
    BY <1>2, <1>6 DEF Marks
  <2> QED BY <1>4, <1>6, <2>1 DEF Marks
<1>7. ASSUME NEW n \in Names, Adds(n), hash[n].type \in {"new", "undefw"}
      PROVE  /\ (\A x : Passed(x)' <=> Passed(x)) /\ (At # "NULL" => At' = At)
             /\ undefs_tail' \in Names /\ hash[undefs_tail'].type \in {"new", "undefw"}
  <2>1. ~OnList(n) /\ hash[n].next = "NULL"
    BY <1>7 DEF ListOK, Placed
  <2>2. \A x : Passed(x)' <=> Passed(x)
    BY <1>1, <1>7, <2>1, ListAdded DEF Adds
  <2>3. At # "NULL" => At' = At
    BY <1>1, <1>2, <1>3, <1>7 DEF Adds, At
  <2> QED BY <1>7, <2>2, <2>3 DEF Adds
<1> QED BY <1>5, <1>4, <1>6, <1>7, AddsEffect

\* An element of which no symbol says that it is needed has none that is looked for.
LEMMA LeftOut ==
  ASSUME StrongTypes, NEW el \in Elements, NEW k \in 1..(Len(Contents(el)) + 1), k > Len(Contents(el)),
         Decides(el, k), CommonsMade(el, k), NEW x \in Names
  PROVE  ~Lacks(x, el)'
<1> SUFFICES ASSUME Lacks(x, el)' PROVE FALSE
  OBVIOUS
<1>1. Contents(el) \in Seq(AllSymbols) /\ Len(Contents(el)) \in Nat
  BY ElementFacts
<1>2. PICK i \in DOMAIN Contents(el) : LookedFor(x, Contents(el)[i])'
  BY DEF Lacks, Contents
<1> DEFINE sym == Contents(el)[i]
<1>3. /\ sym.name = x /\ sym.row \in {"DEF_ROW", "DEFW_ROW", "COMMON_ROW", "INDR_ROW"}
      /\ hash'[x].type = "undef" \/ (hash'[x].type = "com" /\ sym.row # "COMMON_ROW")
  BY <1>2 DEF LookedFor, Defines, Contents
<1>4. i \in 1..(k - 1)
  BY <1>1, <1>2
<1>5. hash[x].type \in {"undef", "com"}
  <2>1. /\ Commons(el, k, x) = {} => hash'[x] = hash[x]
        /\ Commons(el, k, x) # {} => hash[x].type \in {"undef", "com"}
    BY EffectCommons
  <2> QED BY <1>3, <2>1
<1>6. Follow(x) = x
  <2>1. Follow(x) \in {x}
    BY <1>5, FollowIn
  <2> QED BY <2>1
<1>7. ~Needs(sym)
  BY <1>4 DEF Decides
<1> HIDE DEF sym
<1>8. LooksAt(sym)
  BY <1>3, <1>5, <1>6 DEF LooksAt, Wanted
<1>9. sym.row = "COMMON_ROW"
  BY <1>7, <1>8 DEF Needs
<1>10. sym.value \in Commons(el, k, x)
  BY <1>3, <1>4, <1>6, <1>8, <1>9 DEF Commons, sym
<1>11. hash'[x].type = "com"
  BY <1>10, EffectCommons
<1> QED BY <1>3, <1>9, <1>11

\* An element without a definition of x.
LEMMA NotDefined ==
  ASSUME NEW el \in Elements, NEW x, el[2] \notin Defs(el[1], x)
  PROVE  ~Lacks(x, el)
<1>1. el[2] \in DOMAIN Archives[el[1]]
  BY ElementFacts
<1> QED BY <1>1 DEF Lacks, LookedFor, Defs, Contents

\* Every step keeps what is known of the search.
LEMMA SearchStep ==
  ASSUME StrongTypes, CurOK, ListOK, SearchOK, Next
  PROVE  SearchOK'
<1>1. /\ SearchOnList /\ HasList /\ "NULL" \notin Names /\ "HEAD" \notin Names
      /\ search \in SearchTypes /\ element_pass \in [Elements -> Int] /\ archive_pass \in [DOMAIN Archives -> Nat]
      /\ (search.on => search.archive # 0) /\ undefs_tail \in Names \cup {"NULL"}
      /\ search.pass \in Nat /\ search.l \in Nat \ {0} /\ search.archive \in Nat
  BY LinkSymbolsAssumption DEF ListOK, StrongTypes, TypeOK, SearchTypes
<1>2. ASSUME NEW el \in Elements
      PROVE  /\ element_pass[el] \in Int /\ element_pass[el] >= -1
             /\ (search.on /\ search.archive = el[1]) => element_pass[el] <= search.pass
             /\ ~(search.on /\ search.archive = el[1]) => element_pass[el] <= archive_pass[el[1]]
             /\ archive_pass[el[1]] \in Nat /\ el[1] \in DOMAIN Archives
             /\ el[1] \in Nat /\ el[2] \in Nat /\ el[1] > 0 /\ el[1] <= Len(Archives)
             /\ el = <<el[1], el[2]>> /\ el[2] > 0
  <2>1. /\ el[1] \in DOMAIN Archives /\ el[2] \in DOMAIN Archives[el[1]] /\ el = <<el[1], el[2]>>
        /\ el[1] \in Nat /\ el[2] \in Nat /\ el[1] > 0 /\ el[1] <= Len(Archives)
    BY ElementFacts
  <2>2. el[2] > 0
    BY <2>1, LinkSymbolsAssumption
  <2>3. /\ archive_pass[el[1]] \in Nat /\ element_pass[el] \in Int
        /\ element_pass[el] \in -1..(IF search.on /\ search.archive = el[1] THEN search.pass
                                     ELSE archive_pass[el[1]])
    BY <1>1, <2>1 DEF StrongTypes, TypeOK
  <2> QED BY <1>1, <2>1, <2>2, <2>3
<1>3. ASSUME NEW x \in Names, OnList(x) PROVE hash[x].type \notin {"new", "undefw"}
  BY <1>3 DEF ListOK, Placed
<1>4. /\ \A x : Passed(x) => OnList(x)
      /\ At # "NULL" => OnList(At) /\ At \in Names
      /\ At = "NULL" => \A x : OnList(x) => Passed(x)
      /\ undefs_tail # "NULL" => OnList(undefs_tail)
  BY <1>1, ListFacts
<1>5. ASSUME NEW x \in Names, OnList(x), NEW el \in Elements, Settled(x, el) PROVE Settled(x, el)'
  BY <1>1, <1>3, <1>5, SettledStays
<1>6. ASSUME NEW x \in Names, OnList(x), NEW el \in Elements, ~Lacks(x, el) PROVE ~Lacks(x, el)'
  BY <1>1, <1>3, <1>6, LackStays
<1>7. ASSUME PassedOK, search'.archive = search.archive,
             \A x \in Names : Passed(x)' =>
               Passed(x) \/ (OnList(x) /\ \A el \in Elements : el[1] = search.archive => Settled(x, el))
      PROVE  PassedOK'
  <2>1. ASSUME NEW x \in Names, Passed(x)', NEW el \in Elements, el[1] = search.archive
        PROVE  OnList(x) /\ Settled(x, el)
    BY <1>4, <1>7, <2>1 DEF PassedOK
  <2>2. \A x \in Names : Passed(x)' => \A el \in Elements : el[1] = search'.archive => Settled(x, el)'
    BY <1>5, <1>7, <2>1
  <2> QED BY <2>2 DEF PassedOK, Elements
<1>8. ASSUME GroupOK, UNCHANGED <<search.archive, search.group, search.undefs>>,
             \/ UNCHANGED undefs_tail /\ \A x : OnList(x)' => OnList(x)
             \/ undefs_tail' \in Names /\ hash[undefs_tail'].type \in {"new", "undefw"}
      PROVE  GroupOK'
  <2> SUFFICES ASSUME search.group
               PROVE  /\ search.undefs # "NULL" =>
                           undefs_tail' # "NULL" /\ hash'[search.undefs].type \notin {"new", "undefw"}
                      /\ undefs_tail' = search.undefs =>
                           \A x \in Names : OnList(x)' =>
                             \A el \in Elements : el[1] < search.archive => Settled(x, el)'
    BY <1>8 DEF GroupOK, Elements
  <2>1. search.undefs # "NULL" =>
          undefs_tail # "NULL" /\ hash[search.undefs].type \notin {"new", "undefw"} /\ search.undefs \in Names
    BY <1>1, <1>8 DEF GroupOK, SearchTypes
  <2>2. search.undefs # "NULL" => undefs_tail' # "NULL" /\ hash'[search.undefs].type \notin {"new", "undefw"}
    <3>1. \A x \in Names : hash[x].type \notin {"new", "undefw"} => hash'[x].type \notin {"new", "undefw"}
      BY <1>1, EntriesKept DEF Kept
    <3> QED BY <1>1, <1>8, <2>1, <3>1
  <2>3. ASSUME undefs_tail' = search.undefs, NEW x \in Names, OnList(x)', NEW el \in Elements, el[1] < search.archive
        PROVE  Settled(x, el)'
    <3>1. UNCHANGED undefs_tail /\ OnList(x)
      BY <1>1, <1>8, <2>1, <2>3
    <3>2. Settled(x, el)
      BY <1>8, <2>3, <3>1 DEF GroupOK
    <3> QED BY <1>5, <3>1, <3>2
  <2> QED BY <2>2, <2>3
<1>9. ASSUME CheckedOK', PassedOK', AtOK', GroupOK', search'.on PROVE SearchOK'
  BY <1>9 DEF SearchOK
<1>0. ASSUME NEW x \in Names, x = At',
             \A el \in Elements : (el[1] = search'.archive /\ el[2] < search'.l) => Settled(x, el)'
      PROVE  AtOK'
  BY <1>0, <1>1 DEF AtOK, Settled, Lacks, LookedFor, Elements, Contents
<1>10. ASSUME AddObject PROVE SearchOK'
  BY <1>10 DEF AddObject, SearchOK, NotSearching
<1>11. ASSUME UNCHANGED <<hash, undefs, undefs_tail>>, search'.on, search'.pundef = "HEAD", search'.l = 1, Idle',
              \A el \in Elements : el[1] = search'.archive => element_pass'[el] # search'.pass, GroupOK'
       PROVE  SearchOK'
  <2>1. \A x : ~Passed(x)'
    BY <1>1, <1>11, ListSame
  <2>2. CheckedOK' /\ AtOK'
    BY <1>11 DEF CheckedOK, AtOK, Checked, Elements
  <2>3. PassedOK'
    BY <2>1 DEF PassedOK
  <2> QED BY <1>9, <1>11, <2>2, <2>3
<1>12. ASSUME search'.archive = 1, search'.undefs = undefs_tail, UNCHANGED <<hash, undefs, undefs_tail>>
       PROVE  GroupOK'
  <2>1. \A el \in Elements : ~(el[1] < 1)
    BY <1>2
  <2>2. undefs_tail # "NULL" => hash[undefs_tail].type \notin {"new", "undefw"}
    BY <1>1, <1>3, <1>4
  <2> QED BY <1>12, <2>1, <2>2 DEF GroupOK, Elements
<1>13. ASSUME SearchBegins PROVE SearchOK'
  <2>1. /\ Idle' /\ UNCHANGED <<hash, undefs, undefs_tail, element_pass>> /\ ~search.on
        /\ search' = StartsAt(1, TRUE, undefs_tail) \/ \E a \in DOMAIN Archives : search' = StartsAt(a, FALSE, "NULL")
    BY <1>13 DEF SearchBegins, Idle
  <2>2. /\ search'.on /\ search'.pundef = "HEAD" /\ search'.l = 1 /\ search'.pass = archive_pass[search'.archive] + 1
        /\ ~search'.group \/ (search'.archive = 1 /\ search'.undefs = undefs_tail)
    BY <2>1 DEF StartsAt
  <2>3. GroupOK'
    <3>1. CASE ~search'.group
      BY <3>1 DEF GroupOK
    <3>2. CASE search'.archive = 1 /\ search'.undefs = undefs_tail
      BY <1>12, <2>1, <3>2
    <3> QED BY <2>2, <3>1, <3>2
  <2>4. ASSUME NEW el \in Elements, el[1] = search'.archive PROVE element_pass'[el] # search'.pass
    <3>1. element_pass[el] <= archive_pass[el[1]] /\ element_pass[el] \in Int /\ archive_pass[el[1]] \in Nat
      BY <1>2, <2>1
    <3> QED BY <2>1, <2>2, <2>4, <3>1
  <2> QED BY <1>11, <2>1, <2>2, <2>3, <2>4
<1>14. ASSUME AddOneSymbol PROVE SearchOK'
  <2>1. /\ ~Idle /\ ~Idle' /\ UNCHANGED <<hash, undefs, undefs_tail, search, element_pass>>
    BY <1>14, SeenEffect DEF AddOneSymbol, Idle
  <2>2. search.on \/ search.archive = 0
    BY <2>1 DEF SearchOK, OverOK
  <2>3. CASE ~search.on
    BY <2>1, <2>2, <2>3 DEF SearchOK
  <2>4. CASE search.on
    <3>1. CheckedOK /\ PassedOK /\ AtOK /\ GroupOK
      BY <2>4 DEF SearchOK
    <3>2. (\A x : Passed(x)' <=> Passed(x)) /\ \A x : OnList(x)' <=> OnList(x)
      BY <1>1, <2>1, ListSame
    <3>3. PassedOK'
      BY <1>7, <2>1, <3>1, <3>2
    <3>4. GroupOK'
      BY <1>8, <2>1, <3>1, <3>2
    <3>5. CheckedOK'
      BY <2>1, <3>1 DEF CheckedOK, Checked, Elements
    <3>6. AtOK'
      BY <2>1, <3>1 DEF AtOK, At, Settled, Lacks, LookedFor, Elements, Contents
    <3> QED BY <1>9, <2>1, <2>4, <3>3, <3>4, <3>5, <3>6
  <2> QED BY <2>3, <2>4
<1>15. ASSUME AddsOne PROVE SearchOK'
  <2>1. cur.on /\ UNCHANGED <<queue, search, element_pass>> /\ ~Idle
    BY <1>15, AddsFacts DEF Idle
  <2>2. search.on \/ search.archive = 0
    BY <2>1 DEF SearchOK, OverOK
  <2>3. CASE ~search.on
    BY <2>1, <2>2, <2>3 DEF SearchOK
  <2>4. CASE search.on
    <3>1. CheckedOK /\ PassedOK /\ AtOK /\ GroupOK
      BY <2>4 DEF SearchOK
    <3>2. /\ \A x : Passed(x)' <=> Passed(x)
          /\ At # "NULL" => At' = At
          /\ \/ UNCHANGED undefs_tail /\ \A x : OnList(x)' <=> OnList(x)
             \/ undefs_tail' \in Names /\ hash[undefs_tail'].type \in {"new", "undefw"}
      BY <1>15, AddsList
    <3>3. PassedOK'
      BY <1>7, <2>1, <3>1, <3>2
    <3>4. GroupOK'
      BY <1>8, <2>1, <3>1, <3>2
    <3>5. CheckedOK'
      BY <2>1, <3>1 DEF CheckedOK, Checked, Elements
    <3>6. CASE search.l > 1
      <4>1. At # "NULL" /\ At' = At /\ At \in Names /\ OnList(At)
        BY <1>4, <3>1, <3>2, <3>6 DEF AtOK
      <4>2. PICK x \in Names : x = At
        BY <4>1
      <4>3. \A el \in Elements : (el[1] = search.archive /\ el[2] < search.l) => Settled(x, el)
        BY <3>1, <3>6, <4>2 DEF AtOK
      <4>4. \A el \in Elements : (el[1] = search'.archive /\ el[2] < search'.l) => Settled(x, el)'
        BY <1>5, <2>1, <4>1, <4>2, <4>3
      <4>5. x = At'
        BY <4>1, <4>2
      <4>6. AtOK'
        BY <1>0, <4>4, <4>5
      <4> QED BY <1>9, <2>1, <2>4, <3>3, <3>4, <3>5, <4>6
    <3>7. CASE ~(search.l > 1)
      <4>1. AtOK'
        BY <2>1, <3>7 DEF AtOK
      <4> QED BY <1>9, <2>1, <2>4, <3>3, <3>4, <3>5, <4>1
    <3> QED BY <3>6, <3>7
  <2> QED BY <2>3, <2>4
<1>16. ASSUME SearchSkips PROVE SearchOK'
  <2>1. /\ At # "NULL" /\ hash[At].type \notin {"undef", "com"} /\ search.l = 1 /\ search.on
        /\ UNCHANGED <<undefs_tail, queue, cur, element_pass>>
        /\ \A x \in Names : hash'[x].type = hash[x].type
    BY <1>16, SkipFacts DEF Searching
  <2>2. CheckedOK /\ PassedOK /\ GroupOK
    BY <2>1 DEF SearchOK
  <2>3. At = undefs_tail \/ At # undefs_tail
    OBVIOUS
  <2>4. /\ search'.on /\ UNCHANGED <<search.archive, search.group, search.undefs>>
        /\ search'.archive = search.archive /\ search'.pass = search.pass /\ search'.l = search.l
    <3>1. search' = search \/ search' = [search EXCEPT !.pundef = At]
      BY <1>16, SkipFacts
    <3> HIDE DEF At
    <3> QED BY <1>1, <2>1, <3>1 DEF SearchTypes
  <2>5. ASSUME NEW x \in Names, NEW el \in Elements PROVE Lacks(x, el)' <=> Lacks(x, el)
    BY <2>1 DEF Lacks, LookedFor, Contents
  <2>6. AtOK'
    BY <2>1, <2>4 DEF AtOK
  <2>7. CheckedOK'
    <3>1. (Idle' <=> Idle) /\ \A el : Checked(el)' <=> Checked(el)
      BY <2>1, <2>4 DEF Idle, Checked
    <3> QED BY <2>2, <2>5, <3>1 DEF CheckedOK, Elements
  <2>8. CASE At = undefs_tail
    <3>1. search'.pundef = At /\ UNCHANGED <<hash, undefs, undefs_tail>>
      <4>1. search' = [search EXCEPT !.pundef = At] /\ UNCHANGED <<hash, undefs, undefs_tail>>
        BY <1>16, <2>8, SkipFacts
      <4> HIDE DEF At
      <4> QED BY <1>1, <4>1 DEF SearchTypes
    <3>2. (\A x : OnList(x)' <=> OnList(x)) /\ \A x : Passed(x)' <=> Passed(x) \/ x = At
      BY <1>1, <2>1, <3>1, ListSame
    <3>3. \A el \in Elements : ~Lacks(At, el)
      BY <2>1 DEF Lacks, LookedFor
    <3>4. PassedOK'
      BY <1>4, <1>7, <2>1, <2>2, <2>4, <3>2, <3>3 DEF Settled
    <3>5. GroupOK'
      BY <1>8, <2>1, <2>2, <2>4, <3>2
    <3> QED BY <1>9, <2>4, <2>6, <2>7, <3>4, <3>5
  <2>9. CASE At # undefs_tail
    <3>1. /\ UNCHANGED <<undefs_tail, search>>
          /\ \A x \in Names : hash'[x].next = IF x = search.pundef THEN hash[At].next ELSE hash[x].next
          /\ undefs' = (IF search.pundef = "HEAD" THEN hash[At].next ELSE undefs)
      BY <1>16, <2>9, SkipFacts
    <3>2. (\A x : OnList(x)' <=> OnList(x) /\ x # At) /\ \A x : Passed(x)' <=> Passed(x)
      BY <1>1, <2>1, <2>9, <3>1, ListForgets
    <3>3. PassedOK'
      BY <1>7, <2>2, <2>4, <3>2
    <3>4. GroupOK'
      BY <1>8, <2>1, <2>2, <2>4, <3>2
    <3> QED BY <1>9, <2>4, <2>6, <2>7, <3>3, <3>4
  <2> QED BY <2>8, <2>9
<1>17. ASSUME SearchGoesOn PROVE SearchOK'
  <2>1. /\ At # "NULL" /\ search.on /\ UNCHANGED <<hash, undefs, undefs_tail, queue, cur, element_pass>>
        /\ search' = [search EXCEPT !.pundef = At, !.l = 1]
        /\ hash[At].type \in {"undef", "com"} => Candidates = {}
    BY <1>17 DEF SearchGoesOn, Searching, Wanted
  <2>2. CheckedOK /\ PassedOK /\ AtOK /\ GroupOK
    BY <2>1 DEF SearchOK
  <2>4. /\ search'.on /\ UNCHANGED <<search.archive, search.group, search.undefs>>
        /\ search'.archive = search.archive /\ search'.pass = search.pass /\ search'.l = 1
        /\ search'.pundef = At
    <3> HIDE DEF At
    <3> QED BY <1>1, <2>1 DEF SearchTypes
  <2>5. ASSUME NEW x \in Names, NEW el \in Elements PROVE Lacks(x, el)' <=> Lacks(x, el)
    BY <2>1 DEF Lacks, LookedFor, Contents
  <2>6. AtOK'
    BY <2>4 DEF AtOK
  <2>7. CheckedOK'
    <3>1. (Idle' <=> Idle) /\ \A el : Checked(el)' <=> Checked(el)
      BY <2>1, <2>4 DEF Idle, Checked
    <3> QED BY <2>2, <2>5, <3>1 DEF CheckedOK, Elements
  <2>8. (\A x : OnList(x)' <=> OnList(x)) /\ \A x : Passed(x)' <=> Passed(x) \/ x = At
    BY <1>1, <2>1, <2>4, ListSame
  <2>9. ASSUME NEW el \in Elements, el[1] = search.archive PROVE Settled(At, el)
    <3>1. CASE hash[At].type \notin {"undef", "com"}
      BY <3>1 DEF Settled, Lacks, LookedFor
    <3>2. CASE el[2] \notin Defs(el[1], At)
      BY <3>2, NotDefined DEF Settled
    <3>3. CASE hash[At].type \in {"undef", "com"} /\ el[2] \in Defs(el[1], At)
      <4>1. ~(el[2] >= search.l)
        BY <2>1, <2>9, <3>3 DEF Candidates
      <4>2. el[2] < search.l /\ search.l > 1
        BY <1>1, <1>2, <4>1
      <4> QED BY <2>2, <2>9, <4>2 DEF AtOK
    <3> QED BY <3>1, <3>2, <3>3
  <2>10. PassedOK'
    BY <1>4, <1>7, <2>1, <2>2, <2>4, <2>8, <2>9
  <2>11. GroupOK'
    BY <1>8, <2>1, <2>2, <2>4, <2>8
  <2> QED BY <1>9, <2>4, <2>6, <2>7, <2>10, <2>11
<1>18. ASSUME SearchEnds PROVE SearchOK'
  <2>1. /\ search.on /\ Idle' /\ At = "NULL" /\ UNCHANGED <<hash, undefs, undefs_tail, element_pass>>
        /\ archive_pass' = [archive_pass EXCEPT ![search.archive] = search.pass]
    BY <1>18 DEF SearchEnds, Searching, Idle, PassSaved
  <2>2. PassedOK /\ GroupOK /\ search.archive # 0 /\ search.archive <= Len(Archives)
    BY <1>1, <2>1 DEF SearchOK, SearchTypes
  <2>3. ASSUME NEW x \in Names, OnList(x), NEW el \in Elements, el[1] = search.archive PROVE Settled(x, el)
    BY <1>4, <2>1, <2>2, <2>3 DEF PassedOK
  <2>4. \A x : OnList(x)' <=> OnList(x)
    BY <1>1, <2>1, ListSame
  <2>5. ASSUME search.group, undefs_tail = search.undefs, NEW x \in Names, OnList(x), NEW el \in Elements,
               el[1] <= search.archive
        PROVE  Settled(x, el)
    <3>1. CASE el[1] = search.archive
      BY <2>3, <2>5, <3>1
    <3>2. CASE el[1] < search.archive
      BY <2>2, <2>5, <3>2 DEF GroupOK
    <3> QED BY <1>1, <1>2, <2>5, <3>1, <3>2
  <2>6. ASSUME search' = [search EXCEPT !.on = FALSE],
               ~search.group \/ (~(search.archive < Len(Archives)) /\ undefs_tail = search.undefs)
        PROVE  SearchOK'
    <3>1. ~search'.on /\ search'.group = search.group /\ search'.archive = search.archive
      BY <1>1, <2>6 DEF SearchTypes
    <3>2. ASSUME NEW x \in Names, OnList(x), NEW el \in Elements, search.group \/ el[1] = search.archive
          PROVE  Settled(x, el)'
      <4>1. CASE el[1] = search.archive
        BY <1>5, <2>3, <3>2, <4>1
      <4>2. CASE search.group
        <5>1. el[1] <= search.archive
          <6>1. el[1] \in Nat /\ el[1] <= Len(Archives) /\ Len(Archives) \in Nat
            BY <1>2, LinkSymbolsAssumption
          <6> QED BY <1>1, <2>2, <2>6, <4>2, <6>1
        <5> QED BY <1>5, <2>5, <2>6, <3>2, <4>2, <5>1
      <4> QED BY <3>2, <4>1, <4>2
    <3>3. OverOK'
      BY <2>1, <2>4, <3>1, <3>2 DEF OverOK, Elements
    <3> QED BY <3>1, <3>3 DEF SearchOK
  <2>7. ASSUME NEW a \in DOMAIN Archives, search'.on, search'.pundef = "HEAD", search'.l = 1, search'.archive = a,
               search'.pass = archive_pass'[a] + 1, GroupOK'
        PROVE  SearchOK'
    <3>1. ASSUME NEW el \in Elements, el[1] = a PROVE element_pass[el] # archive_pass'[a] + 1
      <4>1. CASE a = search.archive
        <5>1. element_pass[el] <= search.pass /\ element_pass[el] \in Int /\ archive_pass'[a] = search.pass
          BY <1>1, <1>2, <2>1, <3>1, <4>1
        <5> QED BY <1>1, <5>1
      <4>2. CASE a # search.archive
        <5>1. /\ element_pass[el] <= archive_pass[a] /\ element_pass[el] \in Int /\ archive_pass[a] \in Nat
              /\ archive_pass'[a] = archive_pass[a]
          BY <1>1, <1>2, <2>1, <3>1, <4>2
        <5> QED BY <5>1
      <4> QED BY <4>1, <4>2
    <3> QED BY <1>11, <2>1, <2>7, <3>1
  <2>8. ASSUME search.group, search.archive < Len(Archives),
               search' = StartsAt(search.archive + 1, TRUE, search.undefs)
        PROVE  SearchOK'
    <3>1. search.archive + 1 \in DOMAIN Archives /\ search.archive + 1 # search.archive
      BY <1>1, <2>8, LinkSymbolsAssumption
    <3>2. archive_pass'[search.archive + 1] = archive_pass[search.archive + 1]
      BY <1>1, <2>1, <3>1
    <3>3. /\ search'.on /\ search'.pundef = "HEAD" /\ search'.l = 1 /\ search'.archive = search.archive + 1
          /\ search'.pass = archive_pass'[search.archive + 1] + 1 /\ search'.undefs = search.undefs
      BY <2>8, <3>2 DEF StartsAt
    <3>4. \A el \in Elements : el[1] < search.archive + 1 => el[1] <= search.archive
      BY <1>1, <1>2
    <3>5. GroupOK'
      <4>1. search.undefs # "NULL" => undefs_tail' # "NULL" /\ hash'[search.undefs].type \notin {"new", "undefw"}
        BY <2>1, <2>2, <2>8 DEF GroupOK
      <4>2. undefs_tail' = search.undefs =>
              \A x \in Names : OnList(x)' =>
                \A el \in Elements : el[1] < search.archive + 1 => Settled(x, el)'
        BY <1>5, <2>1, <2>4, <2>5, <2>8, <3>4
      <4> QED BY <3>3, <4>1, <4>2 DEF GroupOK, Elements
    <3> QED BY <2>7, <3>1, <3>3, <3>5
  <2>9. ASSUME search' = [StartsAt(1, TRUE, undefs_tail) EXCEPT !.pass = archive_pass'[1] + 1]
        PROVE  SearchOK'
    <3>1. 1 \in DOMAIN Archives
      BY <1>1, <2>2, LinkSymbolsAssumption
    <3>2. /\ search'.on /\ search'.pundef = "HEAD" /\ search'.l = 1 /\ search'.archive = 1
          /\ search'.pass = archive_pass'[1] + 1 /\ search'.undefs = undefs_tail
      BY <2>9 DEF StartsAt
    <3>3. GroupOK'
      BY <1>12, <2>1, <3>2
    <3> QED BY <2>7, <3>1, <3>2, <3>3
  <2> QED BY <1>18, <2>6, <2>8, <2>9 DEF SearchEnds, GroupGoesOn
<1>19. ASSUME SearchLooksAtElement PROVE SearchOK'
  <2> DEFINE i == Min(Candidates)
  <2>0. PICK e \in Elements : e = <<search.archive, i>>
    BY <1>19, LooksFacts
  <2>1. /\ search.on /\ Idle /\ At # "NULL" /\ e \in Elements /\ e[1] = search.archive /\ e[2] = i
        /\ i \in Nat /\ \A j \in Defs(search.archive, At) : j >= search.l => i <= j
        /\ UNCHANGED <<undefs, undefs_tail, cur>>
    BY <1>19, <2>0, LooksFacts
  <2>2. \/ /\ element_pass[e] \in {-1, search.pass}
           /\ search' = [search EXCEPT !.l = i + 1] /\ UNCHANGED <<hash, queue, element_pass>>
        \/ /\ element_pass' = [element_pass EXCEPT ![e] = -1]
           /\ search' = [search EXCEPT !.l = i + 1] /\ UNCHANGED <<hash, queue>>
        \/ /\ element_pass[e] \notin {-1, search.pass}
           /\ \E k \in 1..(Len(Contents(e)) + 1) :
                /\ Decides(e, k) /\ CommonsMade(e, k)
                /\ \/ /\ k <= Len(Contents(e)) /\ Includes(e, k)
                      /\ search' = [search EXCEPT !.l = i + 1, !.pass = Rechecks]
                   \/ /\ k > Len(Contents(e)) /\ LeavesOut(e)
                      /\ search' = [search EXCEPT !.l = i + 1]
    BY <1>19, <2>0, LooksFacts
  <2> HIDE DEF i
  <2>3. CheckedOK /\ PassedOK /\ AtOK /\ GroupOK
    BY <2>1 DEF SearchOK
  <2>4. /\ search'.on /\ UNCHANGED <<search.archive, search.group, search.undefs>>
        /\ search'.archive = search.archive /\ search'.l = i + 1 /\ search'.pundef = search.pundef
    <3>1. search' = [search EXCEPT !.l = i + 1] \/ search' = [search EXCEPT !.l = i + 1, !.pass = Rechecks]
      BY <2>2
    <3> QED BY <1>1, <2>1, <3>1 DEF SearchTypes
  <2>5. /\ \A x \in Names : hash'[x].next = hash[x].next
        /\ (\A x : OnList(x)' <=> OnList(x)) /\ \A x : Passed(x)' <=> Passed(x)
    BY <1>1, <1>19, <2>1, <2>4, LookLeaves, ListSame
  <2>6. PassedOK'
    BY <1>7, <2>3, <2>4, <2>5
  <2>7. GroupOK'
    BY <1>8, <2>1, <2>3, <2>4, <2>5
  <2>8. PICK x \in Names : x = At /\ OnList(x)
    BY <1>4, <2>1
  <2>9. x = At'
    <3>1. search.pundef = "HEAD" \/ search.pundef \in Names
      BY <1>1 DEF SearchTypes
    <3>2. At' = At
      BY <1>1, <2>1, <2>4, <2>5, <3>1 DEF At
    <3> QED BY <2>8, <3>2
  <2>10. ASSUME Settled(x, e)', CheckedOK' PROVE SearchOK'
    <3>1. ASSUME NEW el \in Elements, el[1] = search.archive, el[2] < i + 1 PROVE Settled(x, el)'
      <4>1. CASE el[2] \notin Defs(search.archive, x)
        <5>1. Settled(x, el)
          BY <3>1, <4>1, NotDefined DEF Settled
        <5> QED BY <1>5, <2>8, <5>1
      <4>2. CASE el[2] < search.l
        <5>1. search.l > 1
          BY <1>1, <1>2, <4>2
        <5>2. Settled(x, el)
          BY <2>3, <2>8, <3>1, <4>2, <5>1 DEF AtOK
        <5> QED BY <1>5, <2>8, <5>2
      <4>3. CASE el[2] \in Defs(search.archive, x) /\ ~(el[2] < search.l)
        <5>1. el[2] \in Nat /\ el = <<el[1], el[2]>>
          BY <1>2
        <5>2. el[2] = i
          BY <1>1, <2>1, <2>8, <3>1, <4>3, <5>1
        <5>3. el = e
          BY <2>0, <3>1, <5>1, <5>2
        <5> QED BY <2>10, <5>3
      <4> QED BY <4>1, <4>2, <4>3
    <3>2. AtOK'
      BY <1>0, <2>4, <2>9, <3>1
    <3> QED BY <1>9, <2>4, <2>6, <2>7, <2>10, <3>2
  <2>11. CASE /\ element_pass[e] \in {-1, search.pass}
              /\ search' = [search EXCEPT !.l = i + 1] /\ UNCHANGED <<hash, queue, element_pass>>
    <3>1. search'.pass = search.pass
      BY <1>1, <2>1, <2>11 DEF SearchTypes
    <3>2. Settled(x, e)
      BY <2>1, <2>3, <2>11 DEF CheckedOK, Checked, Settled
    <3>3. Settled(x, e)'
      BY <1>5, <2>1, <2>8, <3>2
    <3>4. CheckedOK'
      <4>1. (Idle' <=> Idle) /\ \A el : Checked(el)' <=> Checked(el)
        BY <2>1, <2>4, <2>11, <3>1 DEF Idle, Checked
      <4>2. \A n \in Names, el \in Elements : Lacks(n, el)' <=> Lacks(n, el)
        BY <2>11 DEF Lacks, LookedFor, Contents
      <4> QED BY <2>3, <4>1, <4>2 DEF CheckedOK, Elements
    <3> QED BY <2>10, <3>3, <3>4
  <2>12. ASSUME element_pass[e] \notin {-1, search.pass}, NEW k \in 1..(Len(Contents(e)) + 1),
                Decides(e, k), CommonsMade(e, k), k > Len(Contents(e)), LeavesOut(e),
                search' = [search EXCEPT !.l = i + 1]
         PROVE  SearchOK'
    <3>1. search'.pass = search.pass
      BY <1>1, <2>1, <2>12 DEF SearchTypes
    <3>2. \A n \in Names : ~Lacks(n, e)'
      BY <2>1, <2>12, LeftOut
    <3>3. Settled(x, e)'
      BY <3>2 DEF Settled
    <3>4. \A el \in Elements : el # e => element_pass'[el] = element_pass[el]
      BY <1>1, <2>12 DEF LeavesOut
    <3>5. ASSUME NEW n \in Names, NEW el \in Elements, Lacks(n, el)' PROVE Lacks(n, el)
      <4>1. hash'[n] = hash[n] \/ (hash[n].type \in {"undef", "com"} /\ hash'[n].type = "com")
        BY <2>1, <2>12, EffectCommons
      <4> QED BY <3>5, <4>1 DEF Lacks, LookedFor, Contents
    <3>6. CheckedOK'
      <4>1. Idle'
        BY <2>1, <2>12 DEF Idle, LeavesOut
      <4>2. ASSUME NEW el \in Elements, Checked(el)', NEW n \in Names PROVE ~Lacks(n, el)'
        <5>1. CASE el = e
          BY <3>2, <5>1
        <5>2. CASE el # e
          <6>1. Checked(el)
            BY <2>4, <3>1, <3>4, <4>2, <5>2 DEF Checked
          <6> QED BY <2>3, <3>5, <6>1 DEF CheckedOK
        <5> QED BY <5>1, <5>2
      <4> QED BY <4>1, <4>2 DEF CheckedOK, Elements
    <3> QED BY <2>10, <3>3, <3>6
  <2>13. ASSUME NEW k \in 1..(Len(Contents(e)) + 1), Includes(e, k),
                search' = [search EXCEPT !.l = i + 1, !.pass = Rechecks]
         PROVE  SearchOK'
    <3>1. search'.pass = search.pass + 1
      BY <1>1, <2>1, <2>13 DEF SearchTypes, Rechecks
    <3>2. element_pass'[e] = -1 /\ \A el \in Elements : el # e => element_pass'[el] = element_pass[el]
      BY <1>1, <2>1, <2>13 DEF Includes
    <3>3. Settled(x, e)'
      BY <3>2 DEF Settled
    <3>4. ASSUME NEW el \in Elements PROVE ~Checked(el)'
      <4>1. el[1] = search.archive => element_pass[el] \in Int /\ element_pass[el] <= search.pass
        BY <1>2, <2>1
      <4>2. el[1] = search.archive => element_pass'[el] # search.pass + 1
        BY <1>1, <3>2, <4>1
      <4> QED BY <2>4, <3>1, <4>2 DEF Checked
    <3>5. CheckedOK'
      BY <3>4 DEF CheckedOK, Elements
    <3> QED BY <2>10, <3>3, <3>5
  \* One that is no object file.
  <2>14. CASE /\ element_pass' = [element_pass EXCEPT ![e] = -1]
              /\ search' = [search EXCEPT !.l = i + 1] /\ UNCHANGED <<hash, queue>>
    <3>1. search'.pass = search.pass /\ search.pass \in Nat
      BY <1>1, <2>1, <2>14 DEF SearchTypes
    <3>2. element_pass'[e] = -1 /\ \A el \in Elements : el # e => element_pass'[el] = element_pass[el]
      BY <1>1, <2>1, <2>14
    <3>3. Settled(x, e)'
      BY <3>2 DEF Settled
    <3>4. ASSUME NEW el \in Elements, Checked(el)' PROVE Checked(el)
      <4>1. el # e
        BY <3>1, <3>2, <3>4 DEF Checked
      <4> QED BY <2>4, <3>1, <3>2, <3>4, <4>1 DEF Checked
    <3>5. \A n \in Names, el \in Elements : Lacks(n, el)' <=> Lacks(n, el)
      BY <2>14 DEF Lacks, LookedFor, Contents
    <3>6. Idle' <=> Idle
      BY <2>1, <2>14 DEF Idle
    <3>7. CheckedOK'
      BY <2>3, <3>4, <3>5, <3>6 DEF CheckedOK, Elements
    <3> QED BY <2>10, <3>3, <3>7
  <2> QED BY <2>2, <2>11, <2>12, <2>13, <2>14
<1> QED BY <1>10, <1>13, <1>14, <1>15, <1>16, <1>17, <1>18, <1>19 DEF Next, Searches

-----------------------------------------------------------------------------
(* The invariant holds.                                                    *)

\* The entries and the list before anything is added: the symbols given with -u.
LEMMA InitFacts ==
  ASSUME Init
  PROVE  \E U \in SUBSET Names :
           /\ \A x \in Names :
                /\ hash[x].type = (IF x \in U THEN "undef" ELSE "new") /\ hash[x].owner = NoOwner
                /\ hash[x].value = 0 /\ hash[x].link = <<"NULL", 0>>
                /\ hash[x].warnings = <<>> /\ hash[x] \in Entries
                /\ seen[x] \in Seq(Statements)
                /\ x \notin U => seen[x] = <<>> /\ hash[x].next = "NULL"
                /\ x \in U => /\ seen[x] = <<[row |-> "UNDEF_ROW", value |-> 0, owner |-> NoOwner]>>
                              /\ Referenced(x)
                /\ Said(x) = IF x \in U THEN {"UNDEF_ROW"} ELSE {}
           /\ hash \in [Names -> Entries] /\ seen \in [Names -> Seq(Statements)]
           /\ {undefs, undefs_tail} \subseteq Names \cup {"NULL"}
           /\ HasList /\ \A x : OnList(x) <=> x \in U
<1>1. PICK q \in Lists :
        /\ hash = [n \in Names |-> IF n \in ToSet(q)
                                  THEN [NewEntry EXCEPT !.type = "undef", !.next = NextOn(q, n)]
                                  ELSE NewEntry]
        /\ undefs = HeadOf(q) /\ undefs_tail = TailOf(q)
        /\ seen = [n \in Names |-> IF n \in ToSet(q)
                                  THEN <<[row |-> "UNDEF_ROW", value |-> 0, owner |-> NoOwner]>>
                                  ELSE <<>>]
  BY DEF Init
<1>2. q \in Seq(Names) /\ \A i, j \in DOMAIN q : q[i] = q[j] => i = j
  BY <1>1, ListsAre
<1> DEFINE U == ToSet(q)
<1>3. /\ U \in SUBSET Names /\ \A x : x \in U <=> \E i \in DOMAIN q : q[i] = x
      /\ "NULL" \notin Names
  BY <1>2, LinkSymbolsAssumption DEF ToSet
<1>4. \A i \in DOMAIN q : NextOn(q, q[i]) = IF i < Len(q) THEN q[i + 1] ELSE "NULL"
  <2> TAKE i \in DOMAIN q
  <2>1. (CHOOSE j \in DOMAIN q : q[j] = q[i]) = i
    BY <1>2
  <2> QED BY <2>1 DEF NextOn
<1>5. \A x \in U : NextOn(q, x) \in Names \cup {"NULL"}
  <2> TAKE x \in U
  <2>1. PICK i \in DOMAIN q : q[i] = x
    BY <1>3
  <2>2. i < Len(q) => q[i + 1] \in Names
    BY <1>2
  <2> QED BY <1>4, <2>1, <2>2
<1> HIDE DEF U
<1>6. NoOwner \in Owners
  BY LinkSymbolsAssumption DEF Owners, NoOwner
<1>7. /\ NewEntry \in Entries
      /\ \A n \in Names \cup {"NULL"} : [NewEntry EXCEPT !.type = "undef", !.next = n] \in Entries
  <2>1. \A S : <<>> \in Seq(S)
    OBVIOUS
  <2>2. <<>> \in Seq(BOOLEAN)
    BY <2>1, Zenon
  <2>3. <<"NULL", 0>> \in Pointers /\ "new" \in Types /\ "undef" \in Types
    BY DEF Pointers, Types
  <2> QED BY <1>6, <2>2, <2>3 DEF NewEntry, Entries
<1>8. hash = [n \in Names |-> IF n \in U THEN [NewEntry EXCEPT !.type = "undef", !.next = NextOn(q, n)]
                              ELSE NewEntry]
  BY <1>1 DEF U
<1>9. hash \in [Names -> Entries]
  BY <1>5, <1>7, <1>8
<1>10. \A x \in Names :
         /\ hash[x].type = (IF x \in U THEN "undef" ELSE "new") /\ hash[x].owner = NoOwner
         /\ hash[x].value = 0 /\ hash[x].link = <<"NULL", 0>> /\ hash[x].warnings = <<>>
         /\ hash[x].next = (IF x \in U THEN NextOn(q, x) ELSE "NULL")
  BY <1>8 DEF NewEntry
<1>11. [row |-> "UNDEF_ROW", value |-> 0, owner |-> NoOwner] \in Statements
  BY <1>6 DEF Statements, Rows
<1>12. ASSUME NEW x \in Names
       PROVE  /\ seen[x] \in Seq(Statements)
              /\ x \notin U => seen[x] = <<>>
              /\ x \in U => seen[x] = <<[row |-> "UNDEF_ROW", value |-> 0, owner |-> NoOwner]>>
  <2>1. seen = [n \in Names |-> IF n \in U
                               THEN <<[row |-> "UNDEF_ROW", value |-> 0, owner |-> NoOwner]>> ELSE <<>>]
    BY <1>1 DEF U
  <2> QED BY <1>11, <2>1
<1>13. seen \in [Names -> Seq(Statements)]
  <2>1. seen = [n \in Names |-> seen[n]]
    BY <1>1
  <2> QED BY <1>12, <2>1
<1>14. ASSUME NEW x \in Names PROVE Said(x) = IF x \in U THEN {"UNDEF_ROW"} ELSE {}
  BY <1>12 DEF Said
<1>15. /\ undefs = (IF q = <<>> THEN "NULL" ELSE q[1])
       /\ undefs_tail = (IF q = <<>> THEN "NULL" ELSE q[Len(q)])
  <2>1. undefs = HeadOf(q) /\ undefs_tail = TailOf(q)
    BY <1>1
  <2>2. q # <<>> => Head(q) = q[1]
    BY <1>2
  <2> QED BY <2>1, <2>2 DEF HeadOf, TailOf, Last
<1>16. {undefs, undefs_tail} \subseteq Names \cup {"NULL"}
  <2>1. q # <<>> => Len(q) \in DOMAIN q /\ 1 \in DOMAIN q
    BY <1>2
  <2> QED BY <1>2, <1>15, <2>1
<1>17. Chain(q, Nexts, undefs, undefs_tail)
  <2>1. \A i \in DOMAIN q : Nexts[q[i]] = IF i < Len(q) THEN q[i + 1] ELSE "NULL"
    <3> TAKE i \in DOMAIN q
    <3>1. q[i] \in Names /\ q[i] \in U
      BY <1>2, <1>3
    <3> QED BY <1>4, <1>10, <3>1 DEF Nexts
  <2> QED BY <1>2, <1>15, <2>1 DEF Chain
<1>18. HasList
  BY <1>17, ListIs DEF HasList, IsChain
<1>19. \A x : OnList(x) <=> x \in U
  BY <1>3, <1>17, TheList, ListIs
<1>20. \A x \in U : Referenced(x)
  <2> TAKE x \in U
  <2>1. PICK i \in DOMAIN q : q[i] = x
    BY <1>3
  <2>2. hash[x].next = IF i < Len(q) THEN q[i + 1] ELSE "NULL"
    BY <1>3, <1>4, <1>10, <2>1
  <2>3. i < Len(q) => q[i + 1] \in Names
    BY <1>2
  <2>4. ~(i < Len(q)) => i = Len(q) /\ q # <<>>
    BY <1>2
  <2> QED BY <1>3, <1>15, <2>1, <2>2, <2>3, <2>4 DEF Referenced
<1> QED BY <1>3, <1>9, <1>10, <1>12, <1>13, <1>14, <1>16, <1>18, <1>19, <1>20

\* The invariant holds at first.
LEMMA InitOK ==
  ASSUME Init
  PROVE  LinkInv
<1>1. PICK U \in SUBSET Names :
        /\ \A x \in Names :
             /\ hash[x].type = (IF x \in U THEN "undef" ELSE "new") /\ hash[x].owner = NoOwner
             /\ hash[x].value = 0 /\ hash[x].link = <<"NULL", 0>>
             /\ hash[x].warnings = <<>> /\ hash[x] \in Entries
             /\ seen[x] \in Seq(Statements)
             /\ x \notin U => seen[x] = <<>> /\ hash[x].next = "NULL"
             /\ x \in U => /\ seen[x] = <<[row |-> "UNDEF_ROW", value |-> 0, owner |-> NoOwner]>>
                           /\ Referenced(x)
             /\ Said(x) = IF x \in U THEN {"UNDEF_ROW"} ELSE {}
        /\ hash \in [Names -> Entries] /\ seen \in [Names -> Seq(Statements)]
        /\ {undefs, undefs_tail} \subseteq Names \cup {"NULL"}
        /\ HasList /\ \A x : OnList(x) <=> x \in U
  BY InitFacts
<1>2. /\ queue = [syms |-> <<>>, owner |-> NoOwner] /\ cur = NotAdding /\ search = NotSearching
      /\ archive_pass = [a \in DOMAIN Archives |-> 0] /\ element_pass = [el \in Elements |-> 0]
      /\ reports = {} /\ left.objects = MaxObjects /\ left.searches = MaxSearches
  BY DEF Init
<1>3. /\ cur.on = FALSE /\ search.on = FALSE /\ search.archive = 0 /\ search.pundef = "HEAD"
      /\ "NULL" \notin Names
  BY <1>2, LinkSymbolsAssumption DEF NotAdding, NotSearching
<1>4. \A x \in Names : ~LinkedTo(x)
  BY <1>1, <1>3 DEF LinkedTo
<1>5. StrongTypes
  <2>1. NoOwner \in Owners
    BY LinkSymbolsAssumption DEF Owners, NoOwner
  <2>2. queue \in [syms : Seq(Symbols \cup UNION {ToSet(Contents(el)) : el \in Elements}), owner : Owners]
    BY <1>2, <2>1
  <2>3. search \in [on : BOOLEAN, group : BOOLEAN, archive : 0..Len(Archives), pass : Nat,
                    pundef : Names \cup {"HEAD"}, l : Nat \ {0}, undefs : Names \cup {"NULL"}]
    BY <1>2, LinkSymbolsAssumption DEF NotSearching
  <2>4. archive_pass \in [DOMAIN Archives -> Nat] /\ element_pass \in [Elements -> Int]
    BY <1>2
  <2>5. \A el \in Elements :
          element_pass[el] \in -1..(IF search.on /\ search.archive = el[1] THEN search.pass
                                    ELSE archive_pass[el[1]])
    <3> TAKE el \in Elements
    <3>1. el[1] \in DOMAIN Archives
      BY ElementFacts
    <3> QED BY <1>2, <1>3, <3>1
  <2>6. left.objects \in 0..MaxObjects /\ left.searches \in 0..MaxSearches
    BY <1>2, LinkSymbolsAssumption
  <2>7. hash \in [Names -> [type : Types, owner : Owners, value : Nat, link : Pointers,
                            next : Names \cup {"NULL"}, warnings : Seq(BOOLEAN)]]
    BY <1>1 DEF Entries
  <2>8. TypeOK
    BY <1>1, <1>3, <2>2, <2>3, <2>4, <2>5, <2>6, <2>7 DEF TypeOK
  <2> QED BY <1>1, <1>2, <1>3, <2>4, <2>8 DEF StrongTypes
<1>6. CurOK
  BY <1>1, <1>3, <1>4 DEF CurOK
<1>7. ListOK
  <2>1. \A x \in Names : Placed(x)
    BY <1>1 DEF Placed
  <2> QED BY <1>1, <1>3, <2>1 DEF ListOK, SearchOnList
<1>8. PushOK
  <2>1. Pushed(U)
    BY <1>1, <1>3 DEF Pushed, Reached
  <2> QED BY <2>1 DEF PushOK
<1>9. PlainOK
  <2>1. ASSUME NEW x \in Names PROVE Right(hash[x], seen[x]) /\ ~Clash(seen[x])
    <3>1. CASE x \in U
      <4> DEFINE first == [row |-> "UNDEF_ROW", value |-> 0, owner |-> NoOwner]
      <4>0. seen[x] = <<first>> /\ first.row = "UNDEF_ROW"
        BY <1>1, <3>1
      <4> HIDE DEF first
      <4>1. DOMAIN seen[x] = {1} /\ seen[x][1].row = "UNDEF_ROW"
        BY <4>0
      <4>2. hash[x].type = "undef"
        BY <1>1, <3>1
      <4> QED BY <4>1, <4>2 DEF Right, Clash, Has, IsFirst
    <3>2. CASE x \notin U
      <4>1. DOMAIN seen[x] = {} /\ hash[x].type = "new"
        BY <1>1, <3>2
      <4> QED BY <4>1 DEF Right, Clash, Has, IsFirst
    <3> QED BY <3>1, <3>2
  <2> QED BY <1>2, <1>3, <2>1 DEF PlainOK, Heard, Plain
<1>10. WarnOK
  BY <1>1, <1>2 DEF WarnOK
<1>11. SearchOK
  BY <1>3 DEF SearchOK
<1> QED BY <1>5, <1>6, <1>7, <1>8, <1>9, <1>10, <1>11 DEF LinkInv

\* Nothing changes.
LEMMA StutterOK ==
  ASSUME LinkInv, UNCHANGED vars
  PROVE  LinkInv'
<1>1. UNCHANGED <<hash, undefs, undefs_tail, queue, cur, search, archive_pass, element_pass, seen, reports, left>>
  BY DEF vars
<1>2. StrongTypes'
  BY <1>1 DEF LinkInv, StrongTypes, TypeOK, Elements, Contents, Owners
<1>3. /\ HasList /\ SearchOnList
  BY DEF LinkInv, ListOK
<1>4. HasList' /\ (\A x : OnList(x)' <=> OnList(x)) /\ \A x : Passed(x)' <=> Passed(x)
  BY <1>1, <1>3, ListSame
<1>5. \A x : (LinkedTo(x)' <=> LinkedTo(x)) /\ Said(x)' = Said(x) /\ (Unlisted(x)' <=> Unlisted(x))
  BY <1>1 DEF LinkedTo, Said, Unlisted
<1>6. Plain' = Plain
  BY <1>1 DEF Plain, Said
<1>7. CurOK'
  BY <1>1, <1>5, <1>6 DEF LinkInv, CurOK, Lookup
<1>8. ListOK'
  BY <1>1, <1>4, <1>5 DEF LinkInv, ListOK, SearchOnList, Placed
<1>9. PushOK'
  BY <1>1, <1>5 DEF LinkInv, PushOK, Pushed, Reached
<1>10. PlainOK'
  BY <1>1, <1>6 DEF LinkInv, PlainOK, Heard
<1>11. WarnOK'
  BY <1>1, <1>5 DEF LinkInv, WarnOK, Referenced, Reached, Lookup
<1>12. SearchOK'
  <2>1. /\ \A x, el : (Settled(x, el)' <=> Settled(x, el)) /\ (Lacks(x, el)' <=> Lacks(x, el))
        /\ At' = At /\ (Idle' <=> Idle) /\ (\A el : Checked(el)' <=> Checked(el)) /\ Elements' = Elements
    BY <1>1 DEF Settled, Lacks, LookedFor, Contents, At, Idle, Checked, Elements
  <2>2. AtOK' <=> AtOK
    BY <1>1 DEF AtOK, Settled, Lacks, LookedFor, Contents, At, Elements
  <2> QED BY <1>1, <1>4, <2>1, <2>2 DEF LinkInv, SearchOK, CheckedOK, PassedOK, GroupOK, OverOK
<1> QED BY <1>2, <1>7, <1>8, <1>9, <1>10, <1>11, <1>12 DEF LinkInv

\* Every step keeps the invariant.
LEMMA Inductive ==
  ASSUME LinkInv, [Next]_vars
  PROVE  LinkInv'
<1>1. CASE UNCHANGED vars
  BY <1>1, StutterOK
<1>2. CASE Next
  <2>1. StrongTypes /\ CurOK /\ ListOK /\ PushOK /\ PlainOK /\ WarnOK /\ SearchOK /\ SearchOnList /\ HasList
    BY DEF LinkInv, ListOK
  <2>2. StrongTypes' /\ CurOK' /\ ListOK' /\ PushOK' /\ PlainOK' /\ WarnOK' /\ SearchOK'
    BY <1>2, <2>1, TypesStep, CurStep, ListStep, PushStep, PlainStep, WarnStep, SearchStep
  <2> QED BY <2>2 DEF LinkInv
<1> QED BY <1>1, <1>2

\* The invariant holds.
LEMMA Invariant == Spec => []LinkInv
<1>1. Init => LinkInv
  BY InitOK
<1>2. LinkInv /\ [Next]_vars => LinkInv'
  BY Inductive
<1> QED BY <1>1, <1>2, PTL DEF Spec

\* The list of undefined symbols goes from its head to its tail, has every undefined symbol that
\* the linker does not make itself, and what a strong reference leads to through indirect
\* symbols is not left unknown or weak (bfd_link_add_undef, REF, IND, REFC and the search).
THEOREM ListIsSound == Spec => []ListSound
<1>1. LinkInv => ListSound
  <2> SUFFICES ASSUME LinkInv PROVE ListSound
    OBVIOUS
  <2>1. TypeOK /\ UndefsListed
    BY DEF LinkInv, StrongTypes, ListOK, HasList, Placed, UndefsListed
  <2>2. ASSUME Idle, NEW x \in Names, hash[x].type = "indr", "UNDEF_ROW" \in Said(x)
        PROVE  hash[Follow(x)].type \notin {"new", "undefw"}
    <3>1. PICK W \in SUBSET Names : Pushed(W)
      BY DEF LinkInv, PushOK
    <3>2. Reached = {}
      BY <2>2 DEF Idle, Reached
    <3>3. /\ x \in W /\ \A y \in W : hash[y].type = "indr" => hash[y].link[1] \in W
          /\ \A y \in W : hash[y].type \notin {"new", "undefw"}
      BY <2>2, <3>1, <3>2 DEF Pushed
    <3>4. Follow(x) \in W
      BY <3>1, <3>3, FollowIn
    <3> QED BY <3>3, <3>4
  <2>3. ReferencePushed
    BY <2>2 DEF ReferencePushed
  <2> QED BY <2>1, <2>3 DEF ListSound
<1> QED BY <1>1, Invariant, PTL

\* Between two files every symbol that has nothing to do with indirection is what the files say
\* of it: the first strong definition, else the first that is weak or common, and a common one
\* as big as the biggest (the table of actions, BIG and the common symbols of archives).
THEOREM ResolvedAsSaid == Spec => []ResolvedRight
<1>1. LinkInv => ResolvedRight
  <2> SUFFICES ASSUME LinkInv, Idle, NEW x \in Plain
               PROVE  LET entry == hash[x]
                          said == seen[x]
                          weak == {"DEFW_ROW", "COMMON_ROW"}
                      IN \/ \E i \in DOMAIN said :
                              First(x, {"DEF_ROW"}, i)
                              /\ entry.type = "def" /\ entry.owner = said[i].owner /\ entry.value = said[i].value
                         \/ /\ "DEF_ROW" \notin Said(x)
                            /\ \E i \in DOMAIN said :
                                 First(x, weak, i) /\ said[i].row = "DEFW_ROW"
                                 /\ entry.type = "defw" /\ entry.owner = said[i].owner
                         \/ /\ "DEF_ROW" \notin Said(x)
                            /\ \E i \in DOMAIN said : First(x, weak, i) /\ said[i].row = "COMMON_ROW"
                            /\ entry.type = "com" /\ entry.value = Max(Sizes(x))
                         \/ /\ Said(x) \cap {"DEF_ROW", "DEFW_ROW", "COMMON_ROW"} = {}
                            /\ entry.type = (IF "UNDEF_ROW" \in Said(x) THEN "undef"
                                             ELSE IF "UNDEFW_ROW" \in Said(x) THEN "undefw" ELSE "new")
    BY DEF ResolvedRight
  <2>1. Right(hash[x], seen[x])
    BY DEF LinkInv, PlainOK, Heard, Idle
  <2>2. x \in Names /\ seen[x] \in Seq(Statements)
    BY DEF Plain, LinkInv, StrongTypes
  <2>3. \A rows, i : First(x, rows, i) <=> IsFirst(seen[x], rows, i)
    BY DEF First, IsFirst
  <2>4. \A row : row \in Said(x) <=> Has(seen[x], {row})
    BY DEF Said, Has
  <2>5. Has(seen[x], {"DEF_ROW", "DEFW_ROW", "COMMON_ROW"}) <=>
          Said(x) \cap {"DEF_ROW", "DEFW_ROW", "COMMON_ROW"} # {}
    BY DEF Said, Has
  <2>6. CASE hash[x].type \in {"new", "undef", "undefw"}
    BY <2>1, <2>4, <2>5, <2>6 DEF Right
  <2>7. CASE hash[x].type = "def"
    BY <2>1, <2>3, <2>7 DEF Right
  <2>8. CASE hash[x].type = "defw"
    BY <2>1, <2>3, <2>4, <2>8 DEF Right, WeakRows
  <2>9. CASE hash[x].type = "com"
    <3>1. /\ \E i \in DOMAIN seen[x] : IsFirst(seen[x], WeakRows, i) /\ seen[x][i].row = "COMMON_ROW"
          /\ ~Has(seen[x], {"DEF_ROW"})
      BY <2>1, <2>9 DEF Right
    <3>2. hash[x].value \in Sizes(x) /\ \A v \in Sizes(x) : v <= hash[x].value
      BY <2>1, <2>9 DEF Right, Sizes
    <3>3. Sizes(x) \subseteq Nat
      <4>1. \A i \in DOMAIN seen[x] : seen[x][i] \in Statements
        BY <2>2
      <4>2. \A i \in DOMAIN seen[x] : seen[x][i].value \in Nat
        BY <4>1 DEF Statements
      <4> QED BY <4>2 DEF Sizes
    <3>4. hash[x].value = Max(Sizes(x))
      BY <3>2, <3>3, MaxNat
    <3> QED BY <2>3, <2>4, <2>9, <3>1, <3>4 DEF WeakRows
  <2> QED BY <2>1, <2>6, <2>7, <2>8, <2>9 DEF Right
<1> QED BY <1>1, Invariant, PTL

\* Between two files a multiple definition has been reported exactly if there is one, and the
\* warning of a symbol that is referenced has been issued, whichever came first (MDEF, WARN,
\* CWARN, WARNC).
THEOREM AllReported == Spec => []Reported
<1>1. LinkInv => Reported
  <2> SUFFICES ASSUME LinkInv PROVE Reported
    OBVIOUS
  <2>1. MultipleReported
    <3>1. ASSUME Idle, NEW x \in Plain PROVE <<"multiple_definition", x>> \in reports <=> Clash(seen[x])
      BY <3>1 DEF LinkInv, PlainOK, Heard, Idle
    <3> QED BY <3>1 DEF MultipleReported, Clash, First, IsFirst
  <2>2. WarningIssued
    <3>1. ASSUME Idle, NEW x \in Names, {"UNDEF_ROW", "WARN_ROW"} \subseteq Said(x), ~Unlisted(x)
          PROVE  <<"warning", x>> \in reports
      BY <3>1 DEF LinkInv, WarnOK, Idle
    <3> QED BY <3>1 DEF WarningIssued
  <2> QED BY <2>1, <2>2 DEF Reported
<1> QED BY <1>1, Invariant, PTL

\* After the search of an archive or a group no element that was left out defines a symbol on
\* the list that is still looked for (the passes and the group's repetitions).
THEOREM SearchIsComplete == Spec => []SearchComplete
<1>1. LinkInv => SearchComplete
  <2> SUFFICES ASSUME LinkInv, ~search.on, search.archive # 0,
                      NEW x \in Names, OnList(x), NEW el \in Elements, search.group \/ el[1] = search.archive,
                      NEW i \in DOMAIN Contents(el), Contents(el)[i].name = x, Defines(Contents(el)[i]),
                      hash[x].type = "undef" \/ (hash[x].type = "com" /\ Contents(el)[i].row # "COMMON_ROW")
               PROVE  element_pass[el] = -1
    BY DEF SearchComplete
  <2>1. OverOK
    BY DEF LinkInv, SearchOK
  <2>2. Settled(x, el)
    BY <2>1 DEF OverOK
  <2>3. Lacks(x, el)
    BY DEF Lacks, LookedFor
  <2> QED BY <2>2, <2>3 DEF Settled
<1> QED BY <1>1, Invariant, PTL
=============================================================================
