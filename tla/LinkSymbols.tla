---------------------------- MODULE LinkSymbols ----------------------------
(***************************************************************************)
(* How the linker resolves symbols: BFD's link hash table with the table   *)
(* of actions that adds one symbol to it, the list of undefined symbols    *)
(* and the search of archives (bfd/linker.c), and what ld does around them *)
(* (-u and groups in ld/ldlang.c, callbacks in ld/ldmain.c).               *)
(*                                                                         *)
(* An entry of the hash table is named by its symbol.  A warning symbol    *)
(* takes the place of the entry in the table and points to it, so that an  *)
(* entry may be wrapped several times: <<n, k>> is a pointer to the k-th   *)
(* wrapper of n's entry, and to the entry itself if k = 0.                 *)
(***************************************************************************)
EXTENDS Integers, Sequences, SequencesExt, FiniteSets, FiniteSetsExt

CONSTANTS
  Names,       \* the symbols
  Symbols,     \* what an object file may say of one
  Archives,    \* the archives: sequences of elements, which are sequences of Symbols
  Foreign,     \* elements that are in the map of an archive and are no object files
  Undefineds,  \* the symbols that may be given with -u
  MaxObjects,  \* how many object files there may be besides the archives
  MaxSearches, \* how many times archives are searched
  build_constructors  \* does the linker make the sets?  Not with -r.

Rows == {"UNDEF_ROW", "UNDEFW_ROW", "DEF_ROW", "DEFW_ROW", "COMMON_ROW", "INDR_ROW", "WARN_ROW",
         "SET_ROW"}

\* "value" is the size of a common symbol, and the value of a definition if it is absolute,
\* else 0.  "string" is the symbol that an indirect one points to.
ASSUME LinkSymbolsAssumption ==
  /\ IsFiniteSet(Names) /\ "NULL" \notin Names /\ "HEAD" \notin Names /\ Undefineds \subseteq Names
  /\ Symbols \subseteq [name : Names, row : Rows, value : Nat, string : Names]
  /\ Archives \in Seq(Seq(Seq([name : Names, row : Rows, value : Nat, string : Names])))
  /\ MaxObjects \in Nat /\ MaxSearches \in Nat /\ build_constructors \in BOOLEAN

VARIABLES
  hash,          \* the entries of the hash table
  undefs, undefs_tail,
  queue,         \* the symbols of the file being added that are still to be added
  cur,           \* the symbol being added, and how far it is
  search,        \* the search of archives, if one is under way
  archive_pass,  \* of the archives
  element_pass,  \* archive_pass of their elements
  seen,          \* history: what was said of each symbol
  reports,       \* history: the callbacks
  left           \* how many objects and searches are left

vars == <<hash, undefs, undefs_tail, queue, cur, search, archive_pass, element_pass, seen, reports,
          left>>

Elements == UNION {{<<a, i>> : i \in DOMAIN Archives[a]} : a \in DOMAIN Archives}
Contents(el) == Archives[el[1]][el[2]]

\* The files: <<0, i>> is an object file, <<a, i>> an element of the archive a.
NoOwner == <<0, 0>>

\* "warnings" has the wrappers, the innermost first: is the warning still to be issued?
NewEntry ==
  [type |-> "new", owner |-> NoOwner, value |-> 0, link |-> <<"NULL", 0>>, next |-> "NULL",
   warnings |-> <<>>]

NotAdding ==
  [on |-> FALSE, h |-> <<"NULL", 0>>, row |-> "NULL", sym |-> [name |-> "NULL"], owner |-> NoOwner]
NotSearching ==
  [on |-> FALSE, group |-> FALSE, archive |-> 0, pass |-> 0, pundef |-> "HEAD", l |-> 1,
   undefs |-> "NULL"]

\* What may be on a list on which no symbol is twice, in what order.
Lists == SetToAllKPermutations(Names)
HeadOf(list) == IF list = <<>> THEN "NULL" ELSE Head(list)
TailOf(list) == IF list = <<>> THEN "NULL" ELSE Last(list)

\* The symbol after x on it.
NextOn(list, x) ==
  LET i == CHOOSE i \in DOMAIN list : list[i] = x IN IF i < Len(list) THEN list[i + 1] ELSE "NULL"

\* lang_place_undefineds: the symbols given with -u are undefined, one that is given twice once.
Init ==
  /\ \E list \in Lists :
       /\ ToSet(list) \subseteq Undefineds
       /\ hash = [n \in Names |-> IF n \in ToSet(list)
                                 THEN [NewEntry EXCEPT !.type = "undef", !.next = NextOn(list, n)]
                                 ELSE NewEntry]
       /\ undefs = HeadOf(list) /\ undefs_tail = TailOf(list)
       /\ seen = [n \in Names |-> IF n \in ToSet(list)
                                 THEN <<[row |-> "UNDEF_ROW", value |-> 0, owner |-> NoOwner]>>
                                 ELSE <<>>]
  /\ queue = [syms |-> <<>>, owner |-> NoOwner] /\ cur = NotAdding /\ search = NotSearching
  /\ archive_pass = [a \in DOMAIN Archives |-> 0] /\ element_pass = [el \in Elements |-> 0]
  /\ reports = {} /\ left = [objects |-> MaxObjects, searches |-> MaxSearches]

-----------------------------------------------------------------------------
(* The hash table and the list of undefined symbols *)

\* what bfd_link_hash_lookup finds without "follow"
Lookup(n) == <<n, Len(hash[n].warnings)>>
Type(h) == IF h[2] > 0 THEN "warn" ELSE hash[h[1]].type
\* u.i.link of a warning and of an indirect symbol
LinkOf(h) == IF h[2] > 0 THEN <<h[1], h[2] - 1>> ELSE hash[h[1]].link

\* what bfd_link_hash_lookup finds with "follow", if the links do not go round
Follow(n) ==
  LET next == [x \in Names |-> IF hash[x].type = "indr" THEN hash[x].link[1] ELSE x]
      at[i \in 0..Cardinality(Names)] == IF i = 0 THEN n ELSE next[at[i - 1]]
  IN at[Cardinality(Names)]

\* bfd_link_add_undef; "table" is the hash table with the change that makes n undefined.
AddUndef(table, n) ==
  /\ hash' = IF undefs_tail = "NULL" THEN table ELSE [table EXCEPT ![undefs_tail].next = n]
  /\ undefs' = IF undefs = "NULL" THEN n ELSE undefs
  /\ undefs_tail' = n

Referenced(n) == hash[n].next # "NULL" \/ undefs_tail = n
\* A symbol that is not on the list is marked as referenced by a link to itself.
Marked(n) == [hash EXCEPT ![n].next = IF Referenced(n) THEN @ ELSE n]

-----------------------------------------------------------------------------
(* _bfd_generic_link_add_one_symbol *)

link_action ==
  LET Line(new, undef, undefw, def, defw, com, indr, warn) ==
        [new |-> new, undef |-> undef, undefw |-> undefw, def |-> def, defw |-> defw,
         com |-> com, indr |-> indr, warn |-> warn]
  IN [UNDEF_ROW  |-> Line("UND",   "NOACT", "UND",   "REF",   "REF",   "NOACT", "REFC",  "WARNC"),
      UNDEFW_ROW |-> Line("WEAK",  "NOACT", "NOACT", "REF",   "REF",   "NOACT", "REFC",  "WARNC"),
      DEF_ROW    |-> Line("DEF",   "DEF",   "DEF",   "MDEF",  "DEF",   "CDEF",  "MDEF",  "CYCLE"),
      DEFW_ROW   |-> Line("DEFW",  "DEFW",  "DEFW",  "NOACT", "NOACT", "NOACT", "NOACT", "CYCLE"),
      COMMON_ROW |-> Line("COM",   "COM",   "COM",   "CREF",  "CREF",  "BIG",   "REFC",  "WARNC"),
      INDR_ROW   |-> Line("IND",   "IND",   "IND",   "MDEF",  "IND",   "CIND",  "MIND",  "CYCLE"),
      WARN_ROW   |-> Line("MWARN", "WARN",  "WARN",  "CWARN", "CWARN", "WARN",  "CWARN", "MWARN"),
      SET_ROW    |-> Line("SET",   "SET",   "SET",   "SET",   "SET",   "SET",   "CYCLE", "CYCLE")]

\* The action for the entry that the addition has come to.
Does(action) == cur.on /\ link_action[cur.row][Type(cur.h)] = action
This == cur.h[1]

Done == cur' = NotAdding
Cycle(h) == cur' = [cur EXCEPT !.h = h]
Callback(what) == reports' = reports \cup {<<what, This>>}
SameList == UNCHANGED <<undefs, undefs_tail>>
Outside == UNCHANGED <<queue, search, archive_pass, element_pass, seen, left>>

\* The next symbol of a file is looked up.
AddOneSymbol ==
  /\ ~cur.on /\ queue.syms # <<>>
  /\ LET sym == Head(queue.syms) IN
       /\ cur' = [on |-> TRUE, h |-> Lookup(sym.name), row |-> sym.row, sym |-> sym,
                  owner |-> queue.owner]
       /\ seen' = [seen EXCEPT ![sym.name] =
                     Append(@, [row |-> sym.row, value |-> sym.value, owner |-> queue.owner])]
  /\ queue' = [queue EXCEPT !.syms = Tail(@)]
  /\ UNCHANGED <<hash, undefs, undefs_tail, search, archive_pass, element_pass, reports, left>>

ActNOACT == Does("NOACT") /\ Done /\ UNCHANGED <<hash, reports>> /\ SameList /\ Outside

ActUND ==
  /\ Does("UND")
  /\ AddUndef([hash EXCEPT ![This].type = "undef", ![This].owner = cur.owner], This)
  /\ Done /\ UNCHANGED reports /\ Outside

ActWEAK ==
  /\ Does("WEAK")
  /\ hash' = [hash EXCEPT ![This].type = "undefw", ![This].owner = cur.owner]
  /\ Done /\ UNCHANGED reports /\ SameList /\ Outside

\* DEF, DEFW and CDEF, with the callback for the last
ActDEF ==
  /\ Does("DEF") \/ Does("DEFW") \/ Does("CDEF")
  /\ hash' = [hash EXCEPT ![This].type = IF Does("DEFW") THEN "defw" ELSE "def",
                          ![This].owner = cur.owner, ![This].value = cur.sym.value]
  /\ IF Does("CDEF") THEN Callback("multiple_common") ELSE UNCHANGED reports
  /\ Done /\ SameList /\ Outside

\* Mutant of ActCOM: a symbol is put on the list though it is there.
ActCOMTwice ==
  /\ Does("COM")
  /\ AddUndef([hash EXCEPT ![This].type = "com", ![This].owner = cur.owner,
                           ![This].value = cur.sym.value], This)
  /\ Done /\ UNCHANGED reports /\ Outside

ActCOM ==
  /\ Does("COM")
  /\ LET table == [hash EXCEPT ![This].type = "com", ![This].owner = cur.owner,
                               ![This].value = cur.sym.value]
     IN IF Type(cur.h) = "new" THEN AddUndef(table, This) ELSE hash' = table /\ SameList
  /\ Done /\ UNCHANGED reports /\ Outside

\* Mutant of ActREF: the reference is not marked.
ActREFUnmarked ==
  /\ Does("REF")
  /\ hash' = hash
  /\ Done /\ UNCHANGED reports /\ SameList /\ Outside

ActREF ==
  /\ Does("REF")
  /\ hash' = Marked(This)
  /\ Done /\ UNCHANGED reports /\ SameList /\ Outside

\* Mutant of Bigger: the last size is taken.
BiggerOrNot(old, new) == new

Bigger(old, new) == IF new > old THEN new ELSE old

ActBIG ==
  /\ Does("BIG")
  /\ hash' = [hash EXCEPT ![This].value = Bigger(@, cur.sym.value)]
  /\ Done /\ Callback("multiple_common") /\ SameList /\ Outside

ActCREF ==
  /\ Does("CREF")
  /\ Done /\ Callback("multiple_common") /\ UNCHANGED hash /\ SameList /\ Outside

\* Mutant of Harmless: the symbols need not be absolute.
HarmlessAnySection ==
  \/ Does("MIND") /\ hash[This].link[1] = cur.sym.string
  \/ Type(cur.h) = "def" /\ cur.row = "DEF_ROW" /\ hash[This].value = cur.sym.value

\* A definition is harmless if it gives an absolute symbol the same value again, and an
\* indirection if it is to the same symbol.
Harmless ==
  \/ Does("MIND") /\ hash[This].link[1] = cur.sym.string
  \/ Type(cur.h) = "def" /\ cur.row = "DEF_ROW" /\ cur.sym.value # 0 /\ hash[This].value = cur.sym.value

ActMDEF ==
  /\ Does("MDEF") \/ Does("MIND")
  /\ IF Harmless THEN UNCHANGED reports ELSE Callback("multiple_definition")
  /\ Done /\ UNCHANGED hash /\ SameList /\ Outside

\* Mutant of PushReference: the reference stays with the symbol.
PushReferenceNever(type) == Done

\* A symbol that becomes indirect passes on a reference: the loop goes round with UNDEF_ROW.
PushReference(type) == IF type = "new" THEN Done ELSE cur' = [cur EXCEPT !.row = "UNDEF_ROW"]

\* IND and CIND.  An entry that is new becomes undefined, and so is not new when it points
\* to itself.
ActIND ==
  /\ Does("IND") \/ Does("CIND")
  /\ LET inh == Lookup(cur.sym.string)
         fresh == Type(inh) = "new"
         linked == [hash EXCEPT ![This].type = "indr", ![This].link = inh]
     IN /\ IF fresh
           THEN AddUndef(IF inh = cur.h THEN linked
                         ELSE [linked EXCEPT ![inh[1]].type = "undef", ![inh[1]].owner = cur.owner],
                         inh[1])
           ELSE hash' = linked /\ SameList
        /\ PushReference(IF fresh /\ inh = cur.h THEN "undef" ELSE Type(cur.h))
  /\ IF Does("CIND") THEN Callback("multiple_common") ELSE UNCHANGED reports
  /\ Outside

\* ld's add_to_set: the linker is going to define the symbol itself, if it makes sets.
ActSET ==
  /\ Does("SET")
  /\ hash' = IF build_constructors /\ Type(cur.h) = "new"
             THEN [hash EXCEPT ![This].type = "undef", ![This].owner = cur.owner] ELSE hash
  /\ Done /\ Callback("add_to_set") /\ SameList /\ Outside

ActWARNC ==
  /\ Does("WARNC")
  /\ hash' = [hash EXCEPT ![This].warnings[cur.h[2]] = FALSE]
  /\ IF hash[This].warnings[cur.h[2]] THEN Callback("warning") ELSE UNCHANGED reports
  /\ Cycle(LinkOf(cur.h)) /\ SameList /\ Outside

ActCYCLE ==
  /\ Does("CYCLE")
  /\ Cycle(LinkOf(cur.h)) /\ UNCHANGED <<hash, reports>> /\ SameList /\ Outside

ActREFC ==
  /\ Does("REFC")
  /\ hash' = Marked(This)
  /\ Cycle(LinkOf(cur.h)) /\ UNCHANGED reports /\ SameList /\ Outside

Warns == Does("WARN") \/ (Does("CWARN") /\ Referenced(This))

ActWARN ==
  /\ Warns
  /\ Done /\ Callback("warning") /\ UNCHANGED hash /\ SameList /\ Outside

\* MWARN, and CWARN for a symbol that has not been referenced
ActMWARN ==
  /\ Does("MWARN") \/ (Does("CWARN") /\ ~Warns)
  /\ hash' = [hash EXCEPT ![This].warnings = Append(@, TRUE)]
  /\ Done /\ UNCHANGED reports /\ SameList /\ Outside

AddsOne ==
  \/ ActNOACT \/ ActUND \/ ActWEAK \/ ActDEF \/ ActCOM \/ ActREF \/ ActBIG \/ ActCREF \/ ActMDEF
  \/ ActIND \/ ActSET \/ ActWARNC \/ ActCYCLE \/ ActREFC \/ ActWARN \/ ActMWARN

-----------------------------------------------------------------------------
(* Object files *)

Idle == ~cur.on /\ queue.syms = <<>>

\* An object file with one symbol is added; one with more is as good as several.
AddObject ==
  /\ Idle /\ ~search.on /\ left.objects > 0
  /\ search' = NotSearching
  /\ \E sym \in Symbols : queue' = [syms |-> <<sym>>, owner |-> <<0, left.objects>>]
  /\ left' = [left EXCEPT !.objects = @ - 1]
  /\ UNCHANGED <<hash, undefs, undefs_tail, cur, archive_pass, element_pass, seen, reports>>

-----------------------------------------------------------------------------
(* _bfd_generic_link_add_archive_symbols, for one archive or for all those *)
(* of a group (open_input_bfds)                                            *)

StartsAt(a, group, tail) ==
  [on |-> TRUE, group |-> group, archive |-> a, pass |-> archive_pass[a] + 1, pundef |-> "HEAD",
   l |-> 1, undefs |-> tail]

SearchBegins ==
  /\ Idle /\ ~search.on /\ left.searches > 0 /\ Archives # <<>>
  /\ \/ \E a \in DOMAIN Archives : search' = StartsAt(a, FALSE, "NULL")
     \/ search' = StartsAt(1, TRUE, undefs_tail)
  /\ left' = [left EXCEPT !.searches = @ - 1]
  /\ UNCHANGED <<hash, undefs, undefs_tail, queue, cur, archive_pass, element_pass, seen, reports>>

At == IF search.pundef = "HEAD" THEN undefs ELSE hash[search.pundef].next
Searching == Idle /\ search.on
Wanted(type) == type \in {"undef", "com"}

\* Mutant of Forgets: the tail is taken off the list too.
ForgetsTail == TRUE

\* May the entry that the search is at be taken off the list?
Forgets == At # undefs_tail

SearchSkips ==
  /\ Searching /\ At # "NULL" /\ ~Wanted(hash[At].type) /\ search.l = 1
  /\ IF ~Forgets
     THEN search' = [search EXCEPT !.pundef = At] /\ UNCHANGED <<hash, undefs>>
     ELSE /\ IF search.pundef = "HEAD" THEN undefs' = hash[At].next /\ UNCHANGED hash
             ELSE hash' = [hash EXCEPT ![search.pundef].next = hash[At].next] /\ UNCHANGED undefs
          /\ UNCHANGED search
  /\ UNCHANGED <<undefs_tail, queue, cur, archive_pass, element_pass, seen, reports, left>>

\* The archive's map: the elements with a definition of n, weak, common or indirect too.
Defines(sym) == sym.row \in {"DEF_ROW", "DEFW_ROW", "COMMON_ROW", "INDR_ROW"}
Defs(a, n) ==
  {i \in DOMAIN Archives[a] :
     \E j \in DOMAIN Archives[a][i] : Archives[a][i][j].name = n /\ Defines(Archives[a][i][j])}

\* Those that are still to be looked at; l is the one after the last that was.
Candidates == {i \in Defs(search.archive, At) : i >= search.l}

\* All the elements that define the symbol were looked at, or it has been defined meanwhile.
SearchGoesOn ==
  /\ Searching /\ At # "NULL"
  /\ \/ Wanted(hash[At].type) /\ Candidates = {}
     \/ ~Wanted(hash[At].type) /\ search.l > 1
  /\ search' = [search EXCEPT !.pundef = At, !.l = 1]
  /\ UNCHANGED <<hash, undefs, undefs_tail, queue, cur, archive_pass, element_pass, seen, reports, left>>

\* generic_link_check_archive_element looks at one symbol of the element after the other,
\* until one says that the element is needed.  A weakly undefined symbol says so too, and a
\* common one only for a symbol given with -u.
LooksAt(sym) ==
  /\ sym.row \in {"DEF_ROW", "DEFW_ROW", "COMMON_ROW", "INDR_ROW", "UNDEFW_ROW"}
  /\ Wanted(hash[Follow(sym.name)].type)
Needs(sym) ==
  /\ LooksAt(sym)
  /\ sym.row = "COMMON_ROW" =>
       LET entry == hash[Follow(sym.name)] IN entry.type = "undef" /\ entry.owner = NoOwner

\* The k-th symbol says so, or none does and k is beyond the last.
Decides(el, k) ==
  /\ \A i \in 1..(k - 1) : ~Needs(Contents(el)[i])
  /\ k <= Len(Contents(el)) => Needs(Contents(el)[k])

\* The common symbols before the k-th make undefined entries common, and common ones bigger.
Commons(el, k, n) ==
  {Contents(el)[i].value : i \in {i \in 1..(k - 1) :
     /\ Contents(el)[i].row = "COMMON_ROW" /\ LooksAt(Contents(el)[i])
     /\ Follow(Contents(el)[i].name) = n}}

CommonsMade(el, k) ==
  /\ hash' = [n \in Names |->
       IF Commons(el, k, n) = {} THEN hash[n]
       ELSE [hash[n] EXCEPT
               !.type = "com",
               !.value = Bigger(IF hash[n].type = "com" THEN @ ELSE 0, Max(Commons(el, k, n)))]]
  /\ seen' = [n \in Names |->
       IF Commons(el, k, n) = {} THEN seen[n]
       ELSE Append(seen[n], [row |-> "COMMON_ROW", value |-> Max(Commons(el, k, n)),
                             owner |-> hash[n].owner])]

\* An element is needed, or is not in this pass.  One that is needed for a common symbol is
\* included, but its symbols are not added.
Includes(el, k) ==
  /\ element_pass' = [element_pass EXCEPT ![el] = -1]
  /\ queue' = IF Contents(el)[k].row = "COMMON_ROW" THEN queue
              ELSE [syms |-> Contents(el), owner |-> el]
LeavesOut(el) ==
  /\ element_pass' = [element_pass EXCEPT ![el] = search.pass]
  /\ UNCHANGED queue

\* The pass that goes on after an element was included: the others may be needed now.
Rechecks == search.pass + 1

SearchLooksAtElement ==
  /\ Searching /\ At # "NULL" /\ Wanted(hash[At].type) /\ Candidates # {}
  /\ LET i == Min(Candidates)
         el == <<search.archive, i>>
     IN \/ /\ element_pass[el] \in {-1, search.pass}
           /\ search' = [search EXCEPT !.l = i + 1]
           /\ UNCHANGED <<hash, seen, queue, element_pass>>
        \/ /\ element_pass[el] \notin {-1, search.pass} /\ el \in Foreign
           /\ element_pass' = [element_pass EXCEPT ![el] = -1]
           /\ search' = [search EXCEPT !.l = i + 1]
           /\ UNCHANGED <<hash, seen, queue>>
        \/ /\ element_pass[el] \notin {-1, search.pass} /\ el \notin Foreign
           /\ \E k \in 1..(Len(Contents(el)) + 1) :
                /\ Decides(el, k)
                /\ CommonsMade(el, k)
                /\ \/ /\ k <= Len(Contents(el)) /\ Includes(el, k)
                      /\ search' = [search EXCEPT !.l = i + 1, !.pass = Rechecks]
                   \/ /\ k > Len(Contents(el)) /\ LeavesOut(el)
                      /\ search' = [search EXCEPT !.l = i + 1]
  /\ UNCHANGED <<undefs, undefs_tail, cur, archive_pass, reports, left>>

\* Mutant of GroupGoesOn: the group is searched once.
GroupGoesOnNever == FALSE

\* "We must continually search the entries in the group until no new symbols are added to
\* the list of undefined symbols."
GroupGoesOn == search.undefs # undefs_tail

\* Mutant of PassSaved: the next search begins with the same pass.
PassSavedNot == archive_pass

PassSaved == [archive_pass EXCEPT ![search.archive] = search.pass]

SearchEnds ==
  /\ Searching /\ At = "NULL"
  /\ archive_pass' = PassSaved
  /\ search' = IF ~search.group THEN [search EXCEPT !.on = FALSE]
               ELSE IF search.archive < Len(Archives)
               THEN StartsAt(search.archive + 1, TRUE, search.undefs)
               ELSE IF GroupGoesOn
               THEN [StartsAt(1, TRUE, undefs_tail) EXCEPT !.pass = archive_pass'[1] + 1]
               ELSE [search EXCEPT !.on = FALSE]
  /\ UNCHANGED <<hash, undefs, undefs_tail, queue, cur, element_pass, seen, reports, left>>

Searches == SearchSkips \/ SearchGoesOn \/ SearchLooksAtElement \/ SearchEnds

Next == AddObject \/ SearchBegins \/ AddOneSymbol \/ AddsOne \/ Searches

Spec == Init /\ [][Next]_vars

\* The linker is run to its end, once it was given its files.
FairSpec == Spec /\ WF_vars(AddOneSymbol \/ AddsOne \/ Searches)

-----------------------------------------------------------------------------
(* Properties *)

Types == {"new", "undef", "undefw", "def", "defw", "com", "indr"}
Owners == {<<0, i>> : i \in 0..MaxObjects} \cup Elements
Pointers == (Names \cup {"NULL"}) \X Nat

\* The types; no element is checked in a pass that has not begun.
TypeOK ==
  /\ hash \in [Names -> [type : Types, owner : Owners, value : Nat, link : Pointers,
                         next : Names \cup {"NULL"}, warnings : Seq(BOOLEAN)]]
  /\ {undefs, undefs_tail} \subseteq Names \cup {"NULL"}
  /\ queue \in [syms : Seq(Symbols \cup UNION {ToSet(Contents(el)) : el \in Elements}), owner : Owners]
  /\ cur.on \in BOOLEAN /\ (cur.on => cur.h \in Names \X Nat /\ cur.row \in Rows)
  /\ search \in [on : BOOLEAN, group : BOOLEAN, archive : 0..Len(Archives), pass : Nat,
                 pundef : Names \cup {"HEAD"}, l : Nat \ {0}, undefs : Names \cup {"NULL"}]
  /\ archive_pass \in [DOMAIN Archives -> Nat]
  /\ \A el \in Elements :
       element_pass[el] \in -1..(IF search.on /\ search.archive = el[1] THEN search.pass
                                 ELSE archive_pass[el[1]])
  /\ left.objects \in 0..MaxObjects /\ left.searches \in 0..MaxSearches

Said(name) == {seen[name][i].row : i \in DOMAIN seen[name]}

\* "list" is the list of undefined symbols, from its head to its tail.
IsList(list) ==
  /\ undefs = HeadOf(list) /\ undefs_tail = TailOf(list)
  /\ \A i \in DOMAIN list : hash[list[i]].next = IF i < Len(list) THEN list[i + 1] ELSE "NULL"

OnList(x) == \E list \in Lists : IsList(list) /\ x \in ToSet(list)

\* "When an undefined or common symbol is created, it should be added to this list", whose
\* links serve as marks of references too (bfdlink.h): it goes from the head to the tail
\* without going round, and every undefined symbol is on it, but for a set the linker makes
\* itself (add_to_set in ldmain.c).
UndefsListed ==
  /\ \E list \in Lists : IsList(list)
  /\ \A x \in Names : (hash[x].type = "undef" /\ <<"add_to_set", x>> \notin reports) => OnList(x)

\* UndefsListed for common symbols.
CommonsListed == \A x \in Names : hash[x].type = "com" => OnList(x)

\* The symbols that have nothing to do with indirection, and are not sets.
Plain ==
  {x \in Names : Said(x) \cap {"INDR_ROW", "SET_ROW"} = {} /\ \A y \in Names : hash[y].link[1] # x}

\* The i-th thing that was said of x is the first with one of these rows.
First(x, rows, i) ==
  i \in DOMAIN seen[x] /\ seen[x][i].row \in rows /\ \A j \in 1..(i - 1) : seen[x][j].row \notin rows

\* The sizes that common definitions of x gave it.
Sizes(x) == {seen[x][i].value : i \in {i \in DOMAIN seen[x] : seen[x][i].row = "COMMON_ROW"}}

\* What the files say of a symbol decides what it is, whatever the order in which the actions
\* are taken: the first strong definition wins; without one the first that is weak or common,
\* and a common symbol is as big as the biggest of its definitions; without any of them it
\* is undefined, weakly so if all references are weak.
ResolvedRight ==
  Idle => \A x \in Plain :
    LET entry == hash[x]
        said == seen[x]
        weak == {"DEFW_ROW", "COMMON_ROW"}
    IN \/ \E i \in DOMAIN said :
            First(x, {"DEF_ROW"}, i)
            /\ entry.type = "def" /\ entry.owner = said[i].owner /\ entry.value = said[i].value
       \/ /\ "DEF_ROW" \notin Said(x)
          /\ \E i \in DOMAIN said :
               First(x, weak, i) /\ said[i].row = "DEFW_ROW"
               /\ entry.type = "defw" /\ entry.owner = said[i].owner
       \/ /\ "DEF_ROW" \notin Said(x)
          /\ \E i \in DOMAIN said : First(x, weak, i) /\ said[i].row = "COMMON_ROW"
          /\ entry.type = "com" /\ entry.value = Max(Sizes(x))
       \/ /\ Said(x) \cap {"DEF_ROW", "DEFW_ROW", "COMMON_ROW"} = {}
          /\ entry.type = (IF "UNDEF_ROW" \in Said(x) THEN "undef"
                           ELSE IF "UNDEFW_ROW" \in Said(x) THEN "undefw" ELSE "new")

\* A multiple definition of a symbol is reported exactly if a second strong definition of it
\* was seen, unless all give an absolute symbol the same value.
MultipleReported ==
  Idle => \A x \in Plain :
    LET clash == \E i, j \in DOMAIN seen[x] :
                   /\ First(x, {"DEF_ROW"}, i) /\ j > i /\ seen[x][j].row = "DEF_ROW"
                   /\ seen[x][j].value = 0 \/ seen[x][j].value # seen[x][i].value
    IN <<"multiple_definition", x>> \in reports <=> clash

\* "A reference to an indirect symbol is counted as a reference both to the indirect symbol
\* and to the symbol the indirect symbol points to" (linker.c), whichever came first: what a
\* strong reference leads to is not left unknown or weak, but undefined or better.
ReferencePushed ==
  Idle => \A x \in Names :
    (hash[x].type = "indr" /\ "UNDEF_ROW" \in Said(x)) => hash[Follow(x)].type \notin {"new", "undefw"}

\* May x have been common and not on the list?  A set is not put there, nor is a symbol that
\* was weakly undefined when it became common, through its own name or an indirect one.
Unlisted(x) ==
  \/ <<"add_to_set", x>> \in reports
  \/ "UNDEFW_ROW" \in Said(x) /\ ("COMMON_ROW" \in Said(x) \/ \E y \in Names : hash[y].link[1] = x)

\* A symbol for which there is a warning and to which there is a strong reference has the
\* warning issued, whichever of the two came first and however the symbol was defined
\* between (REF, CWARN and WARNC).
WarningIssued ==
  Idle => \A x \in Names :
    ({"UNDEF_ROW", "WARN_ROW"} \subseteq Said(x) /\ ~Unlisted(x)) => <<"warning", x>> \in reports

\* The list of undefined symbols has what the linker still has to look for, references through
\* indirect symbols included (bfd_link_add_undef, REF, IND and the archive search).
ListSound == TypeOK /\ UndefsListed /\ ReferencePushed

\* What has to be reported is, whatever the order of the files (MDEF, WARN, CWARN, WARNC).
Reported == MultipleReported /\ WarningIssued

\* After the search of an archive, or of a group, none of the elements that were left out
\* defines a symbol that is still looked for, though the list was gone through only once for
\* each archive.  One that is no object file counts as looked at for good.
SearchComplete ==
  (Idle /\ ~search.on /\ search.archive # 0) =>
    \A x \in {x \in Names : OnList(x)} : \A el \in Elements :
      ( /\ search.group \/ el[1] = search.archive
        /\ \E i \in DOMAIN Contents(el) :
             Contents(el)[i].name = x /\ Defines(Contents(el)[i])
               /\ (hash[x].type = "undef" \/ (hash[x].type = "com" /\ Contents(el)[i].row # "COMMON_ROW"))
      ) => element_pass[el] = -1

\* The addition of symbols and the search of archives end, as long as no symbol is an
\* indirection to itself.
LinkEnds == []<>(Idle /\ ~search.on)
=============================================================================
