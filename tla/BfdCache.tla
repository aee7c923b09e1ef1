------------------------------ MODULE BfdCache ------------------------------
(***************************************************************************)
(* BFD's cache of open files (bfd/cache.c), with the operations that use   *)
(* it (bfd/libbfd.c) and those that open and close BFDs (bfd/opncls.c).    *)
(*                                                                         *)
(* At most BFD_CACHE_MAX_OPEN files are kept open.  The BFDs that have one *)
(* are on a ring, bfd_last_cache being the one used last; when a file has  *)
(* to be opened, the one used least recently is closed, and its place is   *)
(* kept in "where".  A member of an archive is read through the archive.   *)
(*                                                                         *)
(* In a "sound" world the system's calls succeed.  In a "failing" one      *)
(* fopen, fseek, fread and fwrite may fail, and so may the fclose and      *)
(* fflush of a file with unwritten output; a failing fseek, fread, fwrite  *)
(* or fflush may leave the stream at any place.  ftell does not fail.      *)
(***************************************************************************)
EXTENDS Integers, Sequences, FiniteSets, FiniteSetsExt

CONSTANTS
  BFDs,                \* BFDs with a file of their own
  Direction,           \* of each: "read" and "write" are opened by name, "fd" is given open
  Elements,            \* BFDs that are members of an archive
  my_archive,          \* the archive of each element
  Offsets,             \* where the element starts in it
  BFD_CACHE_MAX_OPEN,
  Size,                \* places in a file
  FdOffsets,           \* where a file descriptor that is given may stand
  Worlds

ASSUME BfdCacheAssumption ==
  /\ "NULL" \notin BFDs \cup Elements /\ BFDs \cap Elements = {} /\ IsFiniteSet(BFDs)
  /\ Direction \in [BFDs -> {"read", "write", "fd"}] /\ my_archive \in [Elements -> BFDs]
  /\ \A e \in Elements : Direction[my_archive[e]] # "write"
  /\ BFD_CACHE_MAX_OPEN \in Nat \ {0} /\ Size \in Nat \ {0}
  /\ Offsets \in [Elements -> 0..Size] /\ FdOffsets \subseteq 0..Size
  /\ Worlds \subseteq {"sound", "failing"}

VARIABLES
  bfd,         \* the BFDs' records
  last,        \* bfd_last_cache
  open_files,
  disk,        \* the places of each file that are written on the disk
  written,     \* those that were written with bfd_write
  since,       \* of each BFD that was looked up, those that have been looked up since
  astray,      \* BFDs whose stream a call that failed has left at an unknown place
  crashed,     \* a NULL stream was used, or a BFD with a stream is off the ring
  io,          \* the last call, its BFD and its place or result
  world

vars == <<bfd, last, open_files, disk, written, since, astray, crashed, io, world>>

All == BFDs \cup Elements
Archives == {my_archive[e] : e \in Elements}
Home == [x \in All |-> IF x \in Elements THEN my_archive[x] ELSE x]
Origin == [x \in All |-> IF x \in Elements THEN Offsets[x] ELSE 0]

\* "stream" is the position of the FILE, "pending" the output that is in its buffer.
NewBfd ==
  [live |-> FALSE, iostream |-> FALSE, stream |-> 0, pending |-> {}, cacheable |-> FALSE,
   where |-> 0, opened_once |-> FALSE, next |-> "NULL", prev |-> "NULL"]

Event(op, x, at) == [op |-> op, bfd |-> x, at |-> at]

Init ==
  /\ bfd = [x \in All |-> NewBfd] /\ last = "NULL" /\ open_files = 0
  /\ disk = [b \in BFDs |-> {}] /\ written = [b \in BFDs |-> {}]
  /\ since = <<>> /\ astray = {} /\ crashed = FALSE /\ world \in Worlds
  /\ io = Event("none", "NULL", 0)

-----------------------------------------------------------------------------
(* cache.c.  The functions work on c, the state of the cache, and give the *)
(* set of their outcomes: the new state and whether all is well.           *)

Cache == [bfd |-> bfd, last |-> last, open_files |-> open_files, disk |-> disk]

Ok(c) == [c |-> c, ok |-> TRUE]
Bad(c) == [c |-> c, ok |-> FALSE]

\* What follows when all is well; an outcome that is not well is final.
Then(outcomes, F(_)) == UNION {IF o.ok THEN F(o.c) ELSE {o} : o \in outcomes}

\* Mutant of insert: a BFD is put at the other end.
insert_AtEnd(c, b) ==
  IF c.last = "NULL"
    THEN [c EXCEPT !.bfd[b].next = b, !.bfd[b].prev = b, !.last = b]
    ELSE LET p == c.bfd[c.last].prev IN
         [c EXCEPT !.bfd[b].next = c.last, !.bfd[b].prev = p,
                   !.bfd[p].next = b, !.bfd[c.last].prev = b]

insert(c, b) ==
  IF c.last = "NULL"
    THEN [c EXCEPT !.bfd[b].next = b, !.bfd[b].prev = b, !.last = b]
    ELSE LET p == c.bfd[c.last].prev IN
         [c EXCEPT !.bfd[b].next = c.last, !.bfd[b].prev = p,
                   !.bfd[p].next = b, !.bfd[c.last].prev = b, !.last = b]

snip(c, b) ==
  LET n == c.bfd[b].next  p == c.bfd[b].prev IN
  [c EXCEPT !.bfd[p].next = n, !.bfd[n].prev = p,
            !.last = IF @ # b THEN @ ELSE IF n = b THEN "NULL" ELSE n]

\* fclose: the output in the buffer is written, or lost.
fclose(c, b) ==
  LET shut(d) == [c EXCEPT !.disk[b] = d, !.bfd[b].pending = {}] IN
  {Ok(shut(c.disk[b] \cup c.bfd[b].pending))}
  \cup IF world = "failing" /\ c.bfd[b].pending # {} THEN {Bad(shut(c.disk[b]))} ELSE {}

\* Mutant of bfd_cache_delete: the file is still counted.
bfd_cache_delete_Uncounted(c, b) ==
  {[o EXCEPT !.c = [snip(o.c, b) EXCEPT !.bfd[b].iostream = FALSE]] : o \in fclose(c, b)}

bfd_cache_delete(c, b) ==
  {[o EXCEPT !.c = [snip(o.c, b) EXCEPT !.bfd[b].iostream = FALSE,
                                        !.open_files = @ - 1]] : o \in fclose(c, b)}

\* The BFDs of the ring, from the one that was used least recently.
Backwards(c) ==
  LET walk[k \in Nat] == IF k = 0 THEN c.bfd[c.last].prev ELSE c.bfd[walk[k - 1]].prev
  IN  walk

\* Mutant of Victims: the search gives up before it comes to bfd_last_cache.
VictimsButLast(c) ==
  {k \in 0..Cardinality(BFDs) :
     /\ c.bfd[Backwards(c)[k]].cacheable
     /\ \A j \in 0..k : Backwards(c)[j] # c.last}

\* How many steps back a cacheable BFD is found, before the search is back at
\* bfd_last_cache.
Victims(c) ==
  {k \in 0..Cardinality(BFDs) :
     /\ c.bfd[Backwards(c)[k]].cacheable
     /\ \A j \in 0..(k - 1) : Backwards(c)[j] # c.last}

\* Mutant of close_one: the place in the file is not kept.
close_one_Forgets(c) ==
  IF c.last = "NULL" \/ Victims(c) = {} THEN {Ok(c)}
  ELSE LET kill == Backwards(c)[Min(Victims(c))] IN bfd_cache_delete(c, kill)

close_one(c) ==
  IF c.last = "NULL" \/ Victims(c) = {} THEN {Ok(c)}
  ELSE LET kill == Backwards(c)[Min(Victims(c))] IN
       bfd_cache_delete([c EXCEPT !.bfd[kill].where = c.bfd[kill].stream], kill)

\* The cache may be full.
MakeRoom(c) == IF c.open_files >= BFD_CACHE_MAX_OPEN THEN close_one(c) ELSE {Ok(c)}

bfd_cache_init(c, b) ==
  LET in(d) == {Ok([insert(d, b) EXCEPT !.open_files = @ + 1])} IN Then(MakeRoom(c), in)

\* fopen in bfd_open_file: to read; to write into a new file; or to go on writing, where
\* a file that cannot be opened for that is opened, and emptied, as a new one.
fopen(c, b) ==
  LET new == Direction[b] = "write" /\ ~c.bfd[b].opened_once
      d == IF new THEN [c EXCEPT !.bfd[b].opened_once = TRUE, !.disk[b] = {}] ELSE c
      opened(e) == Ok([e EXCEPT !.bfd[b].iostream = TRUE, !.bfd[b].stream = 0])
      truncated == IF Direction[b] = "write" THEN {opened([d EXCEPT !.disk[b] = {}])} ELSE {}
  IN  {opened(d)} \cup IF world = "failing" THEN {Bad(d)} \cup truncated ELSE {}

bfd_open_file(c, b) ==
  LET open(d) == fopen(d, b)
      init(d) == bfd_cache_init(d, b)
  IN  Then(Then(MakeRoom([c EXCEPT !.bfd[b].cacheable = TRUE]), open), init)

\* bfd_cache_lookup and bfd_cache_lookup_worker; a NULL stream is a bad outcome, also when
\* the BFD has a stream that fseek did not move.
bfd_cache_lookup(c, x) ==
  LET b == Home[x]
      seek(d) == {Ok([d EXCEPT !.bfd[b].stream = d.bfd[b].where])}
                 \cup IF world = "failing" THEN {Bad(d)} ELSE {}
  IN  CASE x = c.last -> {Ok(c)}
        [] x # c.last /\ c.bfd[b].iostream ->
             {Ok(IF b = c.last THEN c ELSE insert(snip(c, b), b))}
        [] OTHER -> Then(bfd_open_file(c, b), seek)

-----------------------------------------------------------------------------
(* libbfd.c and opncls.c.                                                  *)

\* The call ends with this cache.
Becomes(c) ==
  bfd' = c.bfd /\ last' = c.last /\ open_files' = c.open_files /\ disk' = c.disk

\* b was looked up, or is no more.
UsedNow(b) ==
  since' = [y \in DOMAIN since \cup {b} |-> IF y = b THEN {} ELSE since[y] \cup {b}]
ForgetUse(b) == since' = [y \in DOMAIN since \ {b} |-> since[y] \ {b}]

\* The streams at an unknown place are now those of S; one that is closed has none, and its
\* BFD goes on at "where".
Stray(S) == astray' = {b \in S : bfd'[b].iostream}

\* The call looks x up and goes on as F says; most of BFD uses the stream unseen, NULL or not.
Lookup(x, F(_)) ==
  /\ ~crashed /\ bfd[x].live
  /\ \E o \in bfd_cache_lookup(Cache, x) :
       /\ Becomes(IF o.ok THEN F(o.c) ELSE o.c)
       /\ crashed' = ~o.ok
  /\ UsedNow(Home[x]) /\ UNCHANGED world

\* The place in the file, as a call that looks x up finds it.
PlaceOf(c, x) == IF c.bfd[Home[x]].iostream THEN c.bfd[Home[x]].stream ELSE c.bfd[Home[x]].where

\* Mutant of Advance: bfd_read does not count what it has read.
AdvanceUncounted(c, x, n) == [c EXCEPT !.bfd[Home[x]].stream = @ + n]

\* n places are read or written.
Advance(c, x, n) ==
  [c EXCEPT !.bfd[Home[x]].stream = @ + n, !.bfd[x].where = @ + n]

\* A call on the stream fails after n places, with "out" in the buffer, and leaves the
\* stream at some place; "where" counts the n.
Fails(x, n, out) ==
  LET short(c, k) == [Advance(c, x, n) EXCEPT !.bfd[Home[x]].stream = k,
                                              !.bfd[Home[x]].pending = @ \cup out]
  IN  /\ world = "failing"
      /\ \E k \in 0..Size : LET failed(c) == short(c, k) IN Lookup(x, failed)
      /\ Stray(astray \cup {Home[x]})

bfd_read(x) ==
  LET at == PlaceOf(Cache, x)
      nread == IF at < Size THEN 1 ELSE 0
      read(c) == Advance(c, x, nread)
  IN  /\ bfd[x].where + nread <= Size /\ Direction[Home[x]] # "write"
      /\ \/ Lookup(x, read) /\ Stray(astray) /\ io' = Event("read", x, at)
         \/ (\E n \in {0, nread} : Fails(x, n, {})) /\ io' = Event("read_failed", x, at)
      /\ UNCHANGED written

\* One place is written; or fwrite fails, before it or, when there was more to write, after.
bfd_write(x) ==
  LET at == PlaceOf(Cache, x)
      write(c) == [Advance(c, x, 1) EXCEPT !.bfd[x].pending = @ \cup {at}]
      wrote == io' = Event("write", x, at) /\ written' = [written EXCEPT ![x] = @ \cup {at}]
  IN  /\ x \in BFDs /\ at < Size /\ bfd[x].where < Size /\ Direction[x] = "write"
      /\ \/ Lookup(x, write) /\ Stray(astray) /\ wrote
         \/ Fails(x, 1, {at}) /\ wrote
         \/ Fails(x, 0, {}) /\ io' = Event("write_failed", x, at) /\ UNCHANGED written

bfd_tell(x) ==
  LET at == PlaceOf(Cache, x) - Origin[x]
      tell(c) == [c EXCEPT !.bfd[x].where = at]
  IN  Lookup(x, tell) /\ Stray(astray \ {x}) /\ io' = Event("tell", x, at) /\ UNCHANGED written

\* fflush may fail, which is reported, and the output stays in the buffer.
bfd_flush(x) ==
  LET flushed(c) == [c EXCEPT !.disk[x] = @ \cup c.bfd[x].pending, !.bfd[x].pending = {}]
  IN  /\ x \in BFDs /\ bfd[x].pending # {}
      /\ (Lookup(x, flushed) /\ Stray(astray)) \/ Fails(x, 0, {})
      /\ UNCHANGED <<io, written>>

\* bfd_stat is the one call that looks whether it has a stream.  When fseek has failed the
\* BFD goes on with one that was not moved to its place.  When bfd_cache_init has failed it
\* is left with a stream and off the ring: the calls after that one follow stale links, and
\* are not modelled.
bfd_stat(x) ==
  /\ ~crashed /\ bfd[x].live
  /\ \E o \in bfd_cache_lookup(Cache, x) :
       /\ Becomes(o.c)
       /\ IF o.c.last = Home[x] THEN UsedNow(Home[x]) ELSE UNCHANGED since
       /\ crashed' = (o.c.bfd[Home[x]].iostream /\ o.c.last # Home[x])
       /\ Stray(IF o.ok THEN astray ELSE astray \cup {Home[x]})
  /\ UNCHANGED <<io, written, world>>

\* bfd_seek has nothing to do for a BFD that is neither an archive nor a member of one,
\* and that is where it is to go.
Needless(x, p) == x \in BFDs \ Archives /\ p = bfd[x].where

\* Mutant of Redetermined: "where" is left as it was.
RedeterminedNot(c, x, k) == [c EXCEPT !.bfd[Home[x]].stream = k]

\* fseek has failed and left the stream at k, and "where" is determined again by bfd_tell.
Redetermined(c, x, k) == [c EXCEPT !.bfd[Home[x]].stream = k, !.bfd[x].where = k - Origin[x]]

SeekFails(x) ==
  /\ world = "failing"
  /\ \E k \in 0..Size : LET failed(c) == Redetermined(c, x, k) IN Lookup(x, failed)
  /\ Stray(astray \ {x}) /\ io' = Event("seek_failed", x, 0)

bfd_seek(x, p) ==
  LET seek(c) == [c EXCEPT !.bfd[Home[x]].stream = Origin[x] + p, !.bfd[x].where = p]
      needless == /\ bfd[x].live /\ ~crashed
                  /\ UNCHANGED <<bfd, last, open_files, disk, since, astray, crashed, world>>
      done == IF Needless(x, p) THEN needless ELSE Lookup(x, seek) /\ Stray(astray \ {x})
  IN  /\ Origin[x] + p <= Size
      /\ \/ done /\ io' = Event("seek", x, p)
         \/ ~Needless(x, p) /\ SeekFails(x)
      /\ UNCHANGED written

\* bfd_seek from the current place.
bfd_seek_cur(x, n) ==
  LET at == PlaceOf(Cache, x) + n
      seek(c) == [c EXCEPT !.bfd[Home[x]].stream = @ + n, !.bfd[x].where = @ + n]
  IN  /\ at <= Size /\ Origin[x] + bfd[x].where + n <= Size
      /\ \/ Lookup(x, seek) /\ Stray(astray) /\ io' = Event("seek", x, at - Origin[x])
         \/ SeekFails(x)
      /\ UNCHANGED written

\* bfd_openr and bfd_openw by name; bfd_fdopenr and bfd_openstreamr with a stream that is
\* open and stands somewhere.  A BFD that could not be opened is freed.
bfd_open(b) ==
  /\ b \in BFDs /\ ~bfd[b].live /\ ~crashed
  /\ \E at \in (IF Direction[b] = "fd" THEN FdOffsets ELSE {0}) :
       LET c == [Cache EXCEPT !.bfd[b] = [NewBfd EXCEPT !.live = TRUE, !.stream = at,
                                             !.iostream = (Direction[b] = "fd")]]
       IN  \E o \in (IF Direction[b] = "fd" THEN bfd_cache_init(c, b) ELSE bfd_open_file(c, b)) :
             IF o.ok
               THEN Becomes(o.c) /\ UsedNow(b)
               ELSE Becomes([o.c EXCEPT !.bfd[b] = NewBfd]) /\ ForgetUse(b)
  /\ Stray(astray)
  /\ written' = [written EXCEPT ![b] = IF Direction[b] = "write" THEN {} ELSE @]
  /\ io' = Event("open", b, 0)
  /\ UNCHANGED <<crashed, world>>

\* _bfd_new_bfd_contained_in.
NewElement(e) ==
  /\ e \in Elements /\ ~bfd[e].live /\ bfd[my_archive[e]].live /\ ~crashed
  /\ bfd' = [bfd EXCEPT ![e] = [NewBfd EXCEPT !.live = TRUE]]
  /\ io' = Event("open", e, 0)
  /\ UNCHANGED <<last, open_files, disk, written, since, astray, crashed, world>>

bfd_set_cacheable(b, v) ==
  /\ Direction[b] = "fd" /\ bfd[b].live /\ bfd[b].cacheable # v /\ ~crashed
  /\ bfd' = [bfd EXCEPT ![b].cacheable = v]
  /\ UNCHANGED <<last, open_files, disk, written, since, astray, crashed, io, world>>

\* bfd_close, with bfd_cache_close; an archive is closed after its members.
bfd_close(x) ==
  /\ bfd[x].live /\ ~crashed /\ \A e \in Elements : my_archive[e] = x => ~bfd[e].live
  /\ \E o \in (IF bfd[x].iostream THEN bfd_cache_delete(Cache, x) ELSE {Ok(Cache)}) :
       /\ Becomes([o.c EXCEPT !.bfd[x] = NewBfd])
       /\ io' = Event(IF o.ok THEN "close" ELSE "close_failed", x, 0)
  /\ Stray(astray) /\ ForgetUse(x) /\ UNCHANGED <<written, crashed, world>>

-----------------------------------------------------------------------------
Next ==
  \/ \E x \in All :
       \/ bfd_read(x) \/ bfd_write(x) \/ bfd_tell(x) \/ bfd_flush(x) \/ bfd_stat(x)
       \/ bfd_close(x)
       \/ \E p \in 0..Size : bfd_seek(x, p)
       \/ \E n \in 1..Size : bfd_seek_cur(x, n)
  \/ \E b \in BFDs : bfd_open(b) \/ \E v \in BOOLEAN : bfd_set_cacheable(b, v)
  \/ \E e \in Elements : NewElement(e)

Spec == Init /\ [][Next]_vars

-----------------------------------------------------------------------------
(* Properties.                                                             *)

Sound == world = "sound"
Opened == {b \in BFDs : bfd[b].iostream}

\* The BFDs' records and the cache's variables stay what cache.c means them to be; in a
\* sound world no call ends up with a NULL stream.
TypeOK ==
  /\ last \in BFDs \cup {"NULL"} /\ open_files \in 0..Cardinality(BFDs)
  /\ \A x \in All :
       /\ bfd[x].stream \in 0..Size /\ bfd[x].where \in -Size..Size /\ bfd[x].pending \subseteq 0..Size
       /\ bfd[x].iostream => bfd[x].live /\ x \in BFDs
       /\ {bfd[x].next, bfd[x].prev} \subseteq BFDs \cup {"NULL"}
  /\ Sound => ~crashed

\* The open BFDs that have been looked up since b was.
Later(b) == since[b] \cap Opened

\* The ring that insert and snip keep has exactly the BFDs with an open file, open_files of
\* them, in the order in which they were last looked up, from bfd_last_cache on: so that
\* close_one, going backwards, finds the least recently used.
RingIsRecency ==
  ~crashed =>
    /\ open_files = Cardinality(Opened) /\ Opened \subseteq DOMAIN since
    /\ IF Opened = {} THEN last = "NULL" ELSE last \in Opened /\ Later(last) = {}
    /\ \A b \in Opened :
         /\ {bfd[b].next, bfd[b].prev} \subseteq Opened
         /\ bfd[bfd[b].next].prev = b /\ bfd[bfd[b].prev].next = b
         /\ IF Later(b) \cup {b} = Opened
              THEN bfd[b].next = last
              ELSE Later(bfd[b].next) = Later(b) \cup {b}

\* The cache keeps no more than BFD_CACHE_MAX_OPEN files open, or one more than there are
\* BFDs with a file that was given open, which may not be closed.
WithinLimit ==
  \/ open_files <= BFD_CACHE_MAX_OPEN
  \/ open_files <= 1 + Cardinality({b \in BFDs : Direction[b] = "fd"})

\* The ring of cache.c is whole, in order and within its limit, whatever was opened, closed or
\* evicted, and in a failing world whatever could not be.
RingSound == TypeOK /\ RingIsRecency /\ WithinLimit

\* "where" of a BFD that is neither an archive nor in one is the place in its file: what
\* bfd_seek's shortcut relies on.  It is right again after a fseek of bfd_seek that failed;
\* after a fread, fwrite or fflush that failed, and after bfd_stat has gone on though the
\* stream was not moved to its place, it is not claimed until the place is determined again
\* or the stream is closed.
WhereRight ==
  ~crashed =>
    \A b \in BFDs \ Archives : bfd[b].iostream /\ b \notin astray => bfd[b].where = bfd[b].stream

\* The assertion that bfd_seek would make before its shortcut: "this is sort of an `assert'
\* that the `where' field is correct".
WhereAsserted ==
  ~crashed => \A b \in BFDs \ Archives : bfd[b].iostream => bfd[b].where = bfd[b].stream

\* A BFD for which bfd_open_file gave no stream is not in the cache and has none to be
\* removed from it: open_files counts the BFDs with a stream.
CountRight == open_files = Cardinality(Opened)

\* bfd_close says that all is well only when all that was written is on the disk.
CloseReported == io.op = "close" /\ io.bfd \in BFDs => written[io.bfd] \subseteq disk[io.bfd]

\* Whatever the cache opens and closes, each BFD reads and writes where it would if its
\* file had been open all the time.
Steady ==
  INSTANCE SteadyFiles WITH
    live <- {x \in All : bfd[x].live},
    place <- [b \in BFDs |-> IF bfd[b].live THEN PlaceOf(Cache, b) ELSE 0],
    written <- [b \in BFDs |-> disk[b] \cup bfd[b].pending]

\* In a sound world the cache implements SteadyFiles.
FilesStaySteady == Steady!Init /\ [][Sound => Steady!Next]_(Steady!vars)
=============================================================================
