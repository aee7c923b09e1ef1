------------------------------- MODULE DCache -------------------------------
(***************************************************************************)
(* The remote data cache of GDB (gdb/dcache.c), as remote.c drives it:     *)
(* DCACHE_SIZE blocks, each caching one line of target memory with a state *)
(* per byte, on a list of valid blocks (oldest first) and a free list.     *)
(* One dcache_xfer_memory call runs at a time; its byte loop and its       *)
(* write-back loop are steps of their own because the transfer can fail,   *)
(* or be left through error() or a quit, between any two of them.          *)
(*                                                                         *)
(* While a line is filled immediate_quit is raised, and a ^C leaves        *)
(* dcache_peek_byte at any instruction.  A fill that fails returns with    *)
(* immediate_quit still raised (dcache.c:350); it is lowered by the        *)
(* error() with which GDB reports the failure (top.c:484).  A caller that  *)
(* swallows the failure and makes another transfer, which a ^C could then  *)
(* leave anywhere, is not modelled.                                        *)
(*                                                                         *)
(* A byte address is a pair <<line, offset>>: MASK(a) is a[1] and XFORM(a) *)
(* is a[2] (dcache.c:101-103).                                             *)
(***************************************************************************)
EXTENDS Naturals, Sequences

CONSTANTS
  DCACHE_SIZE,  \* number of cache blocks
  LINE_SIZE,    \* bytes in a line
  NLines,       \* lines in the target's address space
  Byte,         \* values of a byte
  ZeroByte,     \* the byte that memset(..., 0) stores
  MaxLen,       \* bound on the length of one transfer
  ReadErrors,   \* may read_memory report an error?
  WriteErrors,  \* may write_memory report an error?
  Quits         \* may control leave a callback, or a fill, through return_to_top_level?

ASSUME SizeAssumption == /\ DCACHE_SIZE \in Nat \ {0}
                         /\ LINE_SIZE \in Nat \ {0}
                         /\ NLines \in Nat \ {0}
                         /\ MaxLen \in Nat \ {0}
ASSUME ByteAssumption == ZeroByte \in Byte
ASSUME FlagAssumption == {ReadErrors, WriteErrors, Quits} \subseteq BOOLEAN

VARIABLES
  mem,             \* the target's memory
  blk,             \* the_cache: the blocks
  valid,           \* the list from valid_head to valid_tail
  free,            \* the list from free_head
  remote_dcache,   \* "set remotecache"
  cache_has_stuff, \* the cache was filled since it was last flushed
  op,              \* the dcache_xfer_memory call in progress
  ret,             \* what the last call returned
  io               \* the last byte moved to or from the caller's buffer; has the target run since?

cache == <<blk, valid, free>>
vars == <<mem, blk, valid, free, remote_dcache, cache_has_stuff, op, ret, io>>

Block == 1..DCACHE_SIZE
Line == 0..(NLines - 1)
Offset == 0..(LINE_SIZE - 1)
Addr == Line \X Offset
Memory == [Line -> [Offset -> Byte]]
EntryState == {"BAD", "DIRTY", "OK"}

DcacheBlock == [addr : Line, data : [Offset -> Byte],
                state : [Offset -> EntryState], anydirty : BOOLEAN]

\* A dcache_xfer_memory call: where it is, the address and the bytes left, the
\* position of the write-back, and whether dcache_poke made it.
Call == [pc : {"idle", "peek", "poke", "read", "write", "writeback", "crash"},
         at : Addr, left : Nat, wb : Nat \ {0}, again : BOOLEAN]

Result == {"none", "ok", "error", "quit"}

\* Mutant of NextAddr: the line number runs off the address space.
NextAddrUnwrapped(a) ==
  IF a[2] + 1 < LINE_SIZE THEN <<a[1], a[2] + 1>> ELSE <<a[1] + 1, 0>>

\* memaddr + 1; CORE_ADDR arithmetic wraps at the end of the address space.
NextAddr(a) ==
  IF a[2] + 1 < LINE_SIZE THEN <<a[1], a[2] + 1>>
  ELSE IF a[1] + 1 < NLines THEN <<a[1] + 1, 0>> ELSE <<0, 0>>

\* No call in progress: its arguments and counters are gone.
NoCall == [pc |-> "idle", at |-> <<0, 0>>, left |-> 0, wb |-> 1, again |-> FALSE]

Idle == op.pc = "idle"

-----------------------------------------------------------------------------
(* Lists and lines.                                                        *)

\* dcache_flush drops the dirty bytes too, and touches no block.
FreshList == [i \in 1..DCACHE_SIZE |-> i]

dcache_flush ==
  /\ valid' = << >>
  /\ free' = FreshList
  /\ cache_has_stuff' = FALSE

\* Mutant of Hits: the search stops before the last block of the list.
HitsButLast(l) == {i \in 1..(Len(valid) - 1) : blk[valid[i]].addr = l}

\* Positions on the valid list that hold line l.
Hits(l) == {i \in DOMAIN valid : blk[valid[i]].addr = l}

\* dcache_hit: the first block of the valid list for the line.
dcache_hit(l) == valid[CHOOSE i \in Hits(l) : \A j \in Hits(l) : i <= j]

Dirty(d) == {o \in Offset : d.state[o] = "DIRTY"}

\* The line in memory after the dirty offsets in S have been written.
StoreBytes(m, d, S) ==
  [m EXCEPT ![d.addr] = [o \in Offset |-> IF o \in S THEN d.data[o]
                                          ELSE m[d.addr][o]]]

SetClean(d, S) ==
  [o \in Offset |-> IF o \in S THEN "OK" ELSE d.state[o]]

WriteAll(m, d) ==
  [mem |-> StoreBytes(m, d, Dirty(d)),
   db |-> [d EXCEPT !.state = SetClean(d, Dirty(d)), !.anydirty = FALSE],
   ok |-> TRUE]

\* The write of dirty offset c fails: everything dirty before it is in memory,
\* but only the runs of dirty bytes that ended before c are marked clean.
WriteSome(m, d, c) ==
  LET sent == {o \in Dirty(d) : o < c}
      closed == {o \in sent : \E e \in Offset : o < e /\ e < c /\ e \notin Dirty(d)}
  IN [mem |-> StoreBytes(m, d, sent),
      db |-> [d EXCEPT !.state = SetClean(d, closed)],
      ok |-> FALSE]

\* Outcomes of dcache_write_line when write_memory returns.
dcache_write_line(m, d) ==
  IF ~d.anydirty THEN {[mem |-> m, db |-> d, ok |-> TRUE]}
  ELSE {WriteAll(m, d)} \cup {WriteSome(m, d, c) : c \in IF WriteErrors THEN Dirty(d) ELSE {}}

\* Outcomes of dcache_write_line when write_memory leaves through error().
WriteLineQuits(m, d) ==
  {WriteSome(m, d, c) : c \in IF Quits /\ d.anydirty THEN Dirty(d) ELSE {}}

\* Mutant of dcache_alloc: the free block is not taken off the free list.
AllocKeepsFree ==
  IF free # << >>
  THEN {[b |-> Head(free), free |-> free, valid |-> Append(valid, Head(free)),
         mem |-> mem, db |-> blk[Head(free)]]}
  ELSE {}

\* Mutant of dcache_alloc: the evicted block is not appended to the valid list.
AllocDropsBlock ==
  IF free # << >>
  THEN {[b |-> Head(free), free |-> Tail(free), valid |-> Append(valid, Head(free)),
         mem |-> mem, db |-> blk[Head(free)]]}
  ELSE {[b |-> Head(valid), free |-> free, valid |-> Tail(valid),
         mem |-> mem, db |-> blk[Head(valid)]]}

\* dcache_alloc takes a free block, or evicts the oldest valid one; the
\* outcome of writing the evicted line back is ignored.
dcache_alloc ==
  IF free # << >>
  THEN {[b |-> Head(free), free |-> Tail(free),
         valid |-> Append(valid, Head(free)),
         mem |-> mem, db |-> blk[Head(free)]]}
  ELSE IF valid = << >> THEN {}
  ELSE {[b |-> Head(valid), free |-> free,
         valid |-> Append(Tail(valid), Head(valid)),
         mem |-> w.mem, db |-> w.db] : w \in dcache_write_line(mem, blk[Head(valid)])}

-----------------------------------------------------------------------------
(* The transfer loop.                                                      *)

\* Return from dcache_xfer_memory with result r; dcache_poke then writes the
\* dirty lines back a second time.
Return(r) ==
  /\ ret' = r
  /\ op' = IF op.again /\ r = "ok"
           THEN [op EXCEPT !.pc = "writeback", !.wb = 1, !.again = FALSE]
           ELSE NoCall

\* Control leaves the call for the command loop.
QuitToTopLevel == ret' = "quit" /\ op' = NoCall

\* One byte is done; a direct transfer of the last byte returns.
ByteDone ==
  IF op.left = 1 /\ op.pc \in {"read", "write"}
  THEN Return("ok")
  ELSE op' = [op EXCEPT !.at = NextAddr(op.at), !.left = @ - 1] /\ UNCHANGED ret

Event(e, v) == io' = [ev |-> e, at |-> op.at, val |-> v]

\* dcache_xfer_memory with the cache on.  "again" marks a call by dcache_poke.
XferCached(pc, a, len, again) ==
  /\ Idle /\ remote_dcache
  /\ op' = [pc |-> pc, at |-> a, left |-> len, wb |-> 1, again |-> again]
  /\ ret' = "none"
  /\ UNCHANGED <<mem, cache, remote_dcache, cache_has_stuff, io>>

\* dcache_xfer_memory with the cache off: stale contents are flushed first.
XferDirect(pc, a, len, again) ==
  /\ Idle /\ ~remote_dcache
  /\ op' = [pc |-> pc, at |-> a, left |-> len, wb |-> 1, again |-> again]
  /\ ret' = "none"
  /\ IF cache_has_stuff THEN dcache_flush /\ UNCHANGED blk
     ELSE UNCHANGED <<cache, cache_has_stuff>>
  /\ UNCHANGED <<mem, remote_dcache, io>>

\* Block b, with contents d, becomes the block of line l and is read in from
\* memory m.  The block already is on the valid list when the read starts.
FillOk(b, l, d, m) ==
  /\ blk' = [blk EXCEPT ![b] = [addr |-> l, data |-> m[l],
                                state |-> [o \in Offset |-> "OK"],
                                anydirty |-> FALSE]]
  /\ Event("read", m[l][op.at[2]])
  /\ ByteDone

\* Only the first k bytes arrive; the states of the bytes are left alone.
FillPart(b, l, d, m, k) ==
  blk' = [blk EXCEPT ![b] = [d EXCEPT !.addr = l,
            !.data = [o \in Offset |-> IF o < k THEN m[l][o] ELSE d.data[o]]]]

\* A read fails, or a quit comes while immediate_quit is raised: before the block
\* has its new address, between two bytes, or after the last one.
FillFails(b, l, d, m) ==
  /\ \/ ReadErrors /\ Return("error") /\ \E k \in Offset : FillPart(b, l, d, m, k)
     \/ /\ Quits /\ QuitToTopLevel
        /\ \/ FillPart(b, d.addr, d, m, 0)
           \/ \E k \in 0..LINE_SIZE : FillPart(b, l, d, m, k)
  /\ UNCHANGED io

FillLine(b, l, d, m) ==
  /\ mem' = m
  /\ FillOk(b, l, d, m) \/ FillFails(b, l, d, m)

\* dcache_peek_byte, the byte is in the cache.
PeekCached ==
  /\ op.pc = "peek" /\ op.left > 0
  /\ Hits(op.at[1]) # {}
  /\ LET d == blk[dcache_hit(op.at[1])]
     IN /\ d.state[op.at[2]] # "BAD"
        /\ Event("read", d.data[op.at[2]])
  /\ ByteDone
  /\ UNCHANGED <<mem, cache, remote_dcache, cache_has_stuff>>

\* dcache_peek_byte, the line is cached but this byte of it is not.
PeekRefill ==
  /\ op.pc = "peek" /\ op.left > 0
  /\ Hits(op.at[1]) # {}
  /\ LET l == op.at[1]
         b == dcache_hit(l)
     IN /\ blk[b].state[op.at[2]] = "BAD"
        /\ \/ \E w \in dcache_write_line(mem, blk[b]) : FillLine(b, l, w.db, w.mem)
           \/ \E w \in WriteLineQuits(mem, blk[b]) :
                /\ mem' = w.mem /\ blk' = [blk EXCEPT ![b] = w.db]
                /\ QuitToTopLevel
                /\ UNCHANGED io
  /\ UNCHANGED <<valid, free, remote_dcache, cache_has_stuff>>

\* dcache_peek_byte, the line is not cached.
PeekMiss ==
  /\ op.pc = "peek" /\ op.left > 0
  /\ Hits(op.at[1]) = {}
  /\ \E n \in dcache_alloc :
       /\ valid' = n.valid /\ free' = n.free
       /\ FillLine(n.b, op.at[1], n.db, n.mem)
  /\ UNCHANGED <<remote_dcache, cache_has_stuff>>

\* dcache_alloc is left while it writes back the line it evicts: the block is
\* off the valid list already and on no list yet.
EvictQuits ==
  /\ op.pc \in {"peek", "poke"} /\ op.left > 0
  /\ Hits(op.at[1]) = {} /\ free = << >> /\ valid # << >>
  /\ \E w \in WriteLineQuits(mem, blk[Head(valid)]) :
       mem' = w.mem /\ blk' = [blk EXCEPT ![Head(valid)] = w.db]
  /\ valid' = Tail(valid)
  /\ QuitToTopLevel
  /\ UNCHANGED <<free, remote_dcache, cache_has_stuff, io>>

\* dcache_alloc finds both lists empty and follows the null valid_head.
AllocNull ==
  /\ op.pc \in {"peek", "poke"} /\ op.left > 0
  /\ Hits(op.at[1]) = {} /\ free = << >> /\ valid = << >>
  /\ op' = [op EXCEPT !.pc = "crash"]
  /\ UNCHANGED <<mem, cache, remote_dcache, cache_has_stuff, ret, io>>

\* Mutant of PokeInto: the block is not marked as having dirty bytes.
PokeUnmarked(b, d, v) ==
  /\ blk' = [blk EXCEPT ![b] = [d EXCEPT !.data[op.at[2]] = v,
                                         !.state[op.at[2]] = "DIRTY"]]
  /\ Event("write", v)
  /\ ByteDone

\* Store v in block b, which holds contents d.
PokeInto(b, d, v) ==
  /\ blk' = [blk EXCEPT ![b] = [addr |-> d.addr,
                                data |-> [d.data EXCEPT ![op.at[2]] = v],
                                state |-> [d.state EXCEPT ![op.at[2]] = "DIRTY"],
                                anydirty |-> TRUE]]
  /\ Event("write", v)
  /\ ByteDone

\* dcache_poke_byte, the line is cached.
PokeHit(v) ==
  /\ op.pc = "poke" /\ op.left > 0
  /\ Hits(op.at[1]) # {}
  /\ LET b == dcache_hit(op.at[1]) IN PokeInto(b, blk[b], v)
  /\ UNCHANGED <<mem, valid, free, remote_dcache, cache_has_stuff>>

\* Mutant of PokeMiss: the states of the block's last line are kept.
PokeMissKeepsStates(v) ==
  /\ op.pc = "poke" /\ op.left > 0
  /\ Hits(op.at[1]) = {}
  /\ \E n \in dcache_alloc :
       /\ mem' = n.mem /\ valid' = n.valid /\ free' = n.free
       /\ PokeInto(n.b, [n.db EXCEPT !.addr = op.at[1]], v)
  /\ UNCHANGED <<remote_dcache, cache_has_stuff>>

\* dcache_poke_byte, the line is not cached: a block without any good byte.
PokeMiss(v) ==
  /\ op.pc = "poke" /\ op.left > 0
  /\ Hits(op.at[1]) = {}
  /\ \E n \in dcache_alloc :
       /\ mem' = n.mem /\ valid' = n.valid /\ free' = n.free
       /\ PokeInto(n.b, [n.db EXCEPT !.addr = op.at[1],
                                     !.state = [o \in Offset |-> "BAD"]], v)
  /\ UNCHANGED <<remote_dcache, cache_has_stuff>>

\* Mutant of XferBytesDone: the use of the cache is not noted.
DoneUnnoted ==
  /\ op.pc \in {"peek", "poke"} /\ op.left = 0
  /\ op' = [op EXCEPT !.pc = "writeback", !.wb = 1]
  /\ UNCHANGED <<mem, cache, remote_dcache, cache_has_stuff, ret, io>>

\* Mutant of XferBytesDone: the call returns without a write-back.
DoneNoWriteback ==
  /\ op.pc \in {"peek", "poke"} /\ op.left = 0
  /\ cache_has_stuff' = TRUE
  /\ Return("ok")
  /\ UNCHANGED <<mem, cache, remote_dcache, io>>

\* The byte loop is over: note that the cache is in use, start the write-back.
XferBytesDone ==
  /\ op.pc \in {"peek", "poke"} /\ op.left = 0
  /\ cache_has_stuff' = TRUE
  /\ op' = [op EXCEPT !.pc = "writeback", !.wb = 1]
  /\ UNCHANGED <<mem, cache, remote_dcache, ret, io>>

\* dcache_writeback, one line.  A failure ends the loop; dcache_xfer_memory
\* does not look at it and returns the length, dcache_poke returns it.
WritebackLine ==
  /\ op.pc = "writeback" /\ op.wb <= Len(valid)
  /\ LET b == valid[op.wb] IN
       \/ \E w \in dcache_write_line(mem, blk[b]) :
            /\ mem' = w.mem /\ blk' = [blk EXCEPT ![b] = w.db]
            /\ IF w.ok THEN op' = [op EXCEPT !.wb = @ + 1] /\ UNCHANGED ret
               ELSE Return(IF ret = "none" THEN "ok" ELSE "error")
       \/ \E w \in WriteLineQuits(mem, blk[b]) :
            /\ mem' = w.mem /\ blk' = [blk EXCEPT ![b] = w.db]
            /\ QuitToTopLevel
  /\ UNCHANGED <<valid, free, remote_dcache, cache_has_stuff, io>>

WritebackDone ==
  /\ op.pc = "writeback" /\ op.wb > Len(valid)
  /\ Return("ok")
  /\ UNCHANGED <<mem, cache, remote_dcache, cache_has_stuff, io>>

\* The direct transfer of one byte, or the error or quit that ends the call.
DirectRead ==
  /\ op.pc = "read"
  /\ \/ Event("read", mem[op.at[1]][op.at[2]]) /\ ByteDone
     \/ ReadErrors /\ Return("error") /\ UNCHANGED io
     \/ Quits /\ QuitToTopLevel /\ UNCHANGED io
  /\ UNCHANGED <<mem, cache, remote_dcache, cache_has_stuff>>

DirectWrite(v) ==
  /\ op.pc = "write"
  /\ \/ /\ mem' = [mem EXCEPT ![op.at[1]][op.at[2]] = v]
        /\ Event("write", v) /\ ByteDone
     \/ WriteErrors /\ Return("error") /\ UNCHANGED <<mem, io>>
     \/ Quits /\ QuitToTopLevel /\ UNCHANGED <<mem, io>>
  /\ UNCHANGED <<cache, remote_dcache, cache_has_stuff>>

-----------------------------------------------------------------------------
(* What happens between transfers.                                         *)

\* "set remotecache".
SetRemoteCache ==
  /\ Idle
  /\ remote_dcache' = ~remote_dcache
  /\ UNCHANGED <<mem, cache, cache_has_stuff, op, ret, io>>

\* History: what memory holds from here on is what the target has made of it.
TargetRuns == io' = [io EXCEPT !.ev = "run"]

\* Mutant of RemoteResume: the target runs with the cache still filled.
ResumeNoFlush ==
  /\ Idle
  /\ mem' \in Memory
  /\ TargetRuns
  /\ UNCHANGED <<cache, cache_has_stuff, remote_dcache, op, ret>>

\* remote_resume flushes the cache before the target runs and changes memory.
RemoteResume ==
  /\ Idle
  /\ dcache_flush
  /\ mem' \in Memory
  /\ TargetRuns
  /\ UNCHANGED <<blk, remote_dcache, op, ret>>

ZeroBlock == [addr |-> 0, data |-> [o \in Offset |-> ZeroByte],
              state |-> [o \in Offset |-> "BAD"], anydirty |-> FALSE]

\* remote_open_1: dcache_init makes a new cache for a target not seen before.
RemoteOpen ==
  /\ Idle
  /\ blk' = [b \in Block |-> ZeroBlock]
  /\ dcache_flush
  /\ mem' \in Memory
  /\ TargetRuns
  /\ UNCHANGED <<remote_dcache, op, ret>>

Init ==
  /\ mem \in Memory
  /\ blk = [b \in Block |-> ZeroBlock]
  /\ valid = << >>
  /\ free = FreshList
  /\ remote_dcache = FALSE
  /\ cache_has_stuff = FALSE
  /\ op = NoCall
  /\ ret = "none"
  /\ io = [ev |-> "none", at |-> <<0, 0>>, val |-> ZeroByte]

Start ==
  \E a \in Addr, len \in 1..MaxLen, again \in BOOLEAN :
    \/ XferCached("peek", a, len, FALSE)
    \/ XferCached("poke", a, len, again)
    \/ XferDirect("read", a, len, FALSE)
    \/ XferDirect("write", a, len, again)

Next ==
  \/ Start
  \/ PeekCached \/ PeekRefill \/ PeekMiss \/ EvictQuits \/ AllocNull
  \/ \E v \in Byte : PokeHit(v)
  \/ \E v \in Byte : PokeMiss(v)
  \/ XferBytesDone \/ WritebackLine \/ WritebackDone
  \/ DirectRead
  \/ \E v \in Byte : DirectWrite(v)
  \/ SetRemoteCache \/ RemoteResume \/ RemoteOpen

Spec == Init /\ [][Next]_vars

-----------------------------------------------------------------------------
(* Properties.                                                             *)

\* Every variable stays in its type.
TypeOK ==
  /\ mem \in Memory
  /\ blk \in [Block -> DcacheBlock]
  /\ valid \in Seq(Block)
  /\ free \in Seq(Block)
  /\ remote_dcache \in BOOLEAN
  /\ cache_has_stuff \in BOOLEAN
  /\ op \in Call
  /\ ret \in Result
  /\ io \in [ev : {"none", "read", "write", "run"}, at : Addr, val : Byte]

\* A block is on at most one of the two lists, and there at most once,
\* through every eviction, flush and abandoned transfer.
ListsDisjoint ==
  /\ \A i, j \in DOMAIN valid : valid[i] = valid[j] => i = j
  /\ \A i, j \in DOMAIN free : free[i] = free[j] => i = j
  /\ \A i \in DOMAIN valid, j \in DOMAIN free : valid[i] # free[j]

\* A line is cached by at most one valid block, so that dcache_hit finds the
\* only copy and a write-back cannot undo a newer one.
OneBlockPerLine ==
  \A i, j \in DOMAIN valid : blk[valid[i]].addr = blk[valid[j]].addr => i = j

\* A block with a dirty byte says so: dcache_write_line looks at the bytes
\* only if anydirty is set.
DirtyIsMarked == \A b \in Block : Dirty(blk[b]) # {} => blk[b].anydirty

\* Every block is on one of the lists, so that dcache_alloc finds one.
NoBlockLost ==
  \A b \in Block : \/ \E i \in DOMAIN valid : valid[i] = b
                   \/ \E i \in DOMAIN free : free[i] = b

\* The step leaves a call through error() or a quit.
LeavesCall == ~Idle /\ ret' = "quit"

\* However reads and writes fail in the middle of a line or of an eviction, while no line
\* has two valid blocks none gets a second one, unless the call is left: a quit at dcache.c:340
\* leaves a block that dcache_alloc has put on the valid list with the address of the line
\* it held before.
OnlyQuitsDuplicate == [][OneBlockPerLine /\ ~LeavesCall => OneBlockPerLine']_vars

\* Nor does dcache_alloc lose the first block between its two lists, unless it is left while
\* it writes an evicted line back (dcache.c:303).
OnlyQuitsLose == [][NoBlockLost /\ ~LeavesCall => NoBlockLost']_vars

\* dcache.c:64: "ENTRY_OK means that the data is the same in the cache as it
\* is in remote memory."
OkIsMemory ==
  \A i \in DOMAIN valid : \A o \in Offset :
    LET d == blk[valid[i]] IN d.state[o] = "OK" => d.data[o] = mem[d.addr][o]

\* dcache.c:145-148: what the cache still holds when GDB may turn it off is marked
\* by cache_has_stuff, so that the next direct transfer flushes it.
StuffIsNoted == Idle /\ valid # << >> => cache_has_stuff

\* dcache.c:465: "Returns length of data written or read; 0 for error": when a
\* transfer has reported success, no byte waits to be written to the target.
OkMeansStored ==
  Idle /\ ret = "ok" => \A i \in DOMAIN valid : Dirty(blk[valid[i]]) = {}

\* The memory as GDB sees it: the dirty byte of the block, if there is one.
Visible ==
  [l \in Line |-> [o \in Offset |->
     IF \E i \in Hits(l) : o \in Dirty(blk[valid[i]])
     THEN blk[dcache_hit(l)].data[o] ELSE mem[l][o]]]

TM == INSTANCE TargetMemory WITH amem <- Visible

\* While the target answers, the cache is invisible: every byte read is the
\* byte last written, across evictions, refills, toggles and flushes.
ReadsSeeWrites == TM!Spec

=============================================================================
