---------------------------- MODULE DCacheProofs ----------------------------
(***************************************************************************)
(* Theorems about the remote data cache, for every cache geometry, address *)
(* space and byte type.                                                    *)
(***************************************************************************)
EXTENDS DCache, WellFoundedInduction, TLAPS

-----------------------------------------------------------------------------
(* Facts about the operators.                                              *)

\* Writing a line back keeps memory and block in their types, keeps the
\* block's line, and leaves it marked if a dirty byte remains.
LEMMA WriteLineFacts ==
  ASSUME NEW m \in Memory, NEW d \in DcacheBlock,
         NEW w \in dcache_write_line(m, d) \cup WriteLineQuits(m, d)
  PROVE  /\ w.mem \in Memory
         /\ w.db \in DcacheBlock
         /\ w.db.addr = d.addr
         /\ w.db.data = d.data
         /\ (Dirty(d) # {} => d.anydirty) => (Dirty(w.db) # {} => w.db.anydirty)
<1>1. ASSUME NEW S \in SUBSET Offset
      PROVE  /\ StoreBytes(m, d, S) \in Memory
             /\ SetClean(d, S) \in [Offset -> EntryState]
  BY <1>1 DEF StoreBytes, SetClean, Memory, DcacheBlock, EntryState
<1>2. Dirty(d) \in SUBSET Offset
  BY DEF Dirty
<1>3. CASE w = [mem |-> m, db |-> d, ok |-> TRUE]
  BY <1>3
<1>4. CASE w = WriteAll(m, d)
  <2>1. /\ w.mem = StoreBytes(m, d, Dirty(d))
        /\ w.db = [d EXCEPT !.state = SetClean(d, Dirty(d)), !.anydirty = FALSE]
    BY <1>4 DEF WriteAll
  <2>2. /\ w.db.addr = d.addr /\ w.db.data = d.data
        /\ w.db.state = SetClean(d, Dirty(d)) /\ w.db.anydirty = FALSE
        /\ w.db \in DcacheBlock
    BY <2>1, <1>1, <1>2 DEF DcacheBlock
  <2>3. Dirty(w.db) = {}
    BY <2>2 DEF Dirty, SetClean
  <2> QED BY <2>1, <2>2, <2>3, <1>1, <1>2
<1>5. ASSUME NEW c \in Dirty(d), w = WriteSome(m, d, c)
      PROVE  /\ w.mem \in Memory
             /\ w.db \in DcacheBlock
             /\ w.db.addr = d.addr
             /\ w.db.data = d.data
             /\ (Dirty(d) # {} => d.anydirty) => (Dirty(w.db) # {} => w.db.anydirty)
  <2> DEFINE sent == {o \in Dirty(d) : o < c}
             closed == {o \in sent : \E e \in Offset : o < e /\ e < c /\ e \notin Dirty(d)}
  <2>1. /\ w.mem = StoreBytes(m, d, sent)
        /\ w.db = [d EXCEPT !.state = SetClean(d, closed)]
    BY <1>5 DEF WriteSome
  <2>2. sent \in SUBSET Offset /\ closed \in SUBSET Offset
    BY <1>2
  <2> HIDE DEF sent, closed
  <2>3. /\ w.db.addr = d.addr /\ w.db.data = d.data
        /\ w.db.anydirty = d.anydirty /\ w.db \in DcacheBlock
    BY <2>1, <1>1, <2>2 DEF DcacheBlock
  <2> QED BY <2>1, <2>2, <2>3, <1>1, <1>5
<1>6. \/ w = [mem |-> m, db |-> d, ok |-> TRUE]
      \/ w = WriteAll(m, d)
      \/ \E c \in Dirty(d) : w = WriteSome(m, d, c)
  BY DEF dcache_write_line, WriteLineQuits
<1> QED BY <1>3, <1>4, <1>5, <1>6

\* What dcache_alloc returns: a block that is now the last of the valid list
\* and on no other place of either list, with the contents it had before (its
\* dirty bytes perhaps written).
LEMMA AllocFacts ==
  ASSUME TypeOK, NEW n \in dcache_alloc
  PROVE  /\ n.b \in Block
         /\ n.valid \in Seq(Block)
         /\ n.free \in Seq(Block)
         /\ n.mem \in Memory
         /\ n.db \in DcacheBlock
         /\ DirtyIsMarked => (Dirty(n.db) # {} => n.db.anydirty)
<1> USE DEF TypeOK, DirtyIsMarked
<1>1. CASE free # << >>
  <2>1. n = [b |-> Head(free), free |-> Tail(free),
             valid |-> Append(valid, Head(free)), mem |-> mem, db |-> blk[Head(free)]]
    BY <1>1 DEF dcache_alloc
  <2>2. Head(free) \in Block /\ Tail(free) \in Seq(Block)
    BY <1>1
  <2> QED BY <2>1, <2>2
<1>2. CASE free = << >>
  <2>1. valid # << >>
    BY <1>2 DEF dcache_alloc
  <2>2. PICK w \in dcache_write_line(mem, blk[Head(valid)]) :
          n = [b |-> Head(valid), free |-> free,
               valid |-> Append(Tail(valid), Head(valid)), mem |-> w.mem, db |-> w.db]
    BY <1>2, <2>1 DEF dcache_alloc
  <2>3. Head(valid) \in Block /\ Tail(valid) \in Seq(Block)
    BY <2>1
  <2>4. blk[Head(valid)] \in DcacheBlock
    BY <2>3
  <2>5. /\ w.mem \in Memory /\ w.db \in DcacheBlock
        /\ (Dirty(blk[Head(valid)]) # {} => blk[Head(valid)].anydirty)
             => (Dirty(w.db) # {} => w.db.anydirty)
    BY <2>2, <2>4, WriteLineFacts
  <2> QED BY <2>2, <2>3, <2>5
<1> QED BY <1>1, <1>2

\* A nonempty set of numbers has a least element.
LEMMA NatLeast ==
  ASSUME NEW S \in SUBSET Nat, S # {}
  PROVE  \E i \in S : \A j \in S : i <= j
<1>1. PICK x \in S : \A y \in S : ~ (<<y, x>> \in OpToRel(<, Nat))
  BY NatLessThanWellFounded, WFMin
<1>2. \A y \in S : ~ (y < x)
  BY <1>1 DEF OpToRel
<1> QED BY <1>2

\* A hit is a block of the valid list that holds the line.
LEMMA HitFacts ==
  ASSUME TypeOK, NEW l, Hits(l) # {}
  PROVE  /\ dcache_hit(l) \in Block
         /\ blk[dcache_hit(l)] \in DcacheBlock
         /\ blk[dcache_hit(l)].addr = l
         /\ \E i \in DOMAIN valid : dcache_hit(l) = valid[i]
<1>1. Hits(l) \in SUBSET Nat
  BY DEF Hits, TypeOK
<1>2. \E i \in Hits(l) : \A j \in Hits(l) : i <= j
  BY <1>1, NatLeast
<1>3. (CHOOSE i \in Hits(l) : \A j \in Hits(l) : i <= j) \in Hits(l)
  BY <1>2
<1>4. PICK i \in Hits(l) : dcache_hit(l) = valid[i]
  BY <1>3 DEF dcache_hit
<1>5. i \in DOMAIN valid /\ valid[i] \in Block /\ blk[valid[i]].addr = l
  BY <1>4 DEF Hits, TypeOK
<1> QED BY <1>4, <1>5 DEF TypeOK

-----------------------------------------------------------------------------
(* Type correctness.                                                       *)

\* A direct transfer returns with its last byte, so that while it runs there
\* is a byte left.
DirectPending == op.pc \in {"read", "write"} => op.left > 0

TypeInv == TypeOK /\ DirectPending

\* memaddr + 1 stays in the address space.
LEMMA NextAddrType ==
  ASSUME NEW a \in Addr
  PROVE  NextAddr(a) \in Addr
BY SizeAssumption DEF NextAddr, Addr, Line, Offset

\* An idle call is a call.
LEMMA NoCallType == NoCall \in Call /\ NoCall.pc = "idle"
BY SizeAssumption DEF NoCall, Call, Addr, Line, Offset

\* The ways a call moves on or ends keep its record well formed.
LEMMA CallSteps ==
  ASSUME TypeOK
  PROVE  /\ \A r \in Result : Return(r) => op' \in Call /\ ret' \in Result /\ DirectPending'
         /\ QuitToTopLevel => op' \in Call /\ ret' \in Result /\ DirectPending'
         /\ ByteDone /\ op.left > 0 => op' \in Call /\ ret' \in Result /\ DirectPending'
<1> USE DEF TypeOK
<1>1. ASSUME NEW r \in Result, Return(r)
      PROVE  op' \in Call /\ ret' \in Result /\ DirectPending'
  <2>1. CASE op' = NoCall
    BY <1>1, <2>1, NoCallType DEF Return, DirectPending
  <2>2. CASE op' = [op EXCEPT !.pc = "writeback", !.wb = 1, !.again = FALSE]
    <3>1. op' \in Call
      <4>1. 1 \in Nat \ {0}
        OBVIOUS
      <4> QED BY <2>2, <4>1 DEF Call
    <3>2. op'.pc = "writeback"
      BY <2>2 DEF Call
    <3> QED BY <1>1, <3>1, <3>2 DEF Return, DirectPending
  <2> QED BY <1>1, <2>1, <2>2 DEF Return
<1>2. QuitToTopLevel => op' \in Call /\ ret' \in Result /\ DirectPending'
  BY NoCallType DEF QuitToTopLevel, Result, DirectPending
<1>3. ASSUME ByteDone, op.left > 0
      PROVE  op' \in Call /\ ret' \in Result /\ DirectPending'
  <2>1. CASE op.left = 1 /\ op.pc \in {"read", "write"}
    BY <1>1, <1>3, <2>1 DEF ByteDone, Result
  <2>2. CASE ~(op.left = 1 /\ op.pc \in {"read", "write"})
    <3>1. op' = [op EXCEPT !.at = NextAddr(op.at), !.left = @ - 1] /\ ret' = ret
      BY <1>3, <2>2 DEF ByteDone
    <3>2. NextAddr(op.at) \in Addr
      BY NextAddrType DEF Call
    <3>3. op.left - 1 \in Nat /\ op.left \in Nat
      BY <1>3 DEF Call
    <3>4. op' \in Call
      BY <3>1, <3>2, <3>3 DEF Call
    <3>5. op'.pc = op.pc /\ op'.left = op.left - 1
      BY <3>1 DEF Call
    <3> QED BY <1>3, <2>2, <3>1, <3>3, <3>4, <3>5 DEF DirectPending
  <2> QED BY <2>1, <2>2
<1> QED BY <1>1, <1>2, <1>3

\* A step that leaves the call through a quit.
Left == Quits /\ ret' = "quit"

\* A fill that is cut short leaves the block with a part of the line, and only a
\* quit leaves it without the line's address.
LEMMA FailedFill ==
  ASSUME NEW b, NEW l, NEW d, NEW m, FillFails(b, l, d, m)
  PROVE  \E a \in {l, d.addr}, k \in 0..LINE_SIZE :
           FillPart(b, a, d, m, k) /\ (a = l \/ Left)
<1>1. Offset \subseteq 0..LINE_SIZE /\ 0 \in 0..LINE_SIZE
  BY SizeAssumption DEF Offset
<1> QED BY <1>1 DEF FillFails, QuitToTopLevel, Left

\* Filling a line keeps memory, blocks and call well formed.
LEMMA FillType ==
  ASSUME TypeOK, op.left > 0, NEW b \in Block, NEW l \in Line,
         NEW d \in DcacheBlock, NEW m \in Memory, FillLine(b, l, d, m),
         op.at[2] \in Offset
  PROVE  /\ mem' \in Memory
         /\ blk' \in [Block -> DcacheBlock]
         /\ op' \in Call /\ ret' \in Result /\ DirectPending'
         /\ io' \in [ev : {"none", "read", "write", "run"}, at : Addr, val : Byte]
<1>1. mem' \in Memory
  BY DEF FillLine
<1>2. CASE FillOk(b, l, d, m)
  <2>1. [addr |-> l, data |-> m[l], state |-> [o \in Offset |-> "OK"],
         anydirty |-> FALSE] \in DcacheBlock
    BY DEF DcacheBlock, EntryState, Memory
  <2>2. blk' \in [Block -> DcacheBlock]
    BY <1>2, <2>1 DEF FillOk, TypeOK
  <2>3. m[l][op.at[2]] \in Byte
    BY DEF Memory
  <2>4. io' \in [ev : {"none", "read", "write", "run"}, at : Addr, val : Byte]
    BY <1>2, <2>3 DEF FillOk, Event, TypeOK, Call
  <2>5. ByteDone
    BY <1>2 DEF FillOk
  <2> QED BY <1>1, <2>2, <2>4, <2>5, CallSteps
<1>3. CASE FillFails(b, l, d, m)
  <2>1. PICK a \in {l, d.addr}, k \in 0..LINE_SIZE : FillPart(b, a, d, m, k)
    BY <1>3, FailedFill
  <2>2. [d EXCEPT !.addr = a,
           !.data = [o \in Offset |-> IF o < k THEN m[a][o] ELSE d.data[o]]] \in DcacheBlock
    <3>1. a \in Line
      BY DEF DcacheBlock
    <3>2. [o \in Offset |-> IF o < k THEN m[a][o] ELSE d.data[o]] \in [Offset -> Byte]
      BY <3>1 DEF DcacheBlock, Memory
    <3> QED BY <3>1, <3>2 DEF DcacheBlock
  <2>3. blk' \in [Block -> DcacheBlock]
    BY <2>1, <2>2 DEF FillPart, TypeOK
  <2>4. (Return("error") \/ QuitToTopLevel) /\ UNCHANGED io
    BY <1>3 DEF FillFails
  <2>5. op' \in Call /\ ret' \in Result /\ DirectPending'
    BY <2>4, CallSteps DEF Result
  <2> QED BY <1>1, <2>3, <2>4, <2>5 DEF TypeOK
<1> QED BY <1>2, <1>3 DEF FillLine

\* So does storing a byte in a block.
LEMMA PokeType ==
  ASSUME TypeOK, op.left > 0, NEW b \in Block, NEW d \in DcacheBlock,
         NEW v \in Byte, PokeInto(b, d, v)
  PROVE  /\ blk' \in [Block -> DcacheBlock]
         /\ op' \in Call /\ ret' \in Result /\ DirectPending'
         /\ io' \in [ev : {"none", "read", "write", "run"}, at : Addr, val : Byte]
<1>1. [addr |-> d.addr, data |-> [d.data EXCEPT ![op.at[2]] = v],
       state |-> [d.state EXCEPT ![op.at[2]] = "DIRTY"], anydirty |-> TRUE] \in DcacheBlock
  BY DEF DcacheBlock, EntryState
<1>2. blk' \in [Block -> DcacheBlock]
  BY <1>1 DEF PokeInto, TypeOK
<1>3. io' \in [ev : {"none", "read", "write", "run"}, at : Addr, val : Byte]
  BY DEF PokeInto, Event, TypeOK, Call
<1>4. ByteDone
  BY DEF PokeInto
<1> QED BY <1>2, <1>3, <1>4, CallSteps

\* The lists of a flushed cache.
LEMMA FlushType == FreshList \in Seq(Block) /\ << >> \in Seq(Block)
BY SizeAssumption DEF FreshList, Block

\* A zeroed block is a block, and has no dirty byte.
LEMMA ZeroBlockType == ZeroBlock \in DcacheBlock /\ Dirty(ZeroBlock) = {}
BY SizeAssumption, ByteAssumption DEF ZeroBlock, DcacheBlock, EntryState, Line, Dirty

LEMMA InitType == Init => TypeInv
<1> SUFFICES ASSUME Init PROVE TypeInv
  OBVIOUS
<1>1. <<0, 0>> \in Addr
  BY SizeAssumption DEF Addr, Line, Offset
<1>2. op \in Call /\ DirectPending
  BY NoCallType DEF Init, DirectPending
<1>3. blk \in [Block -> DcacheBlock]
  BY ZeroBlockType DEF Init
<1> QED BY <1>1, <1>2, <1>3, FlushType, ByteAssumption DEF Init, TypeInv, TypeOK, Result

LEMMA StepType == TypeInv /\ [Next]_vars => TypeInv'
<1> SUFFICES ASSUME TypeInv, [Next]_vars PROVE TypeInv'
  OBVIOUS
<1> USE DEF TypeInv
<1>a. op.at \in Addr /\ op.at[1] \in Line /\ op.at[2] \in Offset
      /\ op.left \in Nat /\ op.wb \in Nat \ {0}
  BY DEF TypeOK, Call, Addr
<1>b. op.left > 0 \/ op.pc \notin {"read", "write"}
  BY DEF DirectPending
<1>c. \A e \in {"read", "write"}, v \in Byte :
        Event(e, v) => io' \in [ev : {"none", "read", "write", "run"}, at : Addr, val : Byte]
  BY <1>a DEF Event
<1>1. ASSUME NEW pc \in {"peek", "poke"}, NEW a \in Addr, NEW len \in 1..MaxLen,
             NEW again \in BOOLEAN, XferCached(pc, a, len, again)
      PROVE  TypeInv'
  <2>1. [pc |-> pc, at |-> a, left |-> len, wb |-> 1, again |-> again] \in Call
    BY SizeAssumption DEF Call
  <2> QED BY <1>1, <2>1 DEF XferCached, cache, TypeOK, DirectPending, Result
<1>2. ASSUME NEW pc \in {"read", "write"}, NEW a \in Addr, NEW len \in 1..MaxLen,
             NEW again \in BOOLEAN, XferDirect(pc, a, len, again)
      PROVE  TypeInv'
  <2>1. [pc |-> pc, at |-> a, left |-> len, wb |-> 1, again |-> again] \in Call
    BY SizeAssumption DEF Call
  <2>2. op' \in Call /\ DirectPending'
    BY <1>2, <2>1, SizeAssumption DEF XferDirect, DirectPending
  <2>3. valid' \in Seq(Block) /\ free' \in Seq(Block) /\ cache_has_stuff' \in BOOLEAN
        /\ blk' = blk
    BY <1>2, FlushType DEF XferDirect, dcache_flush, cache, TypeOK
  <2> QED BY <1>2, <2>2, <2>3 DEF XferDirect, TypeOK, Result
<1>3. CASE PeekCached
  <2>1. blk[dcache_hit(op.at[1])] \in DcacheBlock
    BY <1>3, HitFacts DEF PeekCached
  <2>2. blk[dcache_hit(op.at[1])].data[op.at[2]] \in Byte
    BY <2>1, <1>a DEF DcacheBlock
  <2>3. io' \in [ev : {"none", "read", "write", "run"}, at : Addr, val : Byte]
    BY <1>3, <2>2, <1>c DEF PeekCached
  <2>4. op' \in Call /\ ret' \in Result /\ DirectPending'
    BY <1>3, CallSteps DEF PeekCached
  <2> QED BY <1>3, <2>3, <2>4 DEF PeekCached, cache, TypeOK
<1>4. CASE PeekRefill
  <2> DEFINE b == dcache_hit(op.at[1])
  <2>1. b \in Block /\ blk[b] \in DcacheBlock
    BY <1>4, HitFacts DEF PeekRefill
  <2> HIDE DEF b
  <2>2. CASE \E w \in dcache_write_line(mem, blk[b]) : FillLine(b, op.at[1], w.db, w.mem)
    <3>1. PICK w \in dcache_write_line(mem, blk[b]) : FillLine(b, op.at[1], w.db, w.mem)
      BY <2>2
    <3>2. w.mem \in Memory /\ w.db \in DcacheBlock
      BY <2>1, WriteLineFacts DEF TypeOK
    <3>3. op.left > 0
      BY <1>4 DEF PeekRefill
    <3>4. /\ mem' \in Memory
          /\ blk' \in [Block -> DcacheBlock]
          /\ op' \in Call /\ ret' \in Result /\ DirectPending'
          /\ io' \in [ev : {"none", "read", "write", "run"}, at : Addr, val : Byte]
      BY <1>a, <2>1, <3>1, <3>2, <3>3, FillType
    <3> QED BY <1>4, <3>4 DEF PeekRefill, TypeOK
  <2>3. CASE \E w \in WriteLineQuits(mem, blk[b]) :
               /\ mem' = w.mem /\ blk' = [blk EXCEPT ![b] = w.db]
               /\ QuitToTopLevel
               /\ UNCHANGED io
    <3>1. PICK w \in WriteLineQuits(mem, blk[b]) :
               /\ mem' = w.mem /\ blk' = [blk EXCEPT ![b] = w.db]
               /\ QuitToTopLevel
               /\ UNCHANGED io
      BY <2>3
    <3>2. w.mem \in Memory /\ w.db \in DcacheBlock
      BY <2>1, WriteLineFacts DEF TypeOK
    <3>3. op' \in Call /\ ret' \in Result /\ DirectPending'
      BY <3>1, CallSteps
    <3> QED BY <1>4, <3>1, <3>2, <3>3 DEF PeekRefill, TypeOK
  <2> QED BY <1>4, <2>2, <2>3 DEF PeekRefill, b
<1>5. CASE PeekMiss
  <2>1. PICK n \in dcache_alloc :
          /\ valid' = n.valid /\ free' = n.free
          /\ FillLine(n.b, op.at[1], n.db, n.mem)
    BY <1>5 DEF PeekMiss
  <2>2. /\ n.b \in Block /\ n.valid \in Seq(Block) /\ n.free \in Seq(Block)
        /\ n.mem \in Memory /\ n.db \in DcacheBlock
    BY AllocFacts
  <2>3. op.left > 0
    BY <1>5 DEF PeekMiss
  <2>4. /\ mem' \in Memory
        /\ blk' \in [Block -> DcacheBlock]
        /\ op' \in Call /\ ret' \in Result /\ DirectPending'
        /\ io' \in [ev : {"none", "read", "write", "run"}, at : Addr, val : Byte]
    BY <1>a, <2>1, <2>2, <2>3, FillType
  <2> QED BY <1>5, <2>1, <2>2, <2>4 DEF PeekMiss, TypeOK
<1>6. CASE EvictQuits
  <2>1. PICK w \in WriteLineQuits(mem, blk[Head(valid)]) :
          mem' = w.mem /\ blk' = [blk EXCEPT ![Head(valid)] = w.db]
    BY <1>6 DEF EvictQuits
  <2>2. Head(valid) \in Block /\ Tail(valid) \in Seq(Block)
    BY <1>6 DEF EvictQuits, TypeOK
  <2>3. w.mem \in Memory /\ w.db \in DcacheBlock
    BY <2>1, <2>2, WriteLineFacts DEF TypeOK
  <2>4. op' \in Call /\ ret' \in Result /\ DirectPending'
    BY <1>6, CallSteps DEF EvictQuits
  <2> QED BY <1>6, <2>1, <2>2, <2>3, <2>4 DEF EvictQuits, TypeOK
<1>7. CASE AllocNull
  <2>1. op' \in Call /\ op'.pc = "crash"
    BY <1>7 DEF AllocNull, TypeOK, Call
  <2> QED BY <1>7, <2>1 DEF AllocNull, cache, TypeOK, DirectPending
<1>8. ASSUME NEW v \in Byte, PokeHit(v)
      PROVE  TypeInv'
  <2>1. dcache_hit(op.at[1]) \in Block /\ blk[dcache_hit(op.at[1])] \in DcacheBlock
    BY <1>8, HitFacts DEF PokeHit
  <2>2. op.left > 0 /\ PokeInto(dcache_hit(op.at[1]), blk[dcache_hit(op.at[1])], v)
    BY <1>8 DEF PokeHit
  <2>3. /\ blk' \in [Block -> DcacheBlock]
        /\ op' \in Call /\ ret' \in Result /\ DirectPending'
        /\ io' \in [ev : {"none", "read", "write", "run"}, at : Addr, val : Byte]
    BY <2>1, <2>2, PokeType
  <2> QED BY <1>8, <2>3 DEF PokeHit, TypeOK
<1>9. ASSUME NEW v \in Byte, PokeMiss(v)
      PROVE  TypeInv'
  <2>1. PICK n \in dcache_alloc :
          /\ mem' = n.mem /\ valid' = n.valid /\ free' = n.free
          /\ PokeInto(n.b, [n.db EXCEPT !.addr = op.at[1],
                                        !.state = [o \in Offset |-> "BAD"]], v)
    BY <1>9 DEF PokeMiss
  <2>2. /\ n.b \in Block /\ n.valid \in Seq(Block) /\ n.free \in Seq(Block)
        /\ n.mem \in Memory /\ n.db \in DcacheBlock
    BY AllocFacts
  <2>3. [n.db EXCEPT !.addr = op.at[1], !.state = [o \in Offset |-> "BAD"]] \in DcacheBlock
    BY <2>2, <1>a DEF DcacheBlock, EntryState
  <2>4. op.left > 0
    BY <1>9 DEF PokeMiss
  <2>5. /\ blk' \in [Block -> DcacheBlock]
        /\ op' \in Call /\ ret' \in Result /\ DirectPending'
        /\ io' \in [ev : {"none", "read", "write", "run"}, at : Addr, val : Byte]
    BY <2>1, <2>2, <2>3, <2>4, PokeType
  <2> QED BY <1>9, <2>1, <2>2, <2>5 DEF PokeMiss, TypeOK
<1>10. CASE XferBytesDone
  <2>1. op' = [op EXCEPT !.pc = "writeback", !.wb = 1]
    BY <1>10 DEF XferBytesDone
  <2>2. 1 \in Nat \ {0}
    OBVIOUS
  <2>3. op' \in Call /\ op'.pc = "writeback"
    BY <2>1, <2>2 DEF TypeOK, Call
  <2> QED BY <1>10, <2>3 DEF XferBytesDone, cache, TypeOK, DirectPending
<1>11. CASE WritebackLine
  <2> DEFINE b == valid[op.wb]
  <2>1. b \in Block /\ blk[b] \in DcacheBlock
    BY <1>11, <1>a DEF WritebackLine, TypeOK
  <2> HIDE DEF b
  <2>2. PICK w \in dcache_write_line(mem, blk[b]) \cup WriteLineQuits(mem, blk[b]) :
          /\ mem' = w.mem /\ blk' = [blk EXCEPT ![b] = w.db]
          /\ \/ op' = [op EXCEPT !.wb = @ + 1] /\ UNCHANGED ret
             \/ Return(IF ret = "none" THEN "ok" ELSE "error")
             \/ QuitToTopLevel
    BY <1>11 DEF WritebackLine, b
  <2>3. w.mem \in Memory /\ w.db \in DcacheBlock
    BY <2>1, WriteLineFacts DEF TypeOK
  <2>4. CASE op' = [op EXCEPT !.wb = @ + 1] /\ UNCHANGED ret
    <3>1. op.wb + 1 \in Nat \ {0}
      BY <1>a
    <3>2. op' \in Call /\ op'.pc = op.pc /\ op.pc = "writeback"
      BY <1>11, <2>4, <3>1 DEF WritebackLine, TypeOK, Call
    <3> QED BY <2>4, <1>11, <2>2, <2>3, <3>2 DEF WritebackLine, TypeOK, DirectPending
  <2>5. CASE Return(IF ret = "none" THEN "ok" ELSE "error") \/ QuitToTopLevel
    <3>1. op' \in Call /\ ret' \in Result /\ DirectPending'
      BY <2>5, CallSteps DEF Result
    <3> QED BY <1>11, <2>2, <2>3, <3>1 DEF WritebackLine, TypeOK
  <2> QED BY <2>2, <2>4, <2>5
<1>12. CASE WritebackDone
  <2>1. op' \in Call /\ ret' \in Result /\ DirectPending'
    BY <1>12, CallSteps DEF WritebackDone, Result
  <2> QED BY <1>12, <2>1 DEF WritebackDone, cache, TypeOK
<1>13. CASE DirectRead
  <2>1. mem[op.at[1]][op.at[2]] \in Byte
    BY <1>a DEF TypeOK, Memory
  <2>2. op' \in Call /\ ret' \in Result /\ DirectPending'
    BY <1>13, <1>b, CallSteps DEF DirectRead, Result
  <2>3. io' \in [ev : {"none", "read", "write", "run"}, at : Addr, val : Byte]
    BY <1>13, <2>1, <1>c DEF DirectRead, TypeOK
  <2> QED BY <1>13, <2>2, <2>3 DEF DirectRead, cache, TypeOK
<1>14. ASSUME NEW v \in Byte, DirectWrite(v)
       PROVE  TypeInv'
  <2>1. [mem EXCEPT ![op.at[1]][op.at[2]] = v] \in Memory
    BY <1>a DEF TypeOK, Memory
  <2>2. mem' \in Memory
    BY <1>14, <2>1 DEF DirectWrite, TypeOK
  <2>3. op' \in Call /\ ret' \in Result /\ DirectPending'
    BY <1>14, <1>b, CallSteps DEF DirectWrite, Result
  <2>4. io' \in [ev : {"none", "read", "write", "run"}, at : Addr, val : Byte]
    BY <1>14, <1>c DEF DirectWrite, TypeOK
  <2> QED BY <1>14, <2>2, <2>3, <2>4 DEF DirectWrite, cache, TypeOK
<1>15. CASE SetRemoteCache
  BY <1>15 DEF SetRemoteCache, cache, TypeOK, DirectPending
<1>16. CASE RemoteResume
  BY <1>16, FlushType DEF RemoteResume, dcache_flush, TargetRuns, TypeOK, DirectPending
<1>17. CASE RemoteOpen
  <2>1. blk' \in [Block -> DcacheBlock]
    BY <1>17, ZeroBlockType DEF RemoteOpen
  <2> QED BY <1>17, <2>1, FlushType
         DEF RemoteOpen, dcache_flush, TargetRuns, TypeOK, DirectPending
<1>18. CASE UNCHANGED vars
  BY <1>18 DEF vars, TypeOK, DirectPending
<1> QED
  BY <1>1, <1>2, <1>3, <1>4, <1>5, <1>6, <1>7, <1>8, <1>9, <1>10, <1>11, <1>12,
     <1>13, <1>14, <1>15, <1>16, <1>17, <1>18 DEF Next, Start

\* Every variable of the cache keeps its type, for every geometry of the cache
\* and whatever fails in the callbacks (all of dcache.c).
THEOREM TypeCorrect == Spec => []TypeOK
<1>1. TypeInv => TypeOK
  BY DEF TypeInv
<1> QED BY <1>1, InitType, StepType, PTL DEF Spec

-----------------------------------------------------------------------------
(* The structure of the cache.  Every step does one of four things to the  *)
(* lists and to the lines that the blocks hold.                            *)

LinesKept == \A b \in Block : blk'[b].addr = blk[b].addr

\* The lists stay as they are, and so do the lines of the blocks.
KeepStep == UNCHANGED <<valid, free>> /\ LinesKept

\* All blocks are freed.
FlushStep == valid' = << >> /\ free' = FreshList

\* A block is taken for a line that no valid block holds; a quit may leave it
\* without that line's address.
AllocStep ==
  \E n \in dcache_alloc :
    /\ Hits(op.at[1]) = {}
    /\ valid' = n.valid /\ free' = n.free
    /\ blk'[n.b].addr = op.at[1] \/ Left
    /\ \A b \in Block : b # n.b => blk'[b] = blk[b]

\* The oldest block drops off the valid list.
LoseStep == Left /\ valid # << >> /\ valid' = Tail(valid) /\ free' = free /\ LinesKept

\* Filling a line or storing into it changes one block, and that block's line
\* is the one that was asked for, or after a quit still the one it had.
LEMMA OneBlockChanges ==
  ASSUME TypeOK, NEW b \in Block, NEW d \in DcacheBlock
  PROVE  /\ \A l \in Line, m \in Memory : FillLine(b, l, d, m) =>
              /\ blk'[b].addr = l \/ (Left /\ blk'[b].addr = d.addr)
              /\ \A c \in Block : c # b => blk'[c] = blk[c]
         /\ \A v \in Byte : PokeInto(b, d, v) =>
              /\ blk'[b].addr = d.addr
              /\ \A c \in Block : c # b => blk'[c] = blk[c]
<1> USE DEF TypeOK
<1>1. ASSUME NEW l \in Line, NEW m \in Memory, FillLine(b, l, d, m)
      PROVE  /\ blk'[b].addr = l \/ (Left /\ blk'[b].addr = d.addr)
             /\ \A c \in Block : c # b => blk'[c] = blk[c]
  <2>1. CASE FillOk(b, l, d, m)
    BY <2>1 DEF FillOk
  <2>2. CASE FillFails(b, l, d, m)
    <3>1. PICK a \in {l, d.addr}, k \in 0..LINE_SIZE :
            FillPart(b, a, d, m, k) /\ (a = l \/ Left)
      BY <2>2, FailedFill
    <3>2. blk'[b] = [d EXCEPT !.addr = a,
            !.data = [o \in Offset |-> IF o < k THEN m[a][o] ELSE d.data[o]]]
      BY <3>1 DEF FillPart
    <3>3. blk'[b].addr = a
      BY <3>2 DEF DcacheBlock
    <3> QED BY <3>1, <3>3 DEF FillPart
  <2> QED BY <1>1, <2>1, <2>2 DEF FillLine
<1>2. ASSUME NEW v \in Byte, PokeInto(b, d, v)
      PROVE  blk'[b].addr = d.addr /\ \A c \in Block : c # b => blk'[c] = blk[c]
  BY <1>2 DEF PokeInto
<1> QED BY <1>1, <1>2

LEMMA StepShape ==
  ASSUME TypeInv, [Next]_vars
  PROVE  KeepStep \/ FlushStep \/ AllocStep \/ LoseStep
<1> USE DEF TypeInv
<1>a. op.at \in Addr /\ op.at[1] \in Line /\ op.at[2] \in Offset
      /\ op.left \in Nat /\ op.wb \in Nat \ {0}
  BY DEF TypeOK, Call, Addr
<1>b. UNCHANGED <<blk, valid, free>> => KeepStep
  BY DEF KeepStep, LinesKept
<1>1. ASSUME NEW pc, NEW a, NEW len, NEW again, XferCached(pc, a, len, again)
      PROVE  KeepStep
  BY <1>1, <1>b DEF XferCached, cache
<1>2. ASSUME NEW pc, NEW a, NEW len, NEW again, XferDirect(pc, a, len, again)
      PROVE  KeepStep \/ FlushStep
  BY <1>2, <1>b DEF XferDirect, cache, dcache_flush, FlushStep
<1>3. CASE PeekCached \/ XferBytesDone \/ WritebackDone \/ DirectRead \/ SetRemoteCache
           \/ AllocNull \/ UNCHANGED vars
  BY <1>3, <1>b DEF PeekCached, XferBytesDone, WritebackDone, DirectRead, SetRemoteCache,
                    AllocNull, cache, vars
<1>4. CASE PeekRefill
  <2> DEFINE b == dcache_hit(op.at[1])
  <2>1. b \in Block /\ blk[b] \in DcacheBlock /\ blk[b].addr = op.at[1]
    BY <1>4, HitFacts DEF PeekRefill
  <2> HIDE DEF b
  <2>2. CASE \E w \in dcache_write_line(mem, blk[b]) : FillLine(b, op.at[1], w.db, w.mem)
    <3>1. PICK w \in dcache_write_line(mem, blk[b]) : FillLine(b, op.at[1], w.db, w.mem)
      BY <2>2
    <3>2. w.mem \in Memory /\ w.db \in DcacheBlock /\ w.db.addr = op.at[1]
      BY <2>1, WriteLineFacts DEF TypeOK
    <3>3. blk'[b].addr = op.at[1] /\ \A c \in Block : c # b => blk'[c] = blk[c]
      BY <1>a, <2>1, <3>1, <3>2, OneBlockChanges
    <3> QED BY <1>4, <2>1, <3>3 DEF PeekRefill, KeepStep, LinesKept
  <2>3. CASE \E w \in WriteLineQuits(mem, blk[b]) :
               mem' = w.mem /\ blk' = [blk EXCEPT ![b] = w.db]
    <3>1. PICK w \in WriteLineQuits(mem, blk[b]) : blk' = [blk EXCEPT ![b] = w.db]
      BY <2>3
    <3>2. w.db.addr = blk[b].addr
      BY <2>1, WriteLineFacts DEF TypeOK
    <3> QED BY <1>4, <3>1, <3>2 DEF PeekRefill, KeepStep, LinesKept, TypeOK
  <2> QED BY <1>4, <2>2, <2>3 DEF PeekRefill, b
<1>5. CASE PeekMiss
  <2>1. PICK n \in dcache_alloc :
          /\ valid' = n.valid /\ free' = n.free
          /\ FillLine(n.b, op.at[1], n.db, n.mem)
    BY <1>5 DEF PeekMiss
  <2>2. n.b \in Block /\ n.mem \in Memory /\ n.db \in DcacheBlock
    BY AllocFacts
  <2>3. /\ blk'[n.b].addr = op.at[1] \/ Left
        /\ \A c \in Block : c # n.b => blk'[c] = blk[c]
    BY <1>a, <2>1, <2>2, OneBlockChanges
  <2>4. Hits(op.at[1]) = {}
    BY <1>5 DEF PeekMiss
  <2> QED BY <2>1, <2>3, <2>4 DEF AllocStep
<1>6. CASE EvictQuits
  <2>1. PICK w \in WriteLineQuits(mem, blk[Head(valid)]) :
          blk' = [blk EXCEPT ![Head(valid)] = w.db]
    BY <1>6 DEF EvictQuits
  <2>2. Head(valid) \in Block
    BY <1>6 DEF EvictQuits, TypeOK
  <2>3. w.db.addr = blk[Head(valid)].addr
    BY <2>1, <2>2, WriteLineFacts DEF TypeOK
  <2>4. Left
    BY <1>6, <2>1 DEF EvictQuits, WriteLineQuits, QuitToTopLevel, Left
  <2> QED BY <1>6, <2>1, <2>3, <2>4 DEF EvictQuits, LoseStep, LinesKept, TypeOK
<1>8. ASSUME NEW v \in Byte, PokeHit(v)
      PROVE  KeepStep
  <2> DEFINE b == dcache_hit(op.at[1])
  <2>1. b \in Block /\ blk[b] \in DcacheBlock
    BY <1>8, HitFacts DEF PokeHit
  <2>2. blk'[b].addr = blk[b].addr /\ \A c \in Block : c # b => blk'[c] = blk[c]
    BY <1>8, <2>1, OneBlockChanges DEF PokeHit
  <2> QED BY <1>8, <2>2 DEF PokeHit, KeepStep, LinesKept
<1>9. ASSUME NEW v \in Byte, PokeMiss(v)
      PROVE  AllocStep
  <2>1. PICK n \in dcache_alloc :
          /\ mem' = n.mem /\ valid' = n.valid /\ free' = n.free
          /\ PokeInto(n.b, [n.db EXCEPT !.addr = op.at[1],
                                        !.state = [o \in Offset |-> "BAD"]], v)
    BY <1>9 DEF PokeMiss
  <2>2. n.b \in Block /\ n.mem \in Memory /\ n.db \in DcacheBlock
    BY AllocFacts
  <2> DEFINE d == [n.db EXCEPT !.addr = op.at[1], !.state = [o \in Offset |-> "BAD"]]
  <2>3. d \in DcacheBlock /\ d.addr = op.at[1]
    BY <2>2, <1>a DEF DcacheBlock, EntryState
  <2>4. PokeInto(n.b, d, v)
    BY <2>1
  <2> HIDE DEF d
  <2>5. blk'[n.b].addr = op.at[1] /\ \A c \in Block : c # n.b => blk'[c] = blk[c]
    BY <2>2, <2>3, <2>4, OneBlockChanges
  <2>6. Hits(op.at[1]) = {}
    BY <1>9 DEF PokeMiss
  <2> QED BY <2>1, <2>5, <2>6 DEF AllocStep
<1>10. CASE WritebackLine
  <2> DEFINE b == valid[op.wb]
  <2>1. b \in Block /\ blk[b] \in DcacheBlock
    BY <1>10, <1>a DEF WritebackLine, TypeOK
  <2> HIDE DEF b
  <2>2. PICK w \in dcache_write_line(mem, blk[b]) \cup WriteLineQuits(mem, blk[b]) :
          blk' = [blk EXCEPT ![b] = w.db]
    BY <1>10 DEF WritebackLine, b
  <2>3. w.db.addr = blk[b].addr
    BY <2>1, WriteLineFacts DEF TypeOK
  <2> QED BY <1>10, <2>2, <2>3 DEF WritebackLine, KeepStep, LinesKept, TypeOK
<1>11. ASSUME NEW v, DirectWrite(v)
       PROVE  KeepStep
  BY <1>11, <1>b DEF DirectWrite, cache
<1>12. CASE RemoteResume \/ RemoteOpen
  BY <1>12 DEF RemoteResume, RemoteOpen, dcache_flush, FlushStep
<1> QED
  BY <1>1, <1>2, <1>3, <1>4, <1>5, <1>6, <1>8, <1>9, <1>10, <1>11, <1>12 DEF Next, Start

\* The valid list that dcache_alloc leaves: the old one, perhaps without its
\* first block, followed by the block taken; and what the free list becomes.
LEMMA AllocLists ==
  ASSUME TypeOK, ListsDisjoint, NEW n \in dcache_alloc
  PROVE  /\ Len(n.valid) \in Nat \ {0}
         /\ n.valid[Len(n.valid)] = n.b
         /\ \E s \in {0, 1} : \A i \in 1..(Len(n.valid) - 1) :
              /\ i + s \in DOMAIN valid
              /\ n.valid[i] = valid[i + s]
              /\ n.valid[i] # n.b
         /\ \E s \in {0, 1} : \A i \in DOMAIN n.free :
              /\ i + s \in DOMAIN free
              /\ n.free[i] = free[i + s]
              /\ n.free[i] # n.b
<1> USE DEF TypeOK
<1>1. CASE free # << >>
  <2>1. n = [b |-> Head(free), free |-> Tail(free),
             valid |-> Append(valid, Head(free)), mem |-> mem, db |-> blk[Head(free)]]
    BY <1>1 DEF dcache_alloc
  <2>2. Head(free) = free[1] /\ Len(free) \in Nat \ {0} /\ Head(free) \in Block
    BY <1>1
  <2>3. /\ Len(n.valid) = Len(valid) + 1 /\ n.valid[Len(n.valid)] = n.b
        /\ \A i \in 1..Len(valid) : n.valid[i] = valid[i]
    BY <2>1, <2>2
  <2>4. \A i \in 1..(Len(n.valid) - 1) :
              i + 0 \in DOMAIN valid /\ n.valid[i] = valid[i + 0] /\ n.valid[i] # n.b
    BY <2>1, <2>2, <2>3 DEF ListsDisjoint
  <2>5. \A i \in DOMAIN n.free :
              i + 1 \in DOMAIN free /\ n.free[i] = free[i + 1]
    BY <2>1, <2>2
  <2>6. \A i \in DOMAIN n.free : n.free[i] # n.b
    BY <2>1, <2>2, <2>5 DEF ListsDisjoint
  <2> QED BY <2>3, <2>4, <2>5, <2>6
<1>2. CASE free = << >>
  <2>1. valid # << >>
    BY <1>2 DEF dcache_alloc
  <2>2. PICK w \in dcache_write_line(mem, blk[Head(valid)]) :
          n = [b |-> Head(valid), free |-> free,
               valid |-> Append(Tail(valid), Head(valid)), mem |-> w.mem, db |-> w.db]
    BY <1>2, <2>1 DEF dcache_alloc
  <2>3. Head(valid) = valid[1] /\ Len(valid) \in Nat \ {0} /\ Head(valid) \in Block
    BY <2>1
  <2>4. /\ Len(n.valid) = Len(valid) /\ n.valid[Len(n.valid)] = n.b
        /\ \A i \in 1..(Len(valid) - 1) : n.valid[i] = valid[i + 1]
    BY <2>2, <2>3
  <2>5. ASSUME NEW i \in 1..(Len(n.valid) - 1)
        PROVE  i + 1 \in DOMAIN valid /\ n.valid[i] = valid[i + 1] /\ n.valid[i] # n.b
    <3>1. 1 \in DOMAIN valid /\ i + 1 \in DOMAIN valid /\ i + 1 # 1
      BY <2>3, <2>4
    <3>2. n.valid[i] = valid[i + 1] /\ n.b = valid[1]
      BY <2>2, <2>3, <2>4
    <3> QED BY <3>1, <3>2 DEF ListsDisjoint
  <2>6. \A i \in DOMAIN n.free : FALSE
    BY <1>2, <2>2
  <2> QED BY <2>3, <2>4, <2>5, <2>6
<1> QED BY <1>1, <1>2

\* Every shape of step keeps the lists disjoint, and the lines distinct unless it
\* leaves a fill before the block has its new address.
LEMMA StepStructure ==
  ASSUME TypeInv, TypeInv', ListsDisjoint, [Next]_vars
  PROVE  ListsDisjoint' /\ (OneBlockPerLine /\ ~Left => OneBlockPerLine')
<1> USE DEF TypeInv
<1>1. CASE KeepStep
  <2>1. ListsDisjoint'
    BY <1>1 DEF KeepStep, ListsDisjoint
  <2>2. \A i \in DOMAIN valid : blk'[valid[i]].addr = blk[valid[i]].addr
    BY <1>1 DEF KeepStep, LinesKept, TypeOK
  <2> QED BY <1>1, <2>1, <2>2 DEF KeepStep, OneBlockPerLine
<1>2. CASE FlushStep
  <2>1. DOMAIN valid' = {}
    BY <1>2 DEF FlushStep
  <2>2. \A i, j \in DOMAIN free' : free'[i] = free'[j] => i = j
    BY <1>2 DEF FlushStep, FreshList
  <2> QED BY <2>1, <2>2 DEF ListsDisjoint, OneBlockPerLine
<1>3. CASE AllocStep
  <2>1. PICK n \in dcache_alloc :
          /\ Hits(op.at[1]) = {}
          /\ valid' = n.valid /\ free' = n.free
          /\ blk'[n.b].addr = op.at[1] \/ Left
          /\ \A b \in Block : b # n.b => blk'[b] = blk[b]
    BY <1>3 DEF AllocStep
  <2> DEFINE k == Len(valid')
  <2>2. /\ k \in Nat \ {0} /\ valid'[k] = n.b /\ DOMAIN valid' = 1..k
        /\ DOMAIN valid = 1..Len(valid)
    BY <2>1, AllocLists DEF TypeOK
  <2>3. PICK s \in {0, 1} : \A i \in 1..(k - 1) :
          /\ i + s \in DOMAIN valid
          /\ valid'[i] = valid[i + s]
          /\ valid'[i] # n.b
    <3>1. PICK s \in {0, 1} : \A i \in 1..(Len(n.valid) - 1) :
            /\ i + s \in DOMAIN valid
            /\ n.valid[i] = valid[i + s]
            /\ n.valid[i] # n.b
      BY AllocLists
    <3>2. k = Len(n.valid) /\ valid' = n.valid
      BY <2>1
    <3> QED BY <3>1, <3>2
  <2>4. PICK t \in {0, 1} : \A i \in DOMAIN free' :
          /\ i + t \in DOMAIN free
          /\ free'[i] = free[i + t]
          /\ free'[i] # n.b
    BY <2>1, AllocLists
  <2> HIDE DEF k
  <2>5. \A i \in 1..k : i = k \/ i \in 1..(k - 1)
    BY <2>2
  <2>6. \A i, j \in 1..k : valid'[i] = valid'[j] => i = j
    <3>1. \A i, j \in 1..(k - 1) : valid'[i] = valid'[j] => i = j
      <4> SUFFICES ASSUME NEW i \in 1..(k - 1), NEW j \in 1..(k - 1), valid'[i] = valid'[j]
                   PROVE  i = j
        OBVIOUS
      <4>1. i + s = j + s
        BY <2>3 DEF ListsDisjoint
      <4> QED BY <4>1, <2>2
    <3> QED BY <2>2, <2>3, <2>5, <3>1
  <2>7. \A i, j \in DOMAIN free' : free'[i] = free'[j] => i = j
    <3> SUFFICES ASSUME NEW i \in DOMAIN free', NEW j \in DOMAIN free', free'[i] = free'[j]
                 PROVE  i = j
      OBVIOUS
    <3>1. i + t = j + t
      BY <2>4 DEF ListsDisjoint
    <3>2. i \in Nat /\ j \in Nat
      BY DEF TypeOK
    <3> QED BY <3>1, <3>2
  <2>8. \A i \in 1..k, j \in DOMAIN free' : valid'[i] # free'[j]
    <3>1. \A i \in 1..(k - 1), j \in DOMAIN free' : valid'[i] # free'[j]
      BY <2>3, <2>4 DEF ListsDisjoint
    <3> QED BY <2>2, <2>4, <2>5, <3>1
  <2>9. \A i \in 1..(k - 1) : /\ blk'[valid'[i]] = blk[valid[i + s]]
                              /\ blk'[valid'[i]].addr # op.at[1]
    <3> SUFFICES ASSUME NEW i \in 1..(k - 1)
                 PROVE  /\ blk'[valid'[i]] = blk[valid[i + s]]
                        /\ blk'[valid'[i]].addr # op.at[1]
      OBVIOUS
    <3>1. i + s \in DOMAIN valid /\ valid'[i] = valid[i + s] /\ valid'[i] # n.b
      BY <2>3
    <3>2. valid[i + s] \in Block
      BY <3>1 DEF TypeOK
    <3>3. blk'[valid'[i]] = blk[valid[i + s]]
      BY <2>1, <3>1, <3>2
    <3>4. blk[valid[i + s]].addr # op.at[1]
      BY <2>1, <3>1 DEF Hits
    <3> QED BY <3>3, <3>4
  <2>10. ASSUME OneBlockPerLine, ~Left
         PROVE  \A i, j \in 1..k : blk'[valid'[i]].addr = blk'[valid'[j]].addr => i = j
    <3>1. \A i, j \in 1..(k - 1) : blk'[valid'[i]].addr = blk'[valid'[j]].addr => i = j
      <4> SUFFICES ASSUME NEW i \in 1..(k - 1), NEW j \in 1..(k - 1),
                          blk'[valid'[i]].addr = blk'[valid'[j]].addr
                   PROVE  i = j
        OBVIOUS
      <4>1. i + s = j + s
        BY <2>3, <2>9, <2>10 DEF OneBlockPerLine
      <4> QED BY <4>1, <2>2
    <3>2. blk'[valid'[k]].addr = op.at[1]
      BY <2>1, <2>2, <2>10
    <3> QED BY <2>2, <2>5, <2>9, <3>1, <3>2
  <2> QED BY <2>2, <2>6, <2>7, <2>8, <2>10 DEF ListsDisjoint, OneBlockPerLine
<1>4. CASE LoseStep
  <2>1. /\ valid' \in Seq(Block)
        /\ \A i \in DOMAIN valid' : i \in Nat /\ i + 1 \in DOMAIN valid /\ valid'[i] = valid[i + 1]
    BY <1>4 DEF LoseStep, TypeOK
  <2>2. ListsDisjoint'
    <3>1. \A i, j \in DOMAIN valid' : valid'[i] = valid'[j] => i = j
      <4> SUFFICES ASSUME NEW i \in DOMAIN valid', NEW j \in DOMAIN valid', valid'[i] = valid'[j]
                   PROVE  i = j
        OBVIOUS
      <4>1. i + 1 = j + 1
        BY <2>1 DEF ListsDisjoint
      <4> QED BY <4>1, <2>1
    <3> QED BY <1>4, <2>1, <3>1 DEF LoseStep, ListsDisjoint
  <2>3. \A i \in DOMAIN valid' : blk'[valid'[i]].addr = blk[valid[i + 1]].addr
    BY <1>4, <2>1 DEF LoseStep, LinesKept, TypeOK
  <2>4. OneBlockPerLine => OneBlockPerLine'
    <3> SUFFICES ASSUME OneBlockPerLine, NEW i \in DOMAIN valid', NEW j \in DOMAIN valid',
                        blk'[valid'[i]].addr = blk'[valid'[j]].addr
                 PROVE  i = j
      BY DEF OneBlockPerLine
    <3>1. i + 1 = j + 1
      BY <2>1, <2>3 DEF OneBlockPerLine
    <3> QED BY <3>1, <2>1
  <2> QED BY <2>2, <2>4
<1> QED BY <1>1, <1>2, <1>3, <1>4, StepShape

-----------------------------------------------------------------------------
(* Dirty bytes are marked.                                                 *)

Marked(d) == Dirty(d) # {} => d.anydirty

\* Filling and storing keep blocks marked.
LEMMA BlockMarked ==
  ASSUME TypeOK, DirtyIsMarked, NEW b \in Block, NEW d \in DcacheBlock
  PROVE  /\ \A l \in Line, m \in Memory : FillLine(b, l, d, m) /\ Marked(d) => DirtyIsMarked'
         /\ \A v \in Byte : PokeInto(b, d, v) => DirtyIsMarked'
<1> USE DEF TypeOK
<1>1. ASSUME NEW l \in Line, NEW m \in Memory, FillLine(b, l, d, m), Marked(d)
      PROVE  DirtyIsMarked'
  <2>1. \A c \in Block : c # b => blk'[c] = blk[c]
    BY <1>1, OneBlockChanges
  <2>2. CASE FillOk(b, l, d, m)
    <3>1. Dirty(blk'[b]) = {}
      BY <2>2 DEF FillOk, Dirty
    <3> QED BY <2>1, <3>1 DEF DirtyIsMarked, Dirty
  <2>3. CASE FillFails(b, l, d, m)
    <3>1. PICK a \in {l, d.addr}, k \in 0..LINE_SIZE : FillPart(b, a, d, m, k)
      BY <2>3, FailedFill
    <3>2. blk'[b] = [d EXCEPT !.addr = a,
            !.data = [o \in Offset |-> IF o < k THEN m[a][o] ELSE d.data[o]]]
      BY <3>1 DEF FillPart
    <3>3. blk'[b].state = d.state /\ blk'[b].anydirty = d.anydirty
      BY <3>2 DEF DcacheBlock
    <3> QED BY <1>1, <2>1, <3>3 DEF DirtyIsMarked, Dirty, Marked
  <2> QED BY <1>1, <2>2, <2>3 DEF FillLine
<1>2. ASSUME NEW v \in Byte, PokeInto(b, d, v)
      PROVE  DirtyIsMarked'
  <2>1. blk'[b].anydirty /\ \A c \in Block : c # b => blk'[c] = blk[c]
    BY <1>2 DEF PokeInto
  <2> QED BY <2>1 DEF DirtyIsMarked, Dirty
<1> QED BY <1>1, <1>2

\* So does every write-back, finished or not.
LEMMA WriteMarked ==
  ASSUME TypeOK, DirtyIsMarked, NEW b \in Block,
         NEW w \in dcache_write_line(mem, blk[b]) \cup WriteLineQuits(mem, blk[b])
  PROVE  /\ w.mem \in Memory /\ w.db \in DcacheBlock /\ Marked(w.db)
         /\ blk' = [blk EXCEPT ![b] = w.db] => DirtyIsMarked'
<1>a. mem \in Memory /\ blk[b] \in DcacheBlock
  BY DEF TypeOK
<1>1. w.mem \in Memory /\ w.db \in DcacheBlock /\ Marked(w.db)
  BY <1>a, WriteLineFacts DEF DirtyIsMarked, Marked
<1> QED BY <1>1 DEF TypeOK, DirtyIsMarked, Marked, Dirty

LEMMA StepMarked ==
  ASSUME TypeInv, DirtyIsMarked, [Next]_vars
  PROVE  DirtyIsMarked'
<1> USE DEF TypeInv
<1>a. op.at \in Addr /\ op.at[1] \in Line /\ op.at[2] \in Offset
      /\ op.left \in Nat /\ op.wb \in Nat \ {0}
  BY DEF TypeOK, Call, Addr
<1>b. UNCHANGED blk => DirtyIsMarked'
  BY DEF DirtyIsMarked, Dirty
<1>1. ASSUME NEW pc, NEW a, NEW len, NEW again,
             XferCached(pc, a, len, again) \/ XferDirect(pc, a, len, again)
      PROVE  DirtyIsMarked'
  BY <1>1, <1>b DEF XferCached, XferDirect, cache
<1>2. CASE PeekCached \/ XferBytesDone \/ WritebackDone \/ DirectRead \/ SetRemoteCache
           \/ AllocNull \/ RemoteResume \/ UNCHANGED vars
  BY <1>2, <1>b DEF PeekCached, XferBytesDone, WritebackDone, DirectRead, SetRemoteCache,
                    AllocNull, RemoteResume, cache, vars
<1>3. ASSUME NEW v, DirectWrite(v)
      PROVE  DirtyIsMarked'
  BY <1>3, <1>b DEF DirectWrite, cache
<1>4. CASE PeekRefill
  <2> DEFINE b == dcache_hit(op.at[1])
  <2>1. b \in Block
    BY <1>4, HitFacts DEF PeekRefill
  <2> HIDE DEF b
  <2>2. ASSUME NEW w \in dcache_write_line(mem, blk[b]), FillLine(b, op.at[1], w.db, w.mem)
        PROVE  DirtyIsMarked'
    <3>1. w.mem \in Memory /\ w.db \in DcacheBlock /\ Marked(w.db)
      BY <2>1, WriteMarked
    <3> QED BY <1>a, <2>1, <2>2, <3>1, BlockMarked
  <2>3. ASSUME NEW w \in WriteLineQuits(mem, blk[b]), blk' = [blk EXCEPT ![b] = w.db]
        PROVE  DirtyIsMarked'
    BY <2>1, <2>3, WriteMarked
  <2> QED BY <1>4, <2>2, <2>3 DEF PeekRefill, b
<1>5. CASE PeekMiss
  <2>1. PICK n \in dcache_alloc : FillLine(n.b, op.at[1], n.db, n.mem)
    BY <1>5 DEF PeekMiss
  <2>2. n.b \in Block /\ n.mem \in Memory /\ n.db \in DcacheBlock /\ Marked(n.db)
    BY AllocFacts DEF Marked
  <2> QED BY <1>a, <2>1, <2>2, BlockMarked
<1>6. CASE EvictQuits
  <2>1. PICK w \in WriteLineQuits(mem, blk[Head(valid)]) :
          blk' = [blk EXCEPT ![Head(valid)] = w.db]
    BY <1>6 DEF EvictQuits
  <2>2. Head(valid) \in Block
    BY <1>6 DEF EvictQuits, TypeOK
  <2> QED BY <2>1, <2>2, WriteMarked
<1>7. ASSUME NEW v \in Byte, PokeHit(v)
      PROVE  DirtyIsMarked'
  BY <1>7, HitFacts, BlockMarked DEF PokeHit
<1>8. ASSUME NEW v \in Byte, PokeMiss(v)
      PROVE  DirtyIsMarked'
  <2>1. PICK n \in dcache_alloc :
          PokeInto(n.b, [n.db EXCEPT !.addr = op.at[1],
                                     !.state = [o \in Offset |-> "BAD"]], v)
    BY <1>8 DEF PokeMiss
  <2>2. n.b \in Block /\ n.db \in DcacheBlock
    BY AllocFacts
  <2>3. [n.db EXCEPT !.addr = op.at[1], !.state = [o \in Offset |-> "BAD"]] \in DcacheBlock
    BY <2>2, <1>a DEF DcacheBlock, EntryState
  <2> QED BY <2>1, <2>2, <2>3, BlockMarked
<1>9. CASE WritebackLine
  <2> DEFINE b == valid[op.wb]
  <2>1. b \in Block
    BY <1>9, <1>a DEF WritebackLine, TypeOK
  <2> HIDE DEF b
  <2>2. PICK w \in dcache_write_line(mem, blk[b]) \cup WriteLineQuits(mem, blk[b]) :
          blk' = [blk EXCEPT ![b] = w.db]
    BY <1>9 DEF WritebackLine, b
  <2> QED BY <2>1, <2>2, WriteMarked
<1>10. CASE RemoteOpen
  BY <1>10, ZeroBlockType DEF RemoteOpen, DirtyIsMarked, Dirty
<1> QED
  BY <1>1, <1>2, <1>3, <1>4, <1>5, <1>6, <1>7, <1>8, <1>9, <1>10 DEF Next, Start

-----------------------------------------------------------------------------
(* The structural invariants: two whatever fails, and the third unless     *)
(* there is a quit.                                                        *)

UnlessQuit == ~Quits => OneBlockPerLine

StructInv == TypeInv /\ ListsDisjoint /\ UnlessQuit /\ DirtyIsMarked

LEMMA InitStructure == Init => StructInv
<1> SUFFICES ASSUME Init PROVE StructInv
  OBVIOUS
<1>1. ListsDisjoint /\ UnlessQuit
  BY DEF Init, FreshList, ListsDisjoint, OneBlockPerLine, UnlessQuit
<1>2. DirtyIsMarked
  BY ZeroBlockType DEF Init, DirtyIsMarked
<1> QED BY <1>1, <1>2, InitType DEF StructInv

LEMMA StepStructInv == StructInv /\ [Next]_vars => StructInv'
BY StepType, StepStructure, StepMarked DEF StructInv, UnlessQuit, Left

\* Through every eviction, flush, failed and abandoned transfer, a block is on
\* at most one list and only once (dcache_alloc, dcache_flush).
THEOREM ListsStayDisjoint == Spec => []ListsDisjoint
<1>1. StructInv => ListsDisjoint
  BY DEF StructInv
<1> QED BY <1>1, InitStructure, StepStructInv, PTL DEF Spec

\* Between two calls no step takes a block.
LEMMA StepIdle ==
  ASSUME Idle, [Next]_vars
  PROVE  KeepStep \/ FlushStep
<1> USE DEF Idle, KeepStep, FlushStep, LinesKept
<1>1. CASE Start
  <2>1. ASSUME NEW pc, NEW a, NEW len, NEW again, XferCached(pc, a, len, again)
        PROVE  KeepStep
    BY <2>1 DEF XferCached, cache
  <2>2. ASSUME NEW pc, NEW a, NEW len, NEW again, XferDirect(pc, a, len, again)
        PROVE  KeepStep \/ FlushStep
    BY <2>2 DEF XferDirect, cache, dcache_flush
  <2> QED BY <1>1, <2>1, <2>2 DEF Start
<1>2. CASE SetRemoteCache \/ RemoteResume \/ RemoteOpen \/ UNCHANGED vars
  BY <1>2 DEF SetRemoteCache, RemoteResume, RemoteOpen, dcache_flush, vars, cache
<1>3. Start \/ SetRemoteCache \/ RemoteResume \/ RemoteOpen \/ UNCHANGED vars
  BY DEF Next, PeekCached, PeekRefill, PeekMiss, EvictQuits, AllocNull, PokeHit, PokeMiss,
         XferBytesDone, WritebackLine, WritebackDone, DirectRead, DirectWrite
<1> QED BY <1>1, <1>2, <1>3

\* dcache_hit gets no second block to choose from for a line that has one, however reads
\* and writes fail, unless a quit leaves dcache_peek_byte before it has given the block its
\* address (dcache.c:340).
THEOREM LinesStayUnique == Spec => OnlyQuitsDuplicate
<1>1. StructInv /\ StructInv' /\ [Next]_vars => [OneBlockPerLine /\ ~LeavesCall => OneBlockPerLine']_vars
  <2> SUFFICES ASSUME StructInv, StructInv', [Next]_vars, OneBlockPerLine, ~LeavesCall
               PROVE  OneBlockPerLine'
    OBVIOUS
  <2>1. CASE ~Left
    BY <2>1, StepStructure DEF StructInv
  <2>2. CASE Left
    <3>1. KeepStep \/ FlushStep
      BY <2>2, StepIdle DEF Left, LeavesCall
    <3>2. FlushStep => DOMAIN valid' = {}
      BY DEF FlushStep
    <3>3. KeepStep => \A i \in DOMAIN valid : blk'[valid[i]].addr = blk[valid[i]].addr
      BY DEF KeepStep, LinesKept, StructInv, TypeInv, TypeOK
    <3> QED BY <3>1, <3>2, <3>3 DEF KeepStep, OneBlockPerLine
  <2> QED BY <2>1, <2>2
<1> QED BY <1>1, InitStructure, StepStructInv, PTL DEF Spec, OnlyQuitsDuplicate

\* dcache_write_line's shortcut on anydirty never skips a dirty byte, not even
\* after a write-back that stopped half way.
THEOREM DirtyStaysMarked == Spec => []DirtyIsMarked
<1>1. StructInv => DirtyIsMarked
  BY DEF StructInv
<1> QED BY <1>1, InitStructure, StepStructInv, PTL DEF Spec

-----------------------------------------------------------------------------
(* Coherence: ENTRY_OK means what dcache.c:64 says, as long as a line fill *)
(* is never cut short.  Writes may fail.  A transfer that goes around the  *)
(* cache finds it empty, because cache_has_stuff was set when it was       *)
(* filled; that is what the two invariants below add to the induction.     *)

Coherent(d, m) == \A o \in Offset : d.state[o] = "OK" => d.data[o] = m[d.addr][o]

\* A direct transfer runs with an empty cache.
DirectEmpty == op.pc \in {"read", "write"} => valid = << >>

\* Once the byte loop is over, a filled cache is noted.
FilledIsNoted == op.pc \in {"idle", "writeback"} /\ valid # << >> => cache_has_stuff

CoherenceInv == StructInv /\ OkIsMemory /\ DirectEmpty /\ FilledIsNoted

LEMMA WriteCoherent ==
  ASSUME NEW m \in Memory, NEW d \in DcacheBlock,
         NEW w \in dcache_write_line(m, d) \cup WriteLineQuits(m, d)
  PROVE  /\ \A l \in Line : l # d.addr => w.mem[l] = m[l]
         /\ Coherent(d, m) => Coherent(w.db, w.mem)
<1>1. ASSUME NEW S \in SUBSET Offset
      PROVE  /\ \A l \in Line : l # d.addr => StoreBytes(m, d, S)[l] = m[l]
             /\ \A o \in S : StoreBytes(m, d, S)[d.addr][o] = d.data[o]
             /\ \A o \in Offset \ S : StoreBytes(m, d, S)[d.addr][o] = m[d.addr][o]
  BY <1>1 DEF StoreBytes, Memory, DcacheBlock
<1>2. Dirty(d) \in SUBSET Offset /\ \A o \in Offset : d.state[o] = "OK" => o \notin Dirty(d)
  BY DEF Dirty
<1>3. CASE w = [mem |-> m, db |-> d, ok |-> TRUE]
  BY <1>3
<1>4. CASE w = WriteAll(m, d)
  <2>1. /\ w.mem = StoreBytes(m, d, Dirty(d))
        /\ w.db = [d EXCEPT !.state = SetClean(d, Dirty(d)), !.anydirty = FALSE]
    BY <1>4 DEF WriteAll
  <2>2. w.db.addr = d.addr /\ w.db.data = d.data /\ w.db.state = SetClean(d, Dirty(d))
    BY <2>1 DEF DcacheBlock
  <2>3. \A o \in Offset : w.db.state[o] = "OK" => o \in Dirty(d) \/ d.state[o] = "OK"
    BY <2>2 DEF SetClean
  <2>4. Coherent(d, m) => Coherent(w.db, w.mem)
    BY <1>1, <1>2, <2>1, <2>2, <2>3 DEF Coherent
  <2> QED BY <1>1, <1>2, <2>1, <2>4
<1>5. ASSUME NEW c \in Dirty(d), w = WriteSome(m, d, c)
      PROVE  /\ \A l \in Line : l # d.addr => w.mem[l] = m[l]
             /\ Coherent(d, m) => Coherent(w.db, w.mem)
  <2> DEFINE sent == {o \in Dirty(d) : o < c}
             closed == {o \in sent : \E e \in Offset : o < e /\ e < c /\ e \notin Dirty(d)}
  <2>1. /\ w.mem = StoreBytes(m, d, sent)
        /\ w.db = [d EXCEPT !.state = SetClean(d, closed)]
    BY <1>5 DEF WriteSome
  <2>2. sent \in SUBSET Offset /\ closed \in SUBSET sent /\ sent \in SUBSET Dirty(d)
    BY <1>2
  <2> HIDE DEF sent, closed
  <2>3. w.db.addr = d.addr /\ w.db.data = d.data /\ w.db.state = SetClean(d, closed)
    BY <2>1 DEF DcacheBlock
  <2>4. \A o \in Offset : w.db.state[o] = "OK" => o \in sent \/ d.state[o] = "OK"
    BY <2>2, <2>3 DEF SetClean
  <2>5. Coherent(d, m) => Coherent(w.db, w.mem)
    BY <1>1, <1>2, <2>1, <2>2, <2>3, <2>4 DEF Coherent
  <2> QED BY <1>1, <2>1, <2>2, <2>5
<1>6. \/ w = [mem |-> m, db |-> d, ok |-> TRUE]
      \/ w = WriteAll(m, d)
      \/ \E c \in Dirty(d) : w = WriteSome(m, d, c)
  BY DEF dcache_write_line, WriteLineQuits
<1> QED BY <1>3, <1>4, <1>5, <1>6

\* A change of one valid block and of its own line in memory leaves the rest
\* coherent, because no other valid block holds the line.
LEMMA OthersCoherent ==
  ASSUME StructInv, ~Quits, OkIsMemory, NEW k \in DOMAIN valid, NEW m \in Memory,
         \A l \in Line : l # blk[valid[k]].addr => m[l] = mem[l]
  PROVE  \A i \in DOMAIN valid : i # k => Coherent(blk[valid[i]], m)
<1> SUFFICES ASSUME NEW i \in DOMAIN valid, i # k
             PROVE  Coherent(blk[valid[i]], m)
  OBVIOUS
<1>1. blk[valid[i]] \in DcacheBlock /\ blk[valid[i]].addr \in Line
  BY DEF StructInv, TypeInv, TypeOK, DcacheBlock
<1>2. m[blk[valid[i]].addr] = mem[blk[valid[i]].addr]
  BY <1>1 DEF StructInv, UnlessQuit, OneBlockPerLine
<1> QED BY <1>2 DEF OkIsMemory, Coherent

\* What dcache_alloc leaves on the valid list before its last block is coherent
\* with the memory it leaves.
LEMMA AllocCoherent ==
  ASSUME StructInv, ~Quits, OkIsMemory, NEW n \in dcache_alloc
  PROVE  \A i \in 1..(Len(n.valid) - 1) : Coherent(blk[n.valid[i]], n.mem)
<1> USE DEF StructInv, TypeInv, TypeOK
<1>1. CASE free # << >>
  <2>1. n.mem = mem /\ n.valid = Append(valid, Head(free)) /\ Head(free) \in Block
    BY <1>1 DEF dcache_alloc
  <2>2. \A i \in 1..(Len(n.valid) - 1) : i \in DOMAIN valid /\ n.valid[i] = valid[i]
    BY <2>1
  <2> QED BY <2>1, <2>2 DEF OkIsMemory, Coherent
<1>2. CASE free = << >>
  <2>1. valid # << >>
    BY <1>2 DEF dcache_alloc
  <2>2. PICK w \in dcache_write_line(mem, blk[Head(valid)]) :
          n.mem = w.mem /\ n.valid = Append(Tail(valid), Head(valid))
    BY <1>2, <2>1 DEF dcache_alloc
  <2>3. 1 \in DOMAIN valid /\ Head(valid) = valid[1] /\ blk[valid[1]] \in DcacheBlock
    BY <2>1
  <2>4. w.mem \in Memory /\ \A l \in Line : l # blk[valid[1]].addr => w.mem[l] = mem[l]
    BY <2>2, <2>3, WriteLineFacts, WriteCoherent
  <2>5. \A i \in DOMAIN valid : i # 1 => Coherent(blk[valid[i]], w.mem)
    BY <2>3, <2>4, OthersCoherent
  <2>6. ASSUME NEW i \in 1..(Len(n.valid) - 1)
        PROVE  i + 1 \in DOMAIN valid /\ i + 1 # 1 /\ n.valid[i] = valid[i + 1]
    BY <2>1, <2>2, <2>3
  <2> QED BY <2>2, <2>5, <2>6
<1> QED BY <1>1, <1>2

\* A block is taken for a line and everything else stays: coherent if the new
\* block is.
LEMMA AllocStepCoherent ==
  ASSUME StructInv, ~Quits, OkIsMemory, NEW n \in dcache_alloc,
         valid' = n.valid, mem' = n.mem,
         \A b \in Block : b # n.b => blk'[b] = blk[b],
         Coherent(blk'[n.b], mem')
  PROVE  OkIsMemory'
<1>1. /\ Len(n.valid) \in Nat \ {0} /\ n.valid[Len(n.valid)] = n.b
      /\ \A i \in 1..(Len(n.valid) - 1) : n.valid[i] # n.b
  BY AllocLists DEF StructInv, TypeInv
<1>2. n.valid \in Seq(Block)
  BY AllocFacts DEF StructInv, TypeInv
<1>3. ASSUME NEW i \in DOMAIN valid'
      PROVE  Coherent(blk'[valid'[i]], mem')
  <2>1. n.valid[i] \in Block /\ (i = Len(n.valid) \/ i \in 1..(Len(n.valid) - 1))
    BY <1>1, <1>2
  <2>2. CASE i = Len(n.valid)
    BY <1>1, <2>2
  <2>3. CASE i \in 1..(Len(n.valid) - 1)
    <3>1. blk'[n.valid[i]] = blk[n.valid[i]]
      BY <1>1, <2>1, <2>3
    <3> QED BY <2>3, <3>1, AllocCoherent
  <2> QED BY <2>1, <2>2, <2>3
<1> QED BY <1>3 DEF OkIsMemory, Coherent

LEMMA StepCoherent ==
  ASSUME CoherenceInv, ~ReadErrors, ~Quits, [Next]_vars
  PROVE  OkIsMemory'
<1> USE DEF CoherenceInv, StructInv, TypeInv
<1>a. op.at \in Addr /\ op.at[1] \in Line /\ op.at[2] \in Offset
      /\ op.left \in Nat /\ op.wb \in Nat \ {0}
  BY DEF TypeOK, Call, Addr
<1>b. UNCHANGED <<mem, blk, valid>> => OkIsMemory'
  BY DEF OkIsMemory
<1>c. valid' = << >> => OkIsMemory'
  BY DEF OkIsMemory
<1>d. ASSUME NEW k \in DOMAIN valid, UNCHANGED valid, mem' \in Memory,
             \A l \in Line : l # blk[valid[k]].addr => mem'[l] = mem[l],
             \A b \in Block : b # valid[k] => blk'[b] = blk[b],
             Coherent(blk'[valid[k]], mem')
      PROVE  OkIsMemory'
  <2>1. \A i \in DOMAIN valid : i # k => Coherent(blk[valid[i]], mem')
    BY <1>d, OthersCoherent
  <2>2. \A i \in DOMAIN valid : i # k => blk'[valid[i]] = blk[valid[i]]
    BY <1>d DEF ListsDisjoint, TypeOK
  <2> QED BY <1>d, <2>1, <2>2 DEF OkIsMemory, Coherent
<1>e. ASSUME NEW b \in Block, NEW l \in Line, NEW d, NEW m \in Memory, FillLine(b, l, d, m)
      PROVE  /\ mem' = m
             /\ Coherent(blk'[b], mem')
             /\ \A c \in Block : c # b => blk'[c] = blk[c]
  <2>1. mem' = m /\ FillOk(b, l, d, m)
    BY <1>e DEF FillLine, FillFails
  <2>2. /\ blk'[b] = [addr |-> l, data |-> m[l], state |-> [o \in Offset |-> "OK"],
                      anydirty |-> FALSE]
        /\ \A c \in Block : c # b => blk'[c] = blk[c]
    BY <2>1 DEF FillOk, TypeOK
  <2> QED BY <2>1, <2>2 DEF Coherent
<1>1. ASSUME NEW pc, NEW a, NEW len, NEW again,
             XferCached(pc, a, len, again) \/ XferDirect(pc, a, len, again)
      PROVE  OkIsMemory'
  BY <1>1, <1>b, <1>c DEF XferCached, XferDirect, cache, dcache_flush
<1>2. CASE PeekCached \/ XferBytesDone \/ WritebackDone \/ DirectRead \/ SetRemoteCache
           \/ AllocNull \/ UNCHANGED vars
  BY <1>2, <1>b DEF PeekCached, XferBytesDone, WritebackDone, DirectRead, SetRemoteCache,
                    AllocNull, cache, vars
<1>3. ASSUME NEW v, DirectWrite(v)
      PROVE  OkIsMemory'
  BY <1>3, <1>c DEF DirectWrite, cache, DirectEmpty
<1>4. CASE PeekRefill
  <2> DEFINE b == dcache_hit(op.at[1])
  <2>1. b \in Block /\ blk[b] \in DcacheBlock /\ blk[b].addr = op.at[1]
    BY <1>4, HitFacts DEF PeekRefill
  <2>2. PICK k \in DOMAIN valid : b = valid[k]
    BY <1>4, HitFacts DEF PeekRefill
  <2> HIDE DEF b
  <2>3. PICK w \in dcache_write_line(mem, blk[b]) : FillLine(b, op.at[1], w.db, w.mem)
    BY <1>4 DEF PeekRefill, b, WriteLineQuits
  <2>4. w.mem \in Memory /\ \A l \in Line : l # blk[b].addr => w.mem[l] = mem[l]
    BY <2>1, WriteLineFacts, WriteCoherent DEF TypeOK
  <2>5. mem' = w.mem /\ Coherent(blk'[b], mem') /\ \A c \in Block : c # b => blk'[c] = blk[c]
    BY <1>a, <1>e, <2>1, <2>3, <2>4
  <2>6. UNCHANGED valid
    BY <1>4 DEF PeekRefill
  <2> QED BY <1>d, <2>2, <2>4, <2>5, <2>6
<1>5. CASE PeekMiss
  <2>1. PICK n \in dcache_alloc :
          valid' = n.valid /\ FillLine(n.b, op.at[1], n.db, n.mem)
    BY <1>5 DEF PeekMiss
  <2>2. n.b \in Block /\ n.mem \in Memory
    BY AllocFacts
  <2>3. /\ mem' = n.mem /\ Coherent(blk'[n.b], mem')
        /\ \A c \in Block : c # n.b => blk'[c] = blk[c]
    BY <1>a, <1>e, <2>1, <2>2
  <2> QED BY <2>1, <2>3, AllocStepCoherent
<1>6. CASE EvictQuits
  BY <1>6 DEF EvictQuits, WriteLineQuits
<1>7. ASSUME NEW v \in Byte, PokeHit(v)
      PROVE  OkIsMemory'
  <2> DEFINE b == dcache_hit(op.at[1])
  <2>1. b \in Block /\ blk[b] \in DcacheBlock
    BY <1>7, HitFacts DEF PokeHit
  <2>2. PICK k \in DOMAIN valid : b = valid[k]
    BY <1>7, HitFacts DEF PokeHit
  <2> HIDE DEF b
  <2>3. /\ UNCHANGED <<mem, valid>>
        /\ blk' = [blk EXCEPT ![b] = [addr |-> blk[b].addr,
                                data |-> [blk[b].data EXCEPT ![op.at[2]] = v],
                                state |-> [blk[b].state EXCEPT ![op.at[2]] = "DIRTY"],
                                anydirty |-> TRUE]]
    BY <1>7 DEF PokeHit, PokeInto, b
  <2>4. /\ blk'[b].addr = blk[b].addr
        /\ blk'[b].data = [blk[b].data EXCEPT ![op.at[2]] = v]
        /\ blk'[b].state = [blk[b].state EXCEPT ![op.at[2]] = "DIRTY"]
        /\ \A c \in Block : c # b => blk'[c] = blk[c]
    BY <2>1, <2>3 DEF TypeOK
  <2>5. Coherent(blk[b], mem)
    BY <2>2 DEF OkIsMemory, Coherent
  <2>6. Coherent(blk'[b], mem)
    BY <2>1, <2>4, <2>5, <1>a DEF Coherent, DcacheBlock
  <2> QED BY <1>d, <2>2, <2>3, <2>4, <2>6 DEF TypeOK
<1>8. ASSUME NEW v \in Byte, PokeMiss(v)
      PROVE  OkIsMemory'
  <2>1. PICK n \in dcache_alloc :
          /\ mem' = n.mem /\ valid' = n.valid
          /\ PokeInto(n.b, [n.db EXCEPT !.addr = op.at[1],
                                        !.state = [o \in Offset |-> "BAD"]], v)
    BY <1>8 DEF PokeMiss
  <2>2. n.b \in Block /\ n.db \in DcacheBlock
    BY AllocFacts
  <2> DEFINE d == [n.db EXCEPT !.addr = op.at[1], !.state = [o \in Offset |-> "BAD"]]
  <2>3. d.state = [o \in Offset |-> "BAD"]
    BY <2>2 DEF DcacheBlock
  <2>4. PokeInto(n.b, d, v)
    BY <2>1
  <2> HIDE DEF d
  <2>5. /\ blk'[n.b].state = [d.state EXCEPT ![op.at[2]] = "DIRTY"]
        /\ \A c \in Block : c # n.b => blk'[c] = blk[c]
    BY <2>2, <2>4 DEF PokeInto, TypeOK
  <2>6. Coherent(blk'[n.b], mem')
    BY <2>3, <2>5, <1>a DEF Coherent
  <2> QED BY <2>1, <2>5, <2>6, AllocStepCoherent
<1>9. CASE WritebackLine
  <2> DEFINE b == valid[op.wb]
  <2>1. b \in Block /\ blk[b] \in DcacheBlock /\ op.wb \in DOMAIN valid
    BY <1>9, <1>a DEF WritebackLine, TypeOK
  <2>2. PICK w \in dcache_write_line(mem, blk[b]) \cup WriteLineQuits(mem, blk[b]) :
          mem' = w.mem /\ blk' = [blk EXCEPT ![b] = w.db]
    BY <1>9 DEF WritebackLine
  <2>3. /\ w.mem \in Memory
        /\ \A l \in Line : l # blk[b].addr => w.mem[l] = mem[l]
        /\ Coherent(blk[b], mem) => Coherent(w.db, w.mem)
    BY <2>1, WriteLineFacts, WriteCoherent DEF TypeOK
  <2>4. Coherent(blk[b], mem)
    BY <2>1 DEF OkIsMemory, Coherent
  <2>5. UNCHANGED valid /\ blk'[b] = w.db /\ \A c \in Block : c # b => blk'[c] = blk[c]
    BY <1>9, <2>1, <2>2 DEF WritebackLine, TypeOK
  <2> QED BY <1>d, <2>1, <2>2, <2>3, <2>4, <2>5
<1>10. CASE RemoteResume \/ RemoteOpen
  BY <1>10, <1>c DEF RemoteResume, RemoteOpen, dcache_flush
<1> QED
  BY <1>1, <1>2, <1>3, <1>4, <1>5, <1>6, <1>7, <1>8, <1>9, <1>10 DEF Next, Start

\* The two facts about when the cache is empty and when it is noted.
LEMMA StepNoted ==
  ASSUME TypeInv, DirectEmpty, FilledIsNoted, ~ReadErrors, ~Quits, [Next]_vars
  PROVE  DirectEmpty' /\ FilledIsNoted'
<1> USE DEF TypeInv, DirectEmpty, FilledIsNoted
<1>a. op \in Call /\ NoCall.pc = "idle"
  BY NoCallType DEF TypeOK
<1>b. ASSUME NEW r, Return(r)
      PROVE  op'.pc \in {"idle", "writeback"}
  BY <1>a, <1>b DEF Return, Call
<1>c. ByteDone => \/ op.pc \in {"read", "write"} /\ op'.pc \in {"idle", "writeback"}
                  \/ op'.pc = op.pc
  BY <1>a, <1>b DEF ByteDone, Call
<1>1. ASSUME NEW pc \in {"peek", "poke"}, NEW a, NEW len, NEW again,
             XferCached(pc, a, len, again)
      PROVE  DirectEmpty' /\ FilledIsNoted'
  BY <1>1 DEF XferCached
<1>2. ASSUME NEW pc \in {"read", "write"}, NEW a, NEW len, NEW again,
             XferDirect(pc, a, len, again)
      PROVE  DirectEmpty' /\ FilledIsNoted'
  BY <1>2 DEF XferDirect, Idle, dcache_flush, cache
<1>3. ASSUME NEW b, NEW l, NEW d, NEW m, FillLine(b, l, d, m)
      PROVE  ByteDone
  BY <1>3 DEF FillLine, FillOk, FillFails
<1>4. CASE PeekCached
  BY <1>4, <1>c DEF PeekCached
<1>5. CASE PeekRefill
  BY <1>5, <1>c, <1>3 DEF PeekRefill, WriteLineQuits
<1>6. CASE PeekMiss
  BY <1>6, <1>c, <1>3 DEF PeekMiss
<1>7. CASE EvictQuits
  BY <1>7 DEF EvictQuits, WriteLineQuits
<1>8. CASE AllocNull
  BY <1>8, <1>a DEF AllocNull, Call
<1>9. ASSUME NEW v \in Byte, PokeHit(v) \/ PokeMiss(v)
      PROVE  DirectEmpty' /\ FilledIsNoted'
  BY <1>9, <1>c DEF PokeHit, PokeMiss, PokeInto
<1>10. CASE XferBytesDone
  BY <1>10, <1>a DEF XferBytesDone, Call
<1>11. CASE WritebackLine
  <2>1. op'.pc \in {"idle", "writeback"}
    BY <1>11, <1>a, <1>b DEF WritebackLine, WriteLineQuits, Call
  <2> QED BY <1>11, <2>1 DEF WritebackLine
<1>12. CASE WritebackDone
  BY <1>12, <1>b DEF WritebackDone, cache
<1>13. CASE DirectRead
  BY <1>13, <1>c DEF DirectRead, cache
<1>14. ASSUME NEW v \in Byte, DirectWrite(v)
       PROVE  DirectEmpty' /\ FilledIsNoted'
  BY <1>14, <1>b, <1>c DEF DirectWrite, cache
<1>15. CASE SetRemoteCache \/ RemoteResume \/ RemoteOpen
  BY <1>15 DEF SetRemoteCache, RemoteResume, RemoteOpen, dcache_flush, cache, Idle
<1>16. CASE UNCHANGED vars
  BY <1>16 DEF vars
<1> QED
  BY <1>1, <1>2, <1>4, <1>5, <1>6, <1>7, <1>8, <1>9, <1>10, <1>11, <1>12,
     <1>13, <1>14, <1>15, <1>16 DEF Next, Start

\* dcache.c:64 holds for every cache geometry, although writes may fail half
\* way, as long as no line fill is cut short by an error or a quit.
THEOREM CacheIsCoherent ==
  ASSUME ~ReadErrors, ~Quits
  PROVE  Spec => []OkIsMemory
<1>1. Init => CoherenceInv
  <2> SUFFICES ASSUME Init PROVE CoherenceInv
    OBVIOUS
  <2>1. valid = << >> /\ op.pc = "idle"
    BY NoCallType DEF Init
  <2> QED BY <2>1, InitStructure
       DEF CoherenceInv, OkIsMemory, DirectEmpty, FilledIsNoted
<1>2. CoherenceInv /\ [Next]_vars => CoherenceInv'
  BY StepStructInv, StepCoherent, StepNoted DEF CoherenceInv, StructInv
<1>3. CoherenceInv => OkIsMemory
  BY DEF CoherenceInv
<1> QED BY <1>1, <1>2, <1>3, PTL DEF Spec

\* While reads neither fail nor are quit, what the cache holds between two
\* transfers is noted in cache_has_stuff (dcache.c:145-148).
THEOREM FilledCacheIsNoted ==
  ASSUME ~ReadErrors, ~Quits
  PROVE  Spec => []StuffIsNoted
<1> DEFINE I == TypeInv /\ DirectEmpty /\ FilledIsNoted
<1>1. Init => I
  BY InitType, NoCallType DEF Init, DirectEmpty, FilledIsNoted
<1>2. I /\ [Next]_vars => I'
  BY StepType, StepNoted
<1>3. I => StuffIsNoted
  BY DEF FilledIsNoted, StuffIsNoted, Idle
<1> HIDE DEF I
<1> QED BY <1>1, <1>2, <1>3, PTL DEF Spec

-----------------------------------------------------------------------------
(* What the cache promises its caller: no block is lost, a transfer that   *)
(* reports success has stored its bytes, and, while the target answers,    *)
(* the cache is invisible (the refinement of TargetMemory).                *)

OnValid(b) == \E i \in DOMAIN valid : valid[i] = b
OnFree(b) == \E i \in DOMAIN free : free[i] = b

-----------------------------------------------------------------------------
(* No block is lost.                                                       *)

\* dcache_alloc moves a block from a list to a list.
LEMMA AllocKeepsBlocks ==
  ASSUME TypeOK, NEW n \in dcache_alloc, NEW b \in Block, OnValid(b) \/ OnFree(b)
  PROVE  \/ \E i \in DOMAIN n.valid : n.valid[i] = b
         \/ \E i \in DOMAIN n.free : n.free[i] = b
<1> USE DEF TypeOK
<1>1. CASE free # << >>
  <2>1. n.valid = Append(valid, Head(free)) /\ n.free = Tail(free)
    BY <1>1 DEF dcache_alloc
  <2>2. Head(free) = free[1] /\ Len(free) \in Nat \ {0} /\ Head(free) \in Block
    BY <1>1
  <2>3. ASSUME NEW i \in DOMAIN valid, valid[i] = b
        PROVE  \E j \in DOMAIN n.valid : n.valid[j] = b
    <3>1. i \in DOMAIN n.valid /\ n.valid[i] = valid[i]
      BY <2>1, <2>2
    <3> QED BY <2>3, <3>1
  <2>4. ASSUME NEW i \in DOMAIN free, free[i] = b, i = 1
        PROVE  \E j \in DOMAIN n.valid : n.valid[j] = b
    <3>1. Len(valid) + 1 \in DOMAIN n.valid /\ n.valid[Len(valid) + 1] = Head(free)
      BY <2>1, <2>2
    <3> QED BY <2>2, <2>4, <3>1
  <2>5. ASSUME NEW i \in DOMAIN free, free[i] = b, i # 1
        PROVE  \E j \in DOMAIN n.free : n.free[j] = b
    <3>1. i - 1 \in DOMAIN n.free /\ n.free[i - 1] = free[i]
      BY <2>1, <2>2, <2>5
    <3> QED BY <2>5, <3>1
  <2> QED BY <2>3, <2>4, <2>5 DEF OnValid, OnFree
<1>2. CASE free = << >>
  <2>1. valid # << >>
    BY <1>2 DEF dcache_alloc
  <2>2. n.valid = Append(Tail(valid), Head(valid))
    BY <1>2, <2>1 DEF dcache_alloc
  <2>3. Head(valid) = valid[1] /\ Len(valid) \in Nat \ {0} /\ Head(valid) \in Block
    BY <2>1
  <2>4. PICK i \in DOMAIN valid : valid[i] = b
    BY <1>2 DEF OnValid, OnFree
  <2>5. CASE i = 1
    <3>1. Len(valid) \in DOMAIN n.valid /\ n.valid[Len(valid)] = Head(valid)
      BY <2>2, <2>3
    <3> QED BY <2>3, <2>4, <2>5, <3>1
  <2>6. CASE i # 1
    <3>1. i - 1 \in DOMAIN n.valid /\ n.valid[i - 1] = valid[i]
      BY <2>2, <2>3, <2>4, <2>6
    <3> QED BY <2>4, <3>1
  <2> QED BY <2>5, <2>6
<1> QED BY <1>1, <1>2

LEMMA StepKeepsBlocks ==
  ASSUME TypeInv, NoBlockLost, ~Left, [Next]_vars
  PROVE  NoBlockLost'
<1>1. CASE KeepStep
  BY <1>1 DEF KeepStep, NoBlockLost
<1>2. CASE FlushStep
  <2>1. \A b \in Block : b \in DOMAIN free' /\ free'[b] = b
    BY <1>2 DEF FlushStep, FreshList, Block
  <2> QED BY <2>1 DEF NoBlockLost
<1>3. CASE AllocStep
  <2>1. PICK n \in dcache_alloc : valid' = n.valid /\ free' = n.free
    BY <1>3 DEF AllocStep
  <2>2. \A b \in Block : OnValid(b) \/ OnFree(b)
    BY DEF NoBlockLost, OnValid, OnFree
  <2> QED BY <2>1, <2>2, AllocKeepsBlocks DEF NoBlockLost, TypeInv
<1> QED BY <1>1, <1>2, <1>3, StepShape DEF LoseStep

\* dcache_alloc does not lose a block between its two lists, although reads and writes may
\* fail, unless it is left through a quit.
THEOREM BlocksStayListed == Spec => OnlyQuitsLose
<1>1. TypeInv /\ [Next]_vars => [NoBlockLost /\ ~LeavesCall => NoBlockLost']_vars
  <2> SUFFICES ASSUME TypeInv, [Next]_vars, NoBlockLost, ~LeavesCall
               PROVE  NoBlockLost'
    OBVIOUS
  <2>1. CASE ~Left
    BY <2>1, StepKeepsBlocks
  <2>2. CASE Left
    <3>1. KeepStep \/ FlushStep
      BY <2>2, StepIdle DEF Left, LeavesCall
    <3>2. FlushStep => \A b \in Block : b \in DOMAIN free' /\ free'[b] = b
      BY DEF FlushStep, FreshList, Block
    <3> QED BY <3>1, <3>2 DEF KeepStep, NoBlockLost
  <2> QED BY <2>1, <2>2
<1> QED BY <1>1, InitType, StepType, PTL DEF Spec, OnlyQuitsLose

\* Hence dcache_alloc always has a block to give (dcache.c:300-301): it never
\* follows a null valid_head, which is the only way the model can stop.
THEOREM AllocNeverNull ==
  ASSUME ~Quits
  PROVE  Spec => [](op.pc # "crash")
<1> DEFINE I == TypeInv /\ NoBlockLost /\ op.pc # "crash"
<1>1. Init => I
  <2> SUFFICES ASSUME Init PROVE I
    OBVIOUS
  <2>1. \A b \in Block : b \in DOMAIN free /\ free[b] = b
    BY DEF Init, FreshList, Block
  <2> QED BY <2>1, InitType, NoCallType DEF Init, NoBlockLost
<1>2. I /\ [Next]_vars => I'
  <2> SUFFICES ASSUME I, [Next]_vars PROVE op'.pc # "crash"
    BY StepType, StepKeepsBlocks DEF Left
  <2>a. op \in Call /\ NoCall.pc = "idle"
    BY NoCallType DEF TypeInv, TypeOK
  <2>b. ASSUME NEW r, Return(r)
        PROVE  op'.pc # "crash"
    BY <2>a, <2>b DEF Return, Call
  <2>c. ByteDone \/ QuitToTopLevel => op'.pc # "crash"
    BY <2>a, <2>b DEF ByteDone, QuitToTopLevel, Call
  <2>d. ASSUME NEW b, NEW l, NEW d, NEW m, FillLine(b, l, d, m)
        PROVE  op'.pc # "crash"
    BY <2>b, <2>c, <2>d DEF FillLine, FillOk, FillFails
  <2>1. ~(free = << >> /\ valid = << >>)
    BY SizeAssumption DEF NoBlockLost, Block
  <2>2. ASSUME NEW pc \in {"peek", "poke", "read", "write"}, NEW a, NEW len, NEW again,
               XferCached(pc, a, len, again) \/ XferDirect(pc, a, len, again)
        PROVE  op'.pc # "crash"
    BY <2>2 DEF XferCached, XferDirect
  <2>3. CASE PeekCached \/ PeekRefill \/ PeekMiss \/ EvictQuits
    BY <2>3, <2>c, <2>d DEF PeekCached, PeekRefill, PeekMiss, EvictQuits
  <2>4. ASSUME NEW v, PokeHit(v) \/ PokeMiss(v)
        PROVE  op'.pc # "crash"
    BY <2>4, <2>c DEF PokeHit, PokeMiss, PokeInto
  <2>5. CASE XferBytesDone \/ WritebackLine \/ WritebackDone
    BY <2>5, <2>a, <2>b, <2>c DEF XferBytesDone, WritebackLine, WritebackDone, Call
  <2>6. ASSUME NEW v, DirectRead \/ DirectWrite(v)
        PROVE  op'.pc # "crash"
    BY <2>6, <2>b, <2>c DEF DirectRead, DirectWrite
  <2>7. CASE SetRemoteCache \/ RemoteResume \/ RemoteOpen \/ UNCHANGED vars
    BY <2>7 DEF SetRemoteCache, RemoteResume, RemoteOpen, vars
  <2>8. ~AllocNull
    BY <2>1 DEF AllocNull
  <2> QED BY <2>2, <2>3, <2>4, <2>5, <2>6, <2>7, <2>8 DEF Next, Start
<1> QED BY <1>1, <1>2, PTL DEF Spec

-----------------------------------------------------------------------------
(* Success means stored.  While the target takes every write, a block has  *)
(* dirty bytes only from the byte loop of a write until its turn in the    *)
(* write-back that ends the call.                                          *)

Pending(b) ==
  \E i \in DOMAIN valid :
    /\ valid[i] = b
    /\ \/ op.pc \in {"poke", "crash"}
       \/ op.pc = "writeback" /\ op.wb <= i

DirtyIsPending == \A b \in Block : Dirty(blk[b]) # {} => Pending(b)

StoredInv == StructInv /\ DirtyIsPending

\* dcache_write_line, when no write fails: the dirty bytes are in memory, the
\* block is clean and its data is what it was.
LEMMA WriteStores ==
  ASSUME ~WriteErrors, NEW m \in Memory, NEW d \in DcacheBlock, Marked(d),
         NEW w \in dcache_write_line(m, d)
  PROVE  /\ w.ok
         /\ Dirty(w.db) = {}
         /\ w.mem \in Memory
         /\ w.db \in DcacheBlock
         /\ w.db.addr = d.addr
         /\ \A l \in Line : l # d.addr => w.mem[l] = m[l]
         /\ \A o \in Offset :
              w.mem[d.addr][o] = IF o \in Dirty(d) THEN d.data[o] ELSE m[d.addr][o]
<1>1. /\ w.mem \in Memory /\ w.db \in DcacheBlock /\ w.db.addr = d.addr
      /\ \A l \in Line : l # d.addr => w.mem[l] = m[l]
  BY WriteLineFacts, WriteCoherent
<1>2. CASE ~d.anydirty
  <2>1. Dirty(d) = {}
    BY <1>2 DEF Marked
  <2>2. w = [mem |-> m, db |-> d, ok |-> TRUE]
    BY <1>2 DEF dcache_write_line
  <2> QED BY <1>1, <2>1, <2>2
<1>3. CASE d.anydirty
  <2>1. w = WriteAll(m, d)
    BY <1>3 DEF dcache_write_line
  <2>2. /\ w.mem = StoreBytes(m, d, Dirty(d)) /\ w.ok
        /\ w.db = [d EXCEPT !.state = SetClean(d, Dirty(d)), !.anydirty = FALSE]
    BY <2>1 DEF WriteAll
  <2>3. w.db.state = SetClean(d, Dirty(d))
    BY <2>2 DEF DcacheBlock
  <2>4. Dirty(w.db) = {}
    BY <2>3 DEF Dirty, SetClean
  <2>5. \A o \in Offset :
          w.mem[d.addr][o] = IF o \in Dirty(d) THEN d.data[o] ELSE m[d.addr][o]
    BY <2>2 DEF StoreBytes, Memory, DcacheBlock
  <2> QED BY <1>1, <2>2, <2>4, <2>5
<1> QED BY <1>2, <1>3

\* dcache_alloc seen from the blocks: the block it takes is on the valid list
\* and clean, every other block is on the valid list if it was before, and
\* memory has the dirty bytes of the block, if it was on the list.
LEMMA AllocStores ==
  ASSUME StructInv, DirtyIsPending, ~WriteErrors, NEW n \in dcache_alloc, valid' = n.valid
  PROVE  /\ n.b \in Block /\ n.db \in DcacheBlock /\ n.mem \in Memory
         /\ OnValid(n.b)'
         /\ \A c \in Block : c # n.b => (OnValid(c)' <=> OnValid(c))
         /\ Dirty(n.db) = {}
         /\ ~OnValid(n.b) => n.mem = mem
         /\ OnValid(n.b) =>
              /\ \A l \in Line : l # blk[n.b].addr => n.mem[l] = mem[l]
              /\ \A o \in Offset : n.mem[blk[n.b].addr][o] =
                   IF o \in Dirty(blk[n.b]) THEN blk[n.b].data[o] ELSE mem[blk[n.b].addr][o]
<1> USE DEF StructInv, TypeInv
<1>a. n.b \in Block /\ n.db \in DcacheBlock /\ n.mem \in Memory /\ n.valid \in Seq(Block)
  BY AllocFacts
<1>b. OnValid(n.b)'
  BY <1>a, AllocLists DEF OnValid
<1>1. CASE free # << >>
  <2>1. /\ n.valid = Append(valid, Head(free)) /\ n.b = Head(free)
        /\ n.mem = mem /\ n.db = blk[n.b]
    BY <1>1 DEF dcache_alloc
  <2>2. Head(free) = free[1] /\ 1 \in DOMAIN free /\ Head(free) \in Block
    BY <1>1 DEF TypeOK
  <2>3. ~OnValid(n.b)
    BY <2>1, <2>2 DEF OnValid, ListsDisjoint
  <2>4. Dirty(n.db) = {}
    BY <1>a, <2>1, <2>3 DEF DirtyIsPending, Pending, OnValid
  <2>5. ASSUME NEW c \in Block, c # n.b
        PROVE  OnValid(c)' <=> OnValid(c)
    <3>1. /\ DOMAIN n.valid = 1..(Len(valid) + 1) /\ n.valid[Len(valid) + 1] = n.b
          /\ DOMAIN valid = 1..Len(valid) /\ Len(valid) \in Nat
          /\ \A i \in DOMAIN valid : n.valid[i] = valid[i]
      BY <2>1, <2>2 DEF TypeOK
    <3>2. OnValid(c) => OnValid(c)'
      BY <3>1 DEF OnValid
    <3>3. OnValid(c)' => OnValid(c)
      <4>1. ASSUME NEW i \in DOMAIN n.valid, n.valid[i] = c
            PROVE  i \in DOMAIN valid
        BY <2>5, <3>1, <4>1
      <4> QED BY <3>1, <4>1 DEF OnValid
    <3> QED BY <3>2, <3>3
  <2> QED BY <1>a, <1>b, <2>1, <2>3, <2>4, <2>5
<1>2. CASE free = << >>
  <2>1. valid # << >>
    BY <1>2 DEF dcache_alloc
  <2>2. PICK w \in dcache_write_line(mem, blk[Head(valid)]) :
          n = [b |-> Head(valid), free |-> free,
               valid |-> Append(Tail(valid), Head(valid)), mem |-> w.mem, db |-> w.db]
    BY <1>2, <2>1 DEF dcache_alloc
  <2>3. /\ n.b = Head(valid) /\ n.mem = w.mem /\ n.db = w.db
        /\ n.valid = Append(Tail(valid), Head(valid))
    BY <2>2
  <2>4. Head(valid) = valid[1] /\ Len(valid) \in Nat \ {0} /\ Head(valid) \in Block
    BY <2>1 DEF TypeOK
  <2>5. mem \in Memory /\ blk[n.b] \in DcacheBlock /\ Marked(blk[n.b])
        /\ w \in dcache_write_line(mem, blk[n.b])
    BY <1>a, <2>2, <2>3 DEF TypeOK, DirtyIsMarked, Marked
  <2>6. /\ Dirty(w.db) = {}
        /\ \A l \in Line : l # blk[n.b].addr => n.mem[l] = mem[l]
        /\ \A o \in Offset : n.mem[blk[n.b].addr][o] =
               IF o \in Dirty(blk[n.b]) THEN blk[n.b].data[o] ELSE mem[blk[n.b].addr][o]
    <3> DEFINE d == blk[n.b]
    <3>1. mem \in Memory /\ d \in DcacheBlock /\ Marked(d) /\ w \in dcache_write_line(mem, d)
      BY <2>5
    <3> HIDE DEF d
    <3>2. /\ Dirty(w.db) = {}
          /\ \A l \in Line : l # d.addr => w.mem[l] = mem[l]
          /\ \A o \in Offset :
               w.mem[d.addr][o] = IF o \in Dirty(d) THEN d.data[o] ELSE mem[d.addr][o]
      BY <3>1, WriteStores
    <3> QED BY <2>3, <3>2 DEF d
  <2>7. OnValid(n.b)
    <3>1. 1 \in DOMAIN valid
      BY <2>4 DEF TypeOK
    <3> QED BY <2>3, <2>4, <3>1 DEF OnValid
  <2>8. ASSUME NEW c \in Block, c # n.b, OnValid(c)
        PROVE  OnValid(c)'
    <3>1. PICK i \in DOMAIN valid : valid[i] = c
      BY <2>8 DEF OnValid
    <3>2. i # 1
      BY <2>3, <2>4, <2>8, <3>1
    <3>3. i - 1 \in DOMAIN n.valid /\ n.valid[i - 1] = valid[i]
      BY <2>3, <2>4, <3>1, <3>2 DEF TypeOK
    <3> QED BY <3>1, <3>3 DEF OnValid
  <2>9. ASSUME NEW c \in Block, c # n.b, OnValid(c)'
        PROVE  OnValid(c)
    <3>1. PICK i \in DOMAIN n.valid : n.valid[i] = c
      BY <2>9 DEF OnValid
    <3>2. i # Len(valid)
      BY <2>3, <2>4, <2>9, <3>1 DEF TypeOK
    <3>3. i + 1 \in DOMAIN valid /\ n.valid[i] = valid[i + 1]
      BY <2>3, <2>4, <3>1, <3>2 DEF TypeOK
    <3> QED BY <3>1, <3>3 DEF OnValid
  <2> QED BY <1>a, <1>b, <2>3, <2>6, <2>7, <2>8, <2>9
<1> QED BY <1>1, <1>2

\* Outside a write and its write-back nothing is dirty.
LEMMA CleanOutsideWrites ==
  ASSUME DirtyIsPending, op.pc \notin {"poke", "writeback", "crash"}
  PROVE  \A b \in Block : Dirty(blk[b]) = {}
BY DEF DirtyIsPending, Pending

\* Filling a clean block leaves it clean, even if the read fails half way.
LEMMA FillKeepsClean ==
  ASSUME TypeOK, NEW b \in Block, NEW l \in Line, NEW d \in DcacheBlock, NEW m \in Memory,
         Dirty(d) = {}, FillLine(b, l, d, m)
  PROVE  Dirty(blk'[b]) = {} /\ \A c \in Block : c # b => blk'[c] = blk[c]
<1>1. \A c \in Block : c # b => blk'[c] = blk[c]
  BY OneBlockChanges
<1>2. CASE FillOk(b, l, d, m)
  BY <1>1, <1>2 DEF FillOk, Dirty, TypeOK
<1>3. CASE FillFails(b, l, d, m)
  <2>1. PICK a \in {l, d.addr}, k \in 0..LINE_SIZE : FillPart(b, a, d, m, k)
    BY <1>3, FailedFill
  <2>2. blk'[b] = [d EXCEPT !.addr = a,
          !.data = [o \in Offset |-> IF o < k THEN m[a][o] ELSE d.data[o]]]
    BY <2>1 DEF FillPart, TypeOK
  <2>3. blk'[b].state = d.state
    BY <2>2 DEF DcacheBlock
  <2> QED BY <1>1, <2>3 DEF Dirty
<1> QED BY <1>2, <1>3 DEF FillLine

LEMMA StepStored ==
  ASSUME StoredInv, ~WriteErrors, ~Quits, [Next]_vars
  PROVE  DirtyIsPending'
<1> USE DEF StoredInv, StructInv, TypeInv
<1>a. /\ op \in Call /\ op.at[1] \in Line /\ op.at[2] \in Offset
      /\ op.wb \in Nat \ {0} /\ op.left \in Nat
  BY DEF TypeOK, Call, Addr
<1>b. ASSUME op.pc \notin {"poke", "writeback", "crash"},
             \A b \in Block : blk'[b] = blk[b] \/ Dirty(blk'[b]) = {}
      PROVE  DirtyIsPending'
  <2>1. \A b \in Block : Dirty(blk'[b]) = {}
    BY <1>b, CleanOutsideWrites
  <2> QED BY <2>1 DEF DirtyIsPending, Dirty
<1>c. op.pc = "poke" /\ ByteDone => op'.pc = "poke"
  BY <1>a DEF ByteDone, Call
<1>1. ASSUME NEW pc, NEW a, NEW len, NEW again,
             XferCached(pc, a, len, again) \/ XferDirect(pc, a, len, again)
      PROVE  DirtyIsPending'
  BY <1>1, <1>b DEF XferCached, XferDirect, cache, Idle
<1>2. CASE PeekCached \/ DirectRead \/ SetRemoteCache \/ RemoteResume
  BY <1>2, <1>b DEF PeekCached, DirectRead, SetRemoteCache, RemoteResume, cache, Idle
<1>3. ASSUME NEW v, DirectWrite(v)
      PROVE  DirtyIsPending'
  BY <1>3, <1>b DEF DirectWrite, cache
<1>4. CASE RemoteOpen
  <2>1. \A b \in Block : Dirty(blk'[b]) = {}
    BY <1>4, ZeroBlockType DEF RemoteOpen
  <2> QED BY <1>4, <1>b, <2>1 DEF RemoteOpen, Idle
<1>5. CASE PeekRefill
  <2> DEFINE b == dcache_hit(op.at[1])
  <2>1. b \in Block /\ blk[b] \in DcacheBlock /\ op.pc = "peek"
    BY <1>5, HitFacts DEF PeekRefill
  <2> HIDE DEF b
  <2>2. PICK w \in dcache_write_line(mem, blk[b]) : FillLine(b, op.at[1], w.db, w.mem)
    BY <1>5 DEF PeekRefill, b, WriteLineQuits
  <2>3. w.mem \in Memory /\ w.db \in DcacheBlock /\ Dirty(w.db) = {}
    BY <2>1, WriteStores DEF TypeOK, DirtyIsMarked, Marked
  <2>4. Dirty(blk'[b]) = {} /\ \A c \in Block : c # b => blk'[c] = blk[c]
    BY <1>a, <2>1, <2>2, <2>3, FillKeepsClean
  <2> QED BY <1>b, <2>1, <2>4
<1>6. CASE PeekMiss
  <2>1. PICK n \in dcache_alloc :
          valid' = n.valid /\ FillLine(n.b, op.at[1], n.db, n.mem)
    BY <1>6 DEF PeekMiss
  <2>2. n.b \in Block /\ n.mem \in Memory /\ n.db \in DcacheBlock /\ Dirty(n.db) = {}
    BY <2>1, AllocStores
  <2>3. Dirty(blk'[n.b]) = {} /\ \A c \in Block : c # n.b => blk'[c] = blk[c]
    BY <1>a, <2>1, <2>2, FillKeepsClean
  <2> QED BY <1>6, <1>b, <2>2, <2>3 DEF PeekMiss
<1>7. CASE EvictQuits
  BY <1>7 DEF EvictQuits, WriteLineQuits
<1>8. CASE AllocNull
  <2>1. UNCHANGED <<blk, valid>> /\ op'.pc = "crash"
    BY <1>8, <1>a DEF AllocNull, cache, Call
  <2>2. \A b \in Block : Dirty(blk[b]) # {} => \E i \in DOMAIN valid : valid[i] = b
    BY DEF DirtyIsPending, Pending
  <2> QED BY <2>1, <2>2 DEF DirtyIsPending, Pending, Dirty
<1>9. ASSUME NEW v \in Byte, PokeHit(v)
      PROVE  DirtyIsPending'
  <2> DEFINE b == dcache_hit(op.at[1])
  <2>1. b \in Block /\ blk[b] \in DcacheBlock /\ OnValid(b)
    BY <1>9, HitFacts DEF PokeHit, OnValid
  <2>2. PokeInto(b, blk[b], v) /\ UNCHANGED valid /\ op.pc = "poke"
    BY <1>9 DEF PokeHit
  <2> HIDE DEF b
  <2>3. op'.pc = "poke" /\ \A c \in Block : c # b => blk'[c] = blk[c]
    BY <1>c, <2>1, <2>2, OneBlockChanges DEF PokeInto
  <2>4. \A c \in Block : Dirty(blk'[c]) # {} => OnValid(c)
    BY <2>1, <2>3 DEF DirtyIsPending, Pending, OnValid
  <2> QED BY <2>2, <2>3, <2>4 DEF DirtyIsPending, Pending, OnValid, Dirty
<1>10. ASSUME NEW v \in Byte, PokeMiss(v)
       PROVE  DirtyIsPending'
  <2>1. PICK n \in dcache_alloc :
          /\ valid' = n.valid
          /\ PokeInto(n.b, [n.db EXCEPT !.addr = op.at[1],
                                        !.state = [o \in Offset |-> "BAD"]], v)
    BY <1>10 DEF PokeMiss
  <2>2. /\ n.b \in Block /\ n.db \in DcacheBlock /\ OnValid(n.b)'
        /\ \A c \in Block : c # n.b => (OnValid(c)' <=> OnValid(c))
    BY <2>1, AllocStores
  <2>3. op'.pc = "poke" /\ \A c \in Block : c # n.b => blk'[c] = blk[c]
    BY <1>10, <1>c, <2>1, <2>2 DEF PokeMiss, PokeInto, TypeOK
  <2>4. \A c \in Block : Dirty(blk'[c]) # {} => OnValid(c)'
    BY <2>2, <2>3 DEF DirtyIsPending, Pending, OnValid
  <2> QED BY <2>3, <2>4 DEF DirtyIsPending, Pending, OnValid, Dirty
<1>11. CASE XferBytesDone
  <2>1. UNCHANGED <<blk, valid>> /\ op'.pc = "writeback" /\ op'.wb = 1
    BY <1>11, <1>a DEF XferBytesDone, cache, Call
  <2>2. \A b \in Block : Dirty(blk[b]) # {} => \E i \in DOMAIN valid : valid[i] = b /\ 1 <= i
    BY DEF DirtyIsPending, Pending, TypeOK
  <2> QED BY <2>1, <2>2 DEF DirtyIsPending, Pending, Dirty
<1>12. CASE WritebackLine
  <2> DEFINE b == valid[op.wb]
  <2>1. b \in Block /\ blk[b] \in DcacheBlock /\ op.wb \in DOMAIN valid
    BY <1>12, <1>a DEF WritebackLine, TypeOK
  <2>2. PICK w \in dcache_write_line(mem, blk[b]) :
          /\ blk' = [blk EXCEPT ![b] = w.db]
          /\ w.ok => op' = [op EXCEPT !.wb = @ + 1]
    BY <1>12 DEF WritebackLine, WriteLineQuits
  <2> HIDE DEF b
  <2>3. w.ok /\ Dirty(w.db) = {}
    BY <2>1, <2>2, WriteStores DEF TypeOK, DirtyIsMarked, Marked
  <2>4. op'.pc = "writeback" /\ op'.wb = op.wb + 1 /\ UNCHANGED valid /\ op.pc = "writeback"
    BY <1>12, <1>a, <2>2, <2>3 DEF WritebackLine, Call
  <2>5. Dirty(blk'[b]) = {} /\ \A c \in Block : c # b => blk'[c] = blk[c]
    BY <2>1, <2>2, <2>3 DEF TypeOK
  <2>6. ASSUME NEW c \in Block, Dirty(blk'[c]) # {}
        PROVE  \E i \in DOMAIN valid : valid[i] = c /\ op.wb + 1 <= i
    <3>1. c # b /\ Dirty(blk[c]) # {}
      BY <2>5, <2>6
    <3>2. PICK i \in DOMAIN valid : valid[i] = c /\ op.wb <= i
      BY <2>4, <3>1 DEF DirtyIsPending, Pending
    <3>3. i # op.wb
      BY <3>1, <3>2 DEF b
    <3>4. i \in Nat
      BY DEF TypeOK
    <3> QED BY <1>a, <3>2, <3>3, <3>4
  <2> QED BY <2>4, <2>6 DEF DirtyIsPending, Pending, Dirty
<1>13. CASE WritebackDone
  <2>1. \A b \in Block : Dirty(blk[b]) = {}
    <3> SUFFICES ASSUME NEW b \in Block, Dirty(blk[b]) # {}
                 PROVE  FALSE
      OBVIOUS
    <3>1. PICK i \in DOMAIN valid : op.wb <= i
      BY <1>13 DEF WritebackDone, DirtyIsPending, Pending
    <3> QED BY <1>13, <1>a, <3>1 DEF WritebackDone, TypeOK
  <2>2. UNCHANGED blk
    BY <1>13 DEF WritebackDone, cache
  <2> QED BY <2>1, <2>2 DEF DirtyIsPending, Dirty
<1>14. CASE UNCHANGED vars
  BY <1>14 DEF vars, DirtyIsPending, Pending, Dirty
<1> QED
  BY <1>1, <1>2, <1>3, <1>4, <1>5, <1>6, <1>7, <1>8, <1>9, <1>10, <1>11, <1>12,
     <1>13, <1>14 DEF Next, Start

LEMMA InitStored == Init => StoredInv
BY InitStructure, ZeroBlockType DEF Init, StoredInv, DirtyIsPending

LEMMA StepStoredInv ==
  ASSUME ~WriteErrors, ~Quits
  PROVE  StoredInv /\ [Next]_vars => StoredInv'
BY StepStructInv, StepStored DEF StoredInv

\* dcache.c:465 holds while writes succeed and nothing is left through a quit,
\* although reads may fail: a transfer that returned its length has no byte
\* waiting in the cache.
THEOREM SuccessMeansStored ==
  ASSUME ~WriteErrors, ~Quits
  PROVE  Spec => []OkMeansStored
<1>1. StoredInv => OkMeansStored
  <2> SUFFICES ASSUME StoredInv, Idle, NEW i \in DOMAIN valid
               PROVE  Dirty(blk[valid[i]]) = {}
    BY DEF OkMeansStored
  <2>1. valid[i] \in Block
    BY DEF StoredInv, StructInv, TypeInv, TypeOK
  <2> QED BY <2>1, CleanOutsideWrites DEF StoredInv, Idle
<1> QED BY <1>1, InitStored, StepStoredInv, PTL DEF Spec

-----------------------------------------------------------------------------
(* The cache is invisible.  The memory that GDB sees at a line is the      *)
(* dirty bytes of the line's block over the target's memory, and the       *)
(* target's memory where no block holds the line.                          *)

\* What Visible is, block by block.
VisibleIs ==
  /\ Visible \in Memory
  /\ \A b \in Block : OnValid(b) => \A o \in Offset :
       Visible[blk[b].addr][o] = IF o \in Dirty(blk[b]) THEN blk[b].data[o]
                                 ELSE mem[blk[b].addr][o]
  /\ \A l \in Line :
       (\A b \in Block : OnValid(b) => blk[b].addr # l) => Visible[l] = mem[l]

LEMMA VisibleFacts == StructInv /\ ~Quits => VisibleIs
<1> SUFFICES ASSUME StructInv, ~Quits PROVE VisibleIs
  OBVIOUS
<1> USE DEF StructInv, TypeInv
<1>1. ASSUME NEW b \in Block, OnValid(b), NEW o \in Offset
      PROVE  /\ blk[b].addr \in Line
             /\ Visible[blk[b].addr][o] = IF o \in Dirty(blk[b]) THEN blk[b].data[o]
                                          ELSE mem[blk[b].addr][o]
  <2> DEFINE l == blk[b].addr
  <2>1. l \in Line
    BY DEF TypeOK, DcacheBlock
  <2>2. PICK k \in DOMAIN valid : valid[k] = b
    BY <1>1 DEF OnValid
  <2>3. Hits(l) = {k}
    BY <2>2 DEF Hits, UnlessQuit, OneBlockPerLine
  <2>4. dcache_hit(l) = b
    <3>1. k \in Nat
      BY DEF TypeOK
    <3>2. \E i \in Hits(l) : \A j \in Hits(l) : i <= j
      BY <2>3, <3>1
    <3>3. (CHOOSE i \in Hits(l) : \A j \in Hits(l) : i <= j) \in Hits(l)
      BY <3>2
    <3> QED BY <2>2, <2>3, <3>3 DEF dcache_hit
  <2>5. (\E i \in Hits(l) : o \in Dirty(blk[valid[i]])) <=> o \in Dirty(blk[b])
    BY <2>2, <2>3
  <2> QED BY <2>1, <2>4, <2>5 DEF Visible
<1>2. ASSUME NEW l \in Line, \A b \in Block : OnValid(b) => blk[b].addr # l
      PROVE  Visible[l] = mem[l]
  <2>1. Hits(l) = {}
    BY <1>2 DEF Hits, OnValid, TypeOK
  <2>2. Visible[l] = [o \in Offset |-> mem[l][o]]
    BY <2>1 DEF Visible
  <2>3. mem[l] \in [Offset -> Byte]
    BY DEF TypeOK, Memory
  <2> QED BY <2>2, <2>3
<1>3. ASSUME NEW l \in Line, NEW o \in Offset
      PROVE  Visible[l][o] \in Byte
  <2>1. mem[l][o] \in Byte
    BY DEF TypeOK, Memory
  <2>2. CASE \E b \in Block : OnValid(b) /\ blk[b].addr = l
    <3>1. PICK b \in Block : OnValid(b) /\ blk[b].addr = l
      BY <2>2
    <3>2. blk[b].data[o] \in Byte
      BY DEF TypeOK, DcacheBlock
    <3> QED BY <1>1, <2>1, <3>1, <3>2
  <2>3. CASE \A b \in Block : OnValid(b) => blk[b].addr # l
    BY <1>2, <2>1, <2>3
  <2> QED BY <2>2, <2>3
<1>4. Visible \in Memory
  <2>1. Visible = [l \in Line |-> [o \in Offset |-> Visible[l][o]]]
    BY DEF Visible
  <2> QED BY <1>3, <2>1 DEF Memory
<1> QED BY <1>1, <1>2, <1>4 DEF VisibleIs

\* Two memories with the same bytes are the same.
LEMMA SameBytes ==
  ASSUME NEW m \in Memory, NEW n \in Memory,
         \A l \in Line, o \in Offset : m[l][o] = n[l][o]
  PROVE  m = n
<1>1. \A l \in Line : m[l] \in [Offset -> Byte] /\ n[l] \in [Offset -> Byte]
  BY DEF Memory
<1>2. \A l \in Line : m[l] = n[l]
  BY <1>1
<1> QED BY <1>2 DEF Memory

\* A step that writes block b back, if it is on the valid list, and puts it
\* there for line l, disturbs no other line; and what GDB saw of line l is
\* now in memory.
LEMMA LineMoves ==
  ASSUME StructInv, ~Quits, VisibleIs, VisibleIs', NEW b \in Block, NEW l \in Line,
         \A c \in Block : c # b => blk'[c] = blk[c] /\ (OnValid(c)' <=> OnValid(c)),
         OnValid(b)', blk'[b].addr = l,
         \/ OnValid(b) /\ blk[b].addr = l
         \/ \A c \in Block : OnValid(c) => blk[c].addr # l,
         ~OnValid(b) => mem' = mem,
         OnValid(b) =>
           /\ \A k \in Line : k # blk[b].addr => mem'[k] = mem[k]
           /\ \A o \in Offset : mem'[blk[b].addr][o] =
                IF o \in Dirty(blk[b]) THEN blk[b].data[o] ELSE mem[blk[b].addr][o]
  PROVE  /\ \A k \in Line, o \in Offset : k # l => Visible'[k][o] = Visible[k][o]
         /\ \A o \in Offset : mem'[l][o] = Visible[l][o]
<1>1. ASSUME NEW k \in Line, NEW o \in Offset, k # l
      PROVE  Visible'[k][o] = Visible[k][o]
  <2>1. ASSUME NEW c \in Block, c # b, OnValid(c), blk[c].addr = k
        PROVE  Visible'[k][o] = Visible[k][o]
    <3>1. OnValid(c)' /\ blk'[c] = blk[c]
      BY <2>1
    <3>2. mem'[k] = mem[k]
      BY <2>1, <1>1 DEF StructInv, UnlessQuit, OneBlockPerLine, OnValid
    <3>3. Visible'[k][o] = IF o \in Dirty(blk[c]) THEN blk[c].data[o] ELSE mem[k][o]
      BY <2>1, <3>1, <3>2 DEF VisibleIs, Dirty
    <3> QED BY <2>1, <3>3 DEF VisibleIs
  <2>2. CASE \A c \in Block : c # b => ~(OnValid(c) /\ blk[c].addr = k)
    <3>1. \A c \in Block : OnValid(c)' => blk'[c].addr # k
      BY <1>1, <2>2
    <3>2. Visible'[k] = mem'[k]
      BY <3>1 DEF VisibleIs
    <3>3. CASE OnValid(b) /\ blk[b].addr = k
      BY <3>2, <3>3 DEF VisibleIs
    <3>4. CASE ~(OnValid(b) /\ blk[b].addr = k)
      <4>1. Visible[k] = mem[k]
        BY <2>2, <3>4 DEF VisibleIs
      <4> QED BY <3>2, <3>4, <4>1
    <3> QED BY <3>3, <3>4
  <2> QED BY <2>1, <2>2
<1>2. ASSUME NEW o \in Offset
      PROVE  mem'[l][o] = Visible[l][o]
  <2>1. CASE OnValid(b) /\ blk[b].addr = l
    BY <2>1 DEF VisibleIs
  <2>2. CASE \A c \in Block : OnValid(c) => blk[c].addr # l
    <3>1. Visible[l] = mem[l]
      BY <2>2 DEF VisibleIs
    <3>2. mem'[l] = mem[l]
      BY <2>2
    <3> QED BY <3>1, <3>2
  <2> QED BY <2>1, <2>2
<1> QED BY <1>1, <1>2

TransparentInv == CoherenceInv /\ DirtyIsPending

\* Every step of the cache reads or writes one byte of the memory that GDB
\* sees, lets the target run, or is invisible.
LEMMA StepRefines ==
  ASSUME TransparentInv, VisibleIs, VisibleIs', ~ReadErrors, ~WriteErrors, ~Quits, [Next]_vars
  PROVE  [TM!Next]_(TM!vars)
<1> USE DEF TransparentInv, CoherenceInv, StructInv, TypeInv
<1>a. /\ op \in Call /\ op.at \in Addr /\ op.at[1] \in Line /\ op.at[2] \in Offset
      /\ op.wb \in Nat \ {0}
  BY DEF TypeOK, Call, Addr
<1>b. Visible \in Memory /\ Visible' \in Memory
  BY DEF VisibleIs, Memory, Line, Offset
<1>c. UNCHANGED <<mem, blk, valid>> => Visible' = Visible
  BY DEF Visible, Hits, dcache_hit, Dirty
<1>d. ASSUME \A l \in Line, o \in Offset : Visible'[l][o] = Visible[l][o]
      PROVE  Visible' = Visible
  BY <1>b, <1>d, SameBytes
<1>e. Visible' = Visible /\ UNCHANGED io => [TM!Next]_(TM!vars)
  BY DEF TM!vars
<1>f. Visible' = Visible /\ Event("read", Visible[op.at[1]][op.at[2]]) => TM!Next
  <2>1. Visible' = Visible /\ Event("read", Visible[op.at[1]][op.at[2]]) => TM!Read(op.at)
    BY DEF Event, TM!Read
  <2> QED BY <1>a, <2>1 DEF TM!Next, TM!Addr, Addr
<1>g. ASSUME NEW v \in Byte, Event("write", v), Visible'[op.at[1]][op.at[2]] = v,
             \A l \in Line, o \in Offset :
               <<l, o>> # op.at => Visible'[l][o] = Visible[l][o]
      PROVE  TM!Next
  <2> DEFINE m == [Visible EXCEPT ![op.at[1]][op.at[2]] = v]
  <2>1. m \in Memory
    BY <1>a, <1>b DEF Memory
  <2>2. op.at = <<op.at[1], op.at[2]>>
    BY <1>a DEF Addr
  <2>3. \A l \in Line, o \in Offset : m[l][o] = Visible'[l][o]
    BY <1>a, <1>b, <1>g, <2>2 DEF Memory
  <2>4. Visible' = m
    BY <1>b, <2>1, <2>3, SameBytes
  <2>5. TM!Write(op.at, v)
    BY <1>g, <2>4 DEF Event, TM!Write
  <2> QED BY <1>a, <2>5 DEF TM!Next, TM!Addr, Addr
<1>h. ASSUME valid = << >>
      PROVE  \A l \in Line : Visible[l] = mem[l]
  BY <1>h DEF VisibleIs, OnValid
<1>i. ASSUME valid' = << >>
      PROVE  \A l \in Line : Visible'[l] = mem'[l]
  BY <1>i DEF VisibleIs, OnValid
<1>1. ASSUME NEW pc, NEW x, NEW len, NEW again, XferCached(pc, x, len, again)
      PROVE  [TM!Next]_(TM!vars)
  BY <1>1, <1>c, <1>e DEF XferCached, cache
<1>2. ASSUME NEW pc, NEW x, NEW len, NEW again, XferDirect(pc, x, len, again)
      PROVE  [TM!Next]_(TM!vars)
  <2>1. CASE UNCHANGED valid
    BY <1>2, <1>c, <1>e, <2>1 DEF XferDirect, cache
  <2>2. CASE valid' = << >>
    <3>1. \A b \in Block : Dirty(blk[b]) = {}
      BY <1>2, CleanOutsideWrites DEF XferDirect, Idle
    <3>2. ASSUME NEW l \in Line, NEW o \in Offset
          PROVE  Visible[l][o] = mem[l][o]
      <4>1. CASE \E b \in Block : OnValid(b) /\ blk[b].addr = l
        BY <3>1, <4>1 DEF VisibleIs
      <4>2. CASE \A b \in Block : OnValid(b) => blk[b].addr # l
        BY <4>2 DEF VisibleIs
      <4> QED BY <4>1, <4>2
    <3>3. UNCHANGED <<mem, io>>
      BY <1>2 DEF XferDirect
    <3>4. Visible' = Visible
      BY <1>d, <1>i, <2>2, <3>2, <3>3
    <3> QED BY <1>e, <3>3, <3>4
  <2> QED BY <1>2, <2>1, <2>2 DEF XferDirect, dcache_flush, cache
<1>3. CASE PeekCached
  <2> DEFINE b == dcache_hit(op.at[1])
  <2>1. b \in Block /\ OnValid(b) /\ blk[b].addr = op.at[1] /\ blk[b] \in DcacheBlock
    BY <1>3, HitFacts DEF PeekCached, OnValid
  <2>2. /\ blk[b].state[op.at[2]] # "BAD" /\ Event("read", blk[b].data[op.at[2]])
        /\ UNCHANGED <<mem, blk, valid>>
    BY <1>3 DEF PeekCached, cache
  <2> HIDE DEF b
  <2>3. Visible[op.at[1]][op.at[2]] =
          IF op.at[2] \in Dirty(blk[b]) THEN blk[b].data[op.at[2]] ELSE mem[op.at[1]][op.at[2]]
    BY <1>a, <2>1 DEF VisibleIs
  <2>4. blk[b].state[op.at[2]] = "DIRTY" \/ blk[b].state[op.at[2]] = "OK"
    BY <1>a, <2>1, <2>2 DEF DcacheBlock, EntryState
  <2>5. blk[b].state[op.at[2]] = "OK" => blk[b].data[op.at[2]] = mem[op.at[1]][op.at[2]]
    BY <1>a, <2>1 DEF OkIsMemory, OnValid
  <2>6. Visible[op.at[1]][op.at[2]] = blk[b].data[op.at[2]]
    BY <1>a, <2>3, <2>4, <2>5 DEF Dirty
  <2> QED BY <1>c, <1>f, <2>2, <2>6
<1>4. ASSUME NEW b \in Block, NEW d, NEW m, FillLine(b, op.at[1], d, m),
             \A l \in Line, o \in Offset : l # op.at[1] => Visible'[l][o] = Visible[l][o],
             \A o \in Offset : mem'[op.at[1]][o] = Visible[op.at[1]][o],
             OnValid(b)'
      PROVE  TM!Next
  <2>1. mem' = m /\ FillOk(b, op.at[1], d, m)
    BY <1>4 DEF FillLine, FillFails
  <2>2. blk'[b] = [addr |-> op.at[1], data |-> m[op.at[1]], state |-> [o \in Offset |-> "OK"],
                   anydirty |-> FALSE]
    BY <2>1 DEF FillOk, TypeOK
  <2>3. blk'[b].addr = op.at[1] /\ \A o \in Offset : blk'[b].state[o] = "OK"
    BY <2>2
  <2>4. \A o \in Offset : Visible'[op.at[1]][o] = mem'[op.at[1]][o]
    BY <1>4, <2>3 DEF VisibleIs, Dirty
  <2>5. Visible' = Visible
    BY <1>4, <1>d, <2>4
  <2>6. Event("read", Visible[op.at[1]][op.at[2]])
    BY <1>a, <1>4, <2>1 DEF FillOk
  <2> QED BY <1>f, <2>5, <2>6
<1>5. CASE PeekRefill
  <2> DEFINE b == dcache_hit(op.at[1])
  <2>1. b \in Block /\ OnValid(b) /\ blk[b].addr = op.at[1] /\ blk[b] \in DcacheBlock
    BY <1>5, HitFacts DEF PeekRefill, OnValid
  <2> HIDE DEF b
  <2>2. PICK w \in dcache_write_line(mem, blk[b]) : FillLine(b, op.at[1], w.db, w.mem)
    BY <1>5 DEF PeekRefill, b, WriteLineQuits
  <2>3. /\ w.mem \in Memory /\ w.db \in DcacheBlock
        /\ \A l \in Line : l # blk[b].addr => w.mem[l] = mem[l]
        /\ \A o \in Offset : w.mem[blk[b].addr][o] =
              IF o \in Dirty(blk[b]) THEN blk[b].data[o] ELSE mem[blk[b].addr][o]
    BY <2>1, WriteStores DEF TypeOK, DirtyIsMarked, Marked
  <2>4. /\ blk'[b].addr = op.at[1] /\ mem' = w.mem
        /\ \A c \in Block : c # b => blk'[c] = blk[c]
    BY <1>a, <2>1, <2>2, <2>3, OneBlockChanges DEF FillLine, Left
  <2>5. UNCHANGED valid
    BY <1>5 DEF PeekRefill
  <2>6. \A c \in Block : OnValid(c)' <=> OnValid(c)
    BY <2>5 DEF OnValid
  <2>7. /\ \A l \in Line, o \in Offset : l # op.at[1] => Visible'[l][o] = Visible[l][o]
        /\ \A o \in Offset : mem'[op.at[1]][o] = Visible[op.at[1]][o]
    BY <1>a, <2>1, <2>3, <2>4, <2>6, LineMoves
  <2> QED BY <1>4, <2>1, <2>2, <2>6, <2>7
<1>6. ASSUME Hits(op.at[1]) = {}
      PROVE  \A c \in Block : OnValid(c) => blk[c].addr # op.at[1]
  BY <1>6 DEF Hits, OnValid
<1>7. CASE PeekMiss
  <2>1. PICK n \in dcache_alloc :
          valid' = n.valid /\ FillLine(n.b, op.at[1], n.db, n.mem)
    BY <1>7 DEF PeekMiss
  <2>2. /\ n.b \in Block /\ n.db \in DcacheBlock /\ n.mem \in Memory
        /\ OnValid(n.b)'
        /\ \A c \in Block : c # n.b => (OnValid(c)' <=> OnValid(c))
        /\ ~OnValid(n.b) => n.mem = mem
        /\ OnValid(n.b) =>
             /\ \A l \in Line : l # blk[n.b].addr => n.mem[l] = mem[l]
             /\ \A o \in Offset : n.mem[blk[n.b].addr][o] =
                  IF o \in Dirty(blk[n.b]) THEN blk[n.b].data[o] ELSE mem[blk[n.b].addr][o]
    BY <2>1, AllocStores
  <2>3. /\ blk'[n.b].addr = op.at[1] /\ mem' = n.mem
        /\ \A c \in Block : c # n.b => blk'[c] = blk[c]
    BY <1>a, <2>1, <2>2, OneBlockChanges DEF FillLine, Left
  <2>4. \A c \in Block : OnValid(c) => blk[c].addr # op.at[1]
    BY <1>6, <1>7 DEF PeekMiss
  <2>5. /\ \A l \in Line, o \in Offset : l # op.at[1] => Visible'[l][o] = Visible[l][o]
        /\ \A o \in Offset : mem'[op.at[1]][o] = Visible[op.at[1]][o]
    BY <1>a, <2>2, <2>3, <2>4, LineMoves
  <2> QED BY <1>4, <2>1, <2>2, <2>5
<1>8. CASE EvictQuits
  BY <1>8 DEF EvictQuits, WriteLineQuits
<1>9. CASE AllocNull \/ XferBytesDone \/ WritebackDone \/ SetRemoteCache \/ UNCHANGED vars
  BY <1>9, <1>c, <1>e DEF AllocNull, XferBytesDone, WritebackDone, SetRemoteCache, cache, vars
<1>10. ASSUME NEW v \in Byte, PokeHit(v)
       PROVE  TM!Next
  <2>1. PICK b \in Block :
          /\ b = dcache_hit(op.at[1]) /\ OnValid(b)
          /\ blk[b].addr = op.at[1] /\ blk[b] \in DcacheBlock
    BY <1>10, HitFacts DEF PokeHit, OnValid
  <2>2. PokeInto(b, blk[b], v) /\ UNCHANGED <<mem, valid>>
    BY <1>10, <2>1 DEF PokeHit
  <2>3. /\ blk'[b].addr = op.at[1]
        /\ blk'[b].data = [blk[b].data EXCEPT ![op.at[2]] = v]
        /\ blk'[b].state = [blk[b].state EXCEPT ![op.at[2]] = "DIRTY"]
        /\ \A c \in Block : c # b => blk'[c] = blk[c]
    BY <2>1, <2>2 DEF PokeInto, TypeOK
  <2>4. \A c \in Block : OnValid(c)' <=> OnValid(c)
    BY <2>2 DEF OnValid
  <2>5. ASSUME NEW o \in Offset
        PROVE  Visible'[op.at[1]][o] = IF o = op.at[2] THEN v ELSE Visible[op.at[1]][o]
    <3>1. Visible'[op.at[1]][o] = IF blk'[b].state[o] = "DIRTY" THEN blk'[b].data[o]
                                  ELSE mem[op.at[1]][o]
      <4>1. o \in Dirty(blk'[b]) <=> blk'[b].state[o] = "DIRTY"
        BY DEF Dirty
      <4>2. OnValid(b)'
        BY <2>1, <2>4
      <4>3. Visible'[blk'[b].addr][o] = IF o \in Dirty(blk'[b]) THEN blk'[b].data[o]
                                       ELSE mem'[blk'[b].addr][o]
        BY <2>1, <4>2 DEF VisibleIs, Dirty
      <4> QED BY <2>2, <2>3, <4>1, <4>3
    <3>2. Visible[op.at[1]][o] = IF blk[b].state[o] = "DIRTY" THEN blk[b].data[o]
                                 ELSE mem[op.at[1]][o]
      BY <2>1 DEF VisibleIs, Dirty
    <3> QED BY <1>a, <2>1, <2>3, <3>1, <3>2 DEF DcacheBlock
  <2>6. ASSUME NEW l \in Line, NEW o \in Offset, l # op.at[1]
        PROVE  Visible'[l][o] = Visible[l][o]
    <3>1. ASSUME NEW c \in Block, OnValid(c), blk[c].addr = l
          PROVE  Visible'[l][o] = Visible[l][o]
      <4>1. blk'[c] = blk[c] /\ OnValid(c)'
        BY <2>1, <2>3, <2>4, <2>6, <3>1
      <4>2. Visible'[l][o] = IF o \in Dirty(blk[c]) THEN blk[c].data[o] ELSE mem[l][o]
        BY <2>2, <3>1, <4>1 DEF VisibleIs, Dirty
      <4> QED BY <3>1, <4>2 DEF VisibleIs
    <3>2. CASE \A c \in Block : OnValid(c) => blk[c].addr # l
      <4>1. \A c \in Block : OnValid(c)' => blk'[c].addr # l
        BY <2>3, <2>4, <2>6, <3>2
      <4> QED BY <2>2, <3>2, <4>1 DEF VisibleIs
    <3> QED BY <3>1, <3>2
  <2>7. \A l \in Line, o \in Offset : <<l, o>> # op.at => Visible'[l][o] = Visible[l][o]
    <3>1. op.at = <<op.at[1], op.at[2]>>
      BY <1>a DEF Addr
    <3> QED BY <2>5, <2>6, <3>1
  <2>8. Visible'[op.at[1]][op.at[2]] = v
    BY <1>a, <2>5
  <2> QED BY <1>g, <2>2, <2>7, <2>8 DEF PokeInto
<1>11. ASSUME NEW v \in Byte, PokeMiss(v)
       PROVE  TM!Next
  <2>1. PICK n \in dcache_alloc :
          /\ mem' = n.mem /\ valid' = n.valid
          /\ PokeInto(n.b, [n.db EXCEPT !.addr = op.at[1],
                                        !.state = [o \in Offset |-> "BAD"]], v)
    BY <1>11 DEF PokeMiss
  <2>2. /\ n.b \in Block /\ n.db \in DcacheBlock /\ n.mem \in Memory
        /\ OnValid(n.b)'
        /\ \A c \in Block : c # n.b => (OnValid(c)' <=> OnValid(c))
        /\ ~OnValid(n.b) => n.mem = mem
        /\ OnValid(n.b) =>
             /\ \A l \in Line : l # blk[n.b].addr => n.mem[l] = mem[l]
             /\ \A o \in Offset : n.mem[blk[n.b].addr][o] =
                  IF o \in Dirty(blk[n.b]) THEN blk[n.b].data[o] ELSE mem[blk[n.b].addr][o]
    BY <2>1, AllocStores
  <2> DEFINE d == [n.db EXCEPT !.addr = op.at[1], !.state = [o \in Offset |-> "BAD"]]
  <2>3. d.addr = op.at[1] /\ d.state = [o \in Offset |-> "BAD"] /\ d.data \in [Offset -> Byte]
    BY <2>2 DEF DcacheBlock
  <2>4. PokeInto(n.b, d, v)
    BY <2>1
  <2> HIDE DEF d
  <2>5. /\ blk'[n.b].addr = op.at[1]
        /\ blk'[n.b].data = [d.data EXCEPT ![op.at[2]] = v]
        /\ blk'[n.b].state = [d.state EXCEPT ![op.at[2]] = "DIRTY"]
        /\ \A c \in Block : c # n.b => blk'[c] = blk[c]
    BY <2>2, <2>3, <2>4 DEF PokeInto, TypeOK
  <2>6. \A c \in Block : OnValid(c) => blk[c].addr # op.at[1]
    BY <1>6, <1>11 DEF PokeMiss
  <2>7. /\ \A l \in Line, o \in Offset : l # op.at[1] => Visible'[l][o] = Visible[l][o]
        /\ \A o \in Offset : mem'[op.at[1]][o] = Visible[op.at[1]][o]
    BY <1>a, <2>1, <2>2, <2>5, <2>6, LineMoves
  <2>8. ASSUME NEW o \in Offset
        PROVE  Visible'[op.at[1]][o] = IF o = op.at[2] THEN v ELSE Visible[op.at[1]][o]
    <3>1. Visible'[op.at[1]][o] = IF blk'[n.b].state[o] = "DIRTY" THEN blk'[n.b].data[o]
                                  ELSE mem'[op.at[1]][o]
      <4>1. o \in Dirty(blk'[n.b]) <=> blk'[n.b].state[o] = "DIRTY"
        BY DEF Dirty
      <4>2. Visible'[blk'[n.b].addr][o] = IF o \in Dirty(blk'[n.b]) THEN blk'[n.b].data[o]
                                         ELSE mem'[blk'[n.b].addr][o]
        BY <2>2 DEF VisibleIs, Dirty
      <4> QED BY <2>5, <4>1, <4>2
    <3>2. blk'[n.b].state[o] = IF o = op.at[2] THEN "DIRTY" ELSE "BAD"
      BY <1>a, <2>3, <2>5
    <3>3. blk'[n.b].data[op.at[2]] = v
      BY <1>a, <2>3, <2>5
    <3> QED BY <2>7, <3>1, <3>2, <3>3
  <2>9. \A l \in Line, o \in Offset : <<l, o>> # op.at => Visible'[l][o] = Visible[l][o]
    <3>1. op.at = <<op.at[1], op.at[2]>>
      BY <1>a DEF Addr
    <3> QED BY <2>7, <2>8, <3>1
  <2>10. Visible'[op.at[1]][op.at[2]] = v
    BY <1>a, <2>8
  <2> QED BY <1>g, <2>4, <2>9, <2>10 DEF PokeInto
<1>12. CASE WritebackLine
  <2> DEFINE b == valid[op.wb]
  <2>1. b \in Block /\ blk[b] \in DcacheBlock /\ blk[b].addr \in Line /\ OnValid(b)
    BY <1>12, <1>a DEF WritebackLine, OnValid, TypeOK, DcacheBlock
  <2>2. PICK w \in dcache_write_line(mem, blk[b]) :
          mem' = w.mem /\ blk' = [blk EXCEPT ![b] = w.db]
    BY <1>12 DEF WritebackLine, WriteLineQuits
  <2>3. UNCHANGED <<valid, io>>
    BY <1>12 DEF WritebackLine
  <2> HIDE DEF b
  <2>4. /\ Dirty(w.db) = {} /\ w.db.addr = blk[b].addr
        /\ \A l \in Line : l # blk[b].addr => w.mem[l] = mem[l]
        /\ \A o \in Offset : w.mem[blk[b].addr][o] =
              IF o \in Dirty(blk[b]) THEN blk[b].data[o] ELSE mem[blk[b].addr][o]
    <3> DEFINE d == blk[b]
    <3>1. mem \in Memory /\ d \in DcacheBlock /\ Marked(d) /\ w \in dcache_write_line(mem, d)
      BY <2>1, <2>2 DEF TypeOK, DirtyIsMarked, Marked
    <3> HIDE DEF d
    <3>2. /\ Dirty(w.db) = {} /\ w.db.addr = d.addr
          /\ \A l \in Line : l # d.addr => w.mem[l] = mem[l]
          /\ \A o \in Offset :
               w.mem[d.addr][o] = IF o \in Dirty(d) THEN d.data[o] ELSE mem[d.addr][o]
      BY <3>1, WriteStores
    <3> QED BY <3>2 DEF d
  <2>5. blk'[b] = w.db /\ \A c \in Block : c # b => blk'[c] = blk[c]
    BY <2>1, <2>2 DEF TypeOK
  <2>6. \A c \in Block : OnValid(c)' <=> OnValid(c)
    BY <2>3 DEF OnValid
  <2>7. /\ \A l \in Line, o \in Offset : l # blk[b].addr => Visible'[l][o] = Visible[l][o]
        /\ \A o \in Offset : mem'[blk[b].addr][o] = Visible[blk[b].addr][o]
    BY <2>1, <2>2, <2>4, <2>5, <2>6, LineMoves
  <2>8. \A o \in Offset : Visible'[blk[b].addr][o] = mem'[blk[b].addr][o]
    BY <2>1, <2>4, <2>5, <2>6 DEF VisibleIs, Dirty
  <2>9. Visible' = Visible
    BY <1>d, <2>7, <2>8
  <2> QED BY <1>e, <2>3, <2>9
<1>13. CASE DirectRead
  <2>1. valid = << >>
    BY <1>13 DEF DirectRead, DirectEmpty
  <2>2. UNCHANGED <<mem, blk, valid>> /\ Event("read", mem[op.at[1]][op.at[2]])
    BY <1>13 DEF DirectRead, cache
  <2> QED BY <1>a, <1>c, <1>f, <1>h, <2>1, <2>2
<1>14. ASSUME NEW v \in Byte, DirectWrite(v)
       PROVE  TM!Next
  <2>1. valid = << >> /\ valid' = << >>
    BY <1>14 DEF DirectWrite, DirectEmpty, cache
  <2>2. mem' = [mem EXCEPT ![op.at[1]][op.at[2]] = v] /\ Event("write", v)
    BY <1>14 DEF DirectWrite
  <2>3. op.at = <<op.at[1], op.at[2]>> /\ mem \in Memory
    BY <1>a DEF Addr, TypeOK
  <2>4. /\ mem'[op.at[1]][op.at[2]] = v
        /\ \A l \in Line, o \in Offset : <<l, o>> # op.at => mem'[l][o] = mem[l][o]
    BY <1>a, <2>2, <2>3 DEF Memory
  <2>5. \A l \in Line : Visible[l] = mem[l] /\ Visible'[l] = mem'[l]
    BY <1>h, <1>i, <2>1
  <2>6. /\ Visible'[op.at[1]][op.at[2]] = v
        /\ \A l \in Line, o \in Offset : <<l, o>> # op.at => Visible'[l][o] = Visible[l][o]
    BY <1>a, <2>4, <2>5
  <2> QED BY <1>g, <2>2, <2>6
<1>15. CASE RemoteResume \/ RemoteOpen
  <2>1. TargetRuns
    BY <1>15 DEF RemoteResume, RemoteOpen
  <2> QED BY <1>b, <2>1 DEF TargetRuns, Memory, TM!Next, TM!Run, TM!Memory
<1> QED
  BY <1>1, <1>2, <1>3, <1>5, <1>7, <1>8, <1>9, <1>10, <1>11, <1>12, <1>13, <1>14, <1>15
  DEF Next, Start

\* While the target answers and nothing is quit, every byte that GDB reads
\* through the cache, or around it after "set remotecache", is the byte last
\* written there: the cache implements TargetMemory.
THEOREM CacheIsInvisible ==
  ASSUME ~ReadErrors, ~WriteErrors, ~Quits
  PROVE  Spec => ReadsSeeWrites
<1>1. Init => TransparentInv
  <2> SUFFICES ASSUME Init PROVE TransparentInv
    OBVIOUS
  <2>1. valid = << >> /\ op.pc = "idle"
    BY NoCallType DEF Init
  <2> QED BY <2>1, InitStored DEF TransparentInv, CoherenceInv, StoredInv, OkIsMemory,
                                 DirectEmpty, FilledIsNoted
<1>2. TransparentInv /\ [Next]_vars => TransparentInv'
  BY StepStructInv, StepCoherent, StepNoted, StepStored
     DEF TransparentInv, CoherenceInv, StoredInv, StructInv
<1>3. Init => TM!Init
  <2> SUFFICES ASSUME Init PROVE TM!Init
    OBVIOUS
  <2>1. Visible \in Memory
    BY InitStructure, VisibleFacts DEF VisibleIs
  <2>2. <<0, 0>> \in Addr
    BY SizeAssumption DEF Addr, Line, Offset
  <2>3. \E a \in Addr, v \in Byte : io = [ev |-> "none", at |-> a, val |-> v]
    BY <2>2, ByteAssumption DEF Init
  <2> QED BY <2>1, <2>3 DEF TM!Init, TM!Memory, Memory, TM!Addr, Addr
<1>4. TransparentInv => VisibleIs
  BY VisibleFacts DEF TransparentInv, CoherenceInv
<1>5. TransparentInv /\ VisibleIs /\ VisibleIs' /\ [Next]_vars => [TM!Next]_(TM!vars)
  BY StepRefines
<1> QED BY <1>1, <1>2, <1>3, <1>4, <1>5, PTL DEF Spec, ReadsSeeWrites, TM!Spec

=============================================================================
