------------------------- MODULE RemoteMemoryProofs -------------------------
(***************************************************************************)
(* Proofs about RemoteMemory: what a transfer returns, what it has stored  *)
(* and what it sends, for every packet size, address and length.           *)
(*                                                                         *)
(* A byte's address is compared modulo MaskSpace: the target sees only the *)
(* masked address, while GDB's own moves on modulo CoreSpace.  The first   *)
(* lemmas are about that arithmetic.                                       *)
(***************************************************************************)
EXTENDS RemoteMemory, FiniteSetTheorems, SequenceTheorems, WellFoundedInduction, TLAPS

-----------------------------------------------------------------------------
(* The inductive invariant.                                                *)

Called == call.pc # "idle"
Sent == call.pc \in {"stub", "reply"}

Packets ==
  [kind : {"none", "M", "X", "m"}, addr : Int, n : Int, body : Seq(Int), chars : Int, sent : Nat,
   cnt : Int]

\* The types, without the bounds that depend on the sizes of packets.
Shape ==
  /\ remote_binary_download \in BOOLEAN /\ remote_register_buf_size \in Nat
  /\ stub \in [regs : Nat, x : BOOLEAN] /\ mem \in Mem /\ world \in Worlds
  /\ call \in [pc : {"idle", "send", "stub", "reply"}, op : {"none", "write", "read"},
               start : Int, addr : Int, pos : Nat, left : Nat, orig : Nat, total : Nat,
               ws : Nat, special : Specials \cup {{}}, max : Int, ret : Int]
  /\ pkt \in Packets
  /\ reply \in [is : {"none", "OK", "E", "empty", "timeout", "data"}, n : Int]
  /\ buf \in Seq(Int)
  /\ remote_binary_length \in Int

\* The counters of the loop: the address, the position in the buffer and what is left move
\* together.
Counters ==
  /\ call.total <= MaskSpace /\ call.pos + call.left = call.total
  /\ call.addr % MaskSpace = (call.start + call.pos) % MaskSpace

\* The packet under way is the next one of the transfer.
InFlight ==
  /\ call.op # "none"
  /\ pkt.addr = call.addr /\ call.addr \in 0..(MaskSpace - 1)
  /\ pkt.sent <= call.left
  /\ pkt.n = pkt.sent \/ (pkt.n < 0 /\ pkt.sent = 0)
  /\ call.op = "read" => pkt.kind = "m" /\ pkt.n >= 0
  /\ call.op = "write" => pkt.sent <= Len(pkt.body)
  /\ call.op = "write" =>
       \/ pkt.kind = "M" /\ ~remote_binary_download /\ pkt.body = Data(call.pos, pkt.sent)
       \/ /\ pkt.kind = "X" /\ remote_binary_download
          /\ Len(pkt.body) = pkt.sent => pkt.body = Data(call.pos, pkt.sent)

Progress ==
  /\ Called => call.op # "none" /\ call.ret = -1 /\ Counters
  /\ Sent => InFlight

\* remote_binary_length is the length of an 'X' packet under way, and otherwise -1.
LengthReset ==
  ~Quits => /\ (Sent /\ pkt.kind = "X") \/ remote_binary_length = -1
            /\ call.pc = "stub" => pkt.cnt = pkt.chars - 4

\* What a read has got so far.
Reading ==
  call.op = "read" =>
    /\ buf = [k \in 1..Len(buf) |-> (call.start + k - 1) % MaskSpace]
    /\ call.ret > 0 => call.ret = Len(buf)
    /\ Called => call.pos = Len(buf) /\ call.orig = call.total /\ call.max >= 0
    /\ (call.pc = "reply" /\ reply.is = "data") => reply.n \in 0..pkt.n

\* The memory that holds the first n bytes of a buffer, from start on, and nothing else.
Filled(start, n) ==
  [x \in 0..(MaskSpace - 1) |->
     IF (x - start) % MaskSpace < n THEN ((x - start) % MaskSpace) + 1 ELSE 0]

\* What a write has stored so far, when every packet is answered.
Writing ==
  (Answered /\ call.op = "write") =>
    /\ call.pos <= call.total
    /\ \E n \in call.pos..call.total : mem = Filled(call.start, n)
    /\ call.ret > 0 => call.ret = call.pos /\ mem = Filled(call.start, call.pos)
    /\ Called => /\ call.orig = call.total
                 /\ (remote_binary_download /\ ~stub.x) => call.pos = 0
    /\ call.pc \in {"send", "stub"} => mem = Filled(call.start, call.pos)
    /\ call.pc = "reply" =>
         /\ reply.is \in {"OK", "E", "empty"}
         /\ reply.is = "OK" => /\ mem = Filled(call.start, call.pos + pkt.sent)
                               /\ pkt.kind = "X" => stub.x
         /\ reply.is = "empty" => mem = Filled(call.start, call.pos) /\ pkt.kind = "X" /\ ~stub.x

\* The invariant of reads and of packets, which needs no assumption.
ReadInv == Shape /\ Progress /\ LengthReset /\ Reading

\* The invariant of writes, while length fields keep their digits.
WriteInv == ReadInv /\ OnlyOwnBytes /\ Writing

-----------------------------------------------------------------------------
(* Remainders. *)

\* Multiplication is associative.
LEMMA Associative == \A a, b, c \in Int : (a * b) * c = a * (b * c)
  BY SMT

\* What % and \div are.
LEMMA ModDef ==
  ASSUME NEW M \in Nat \ {0}, NEW a \in Int
  PROVE  /\ a % M \in 0..(M - 1)
         /\ a \div M \in Int
         /\ a = M * (a \div M) + (a % M)
<1>1. a % M \in 0..(M - 1) /\ a \div M \in Int
  OBVIOUS
<1>2. a = M * (a \div M) + (a % M)
  OBVIOUS
<1> QED BY <1>1, <1>2

\* The remainder is the only one of its range.
LEMMA ModUnique ==
  ASSUME NEW M \in Nat \ {0}, NEW a \in Int, NEW b \in Int, NEW r \in 0..(M - 1), a = M * b + r
  PROVE  a % M = r
  BY SMT

\* A multiple of M does not change the remainder.
LEMMA ModAdd ==
  ASSUME NEW M \in Nat \ {0}, NEW a \in Int, NEW k \in Int
  PROVE (a + M * k) % M = a % M
<1> DEFINE q == (a \div M) + k
           r == a % M
           s == a + M * k
<1>1. q \in Int /\ r \in 0..(M - 1) /\ s \in Int
  BY ModDef
<1>2. s = M * q + r
  BY ModDef
<1> HIDE DEF q, r, s
<1>3. s % M = r
  BY <1>1, <1>2, ModUnique
<1> QED BY <1>3 DEF r, s

\* Arithmetic modulo CoreSpace keeps remainders modulo MaskSpace, which divides it.
LEMMA ModMod ==
  ASSUME NEW M \in Nat \ {0}, NEW C \in Nat \ {0}, C % M = 0, NEW a \in Int
  PROVE (a % C) % M = a % M
<1> DEFINE t == C \div M
           q == a \div C
           r == a % C
<1>1. t \in Int /\ q \in Int /\ r \in Int
  BY ModDef
<1>2. C = M * t + (C % M)
  BY ModDef
<1>3. C = M * t
  BY <1>1, <1>2
<1>4. a = C * q + r
  BY ModDef
<1> HIDE DEF t, q, r
<1>5. C * q = M * (t * q)
  <2>1. C * q = (M * t) * q
    BY <1>3, Zenon
  <2> QED BY <2>1, <1>1, Associative
<1> DEFINE w == t * q
<1>6. w \in Int
  BY <1>1
<1>7. C * q = M * w
  BY <1>5
<1> HIDE DEF w
<1>8. C * q \in Int
  BY <1>1
<1>9. a = r + M * w
  BY <1>1, <1>4, <1>6, <1>7, <1>8
<1>10. (r + M * w) % M = r % M
  BY <1>1, <1>6, ModAdd
<1> QED BY <1>9, <1>10 DEF r

\* Addition keeps congruence.
LEMMA ModShift ==
  ASSUME NEW M \in Nat \ {0}, NEW a \in Int, NEW b \in Int, NEW n \in Int, a % M = b % M
  PROVE  (a + n) % M = (b + n) % M
<1> DEFINE k == (a \div M) - (b \div M)
           c == b + n
<1>1. k \in Int /\ c \in Int
  BY ModDef
<1>2. a + n = c + M * k
  <2>1. a = M * (a \div M) + (a % M) /\ b = M * (b \div M) + (b % M)
    BY ModDef
  <2>2. (a \div M) \in Int /\ (b \div M) \in Int
    BY ModDef
  <2> DEFINE x == a \div M
             y == b \div M
             r == a % M
  <2>3. a = M * x + r /\ b = M * y + r /\ x \in Int /\ y \in Int /\ r \in Int
    BY <2>1, <2>2, ModDef
  <2>4. k = x - y
    OBVIOUS
  <2> HIDE DEF x, y, r, k
  <2> QED BY <2>3, <2>4
<1> HIDE DEF k, c
<1>3. (c + M * k) % M = c % M
  BY <1>1, ModAdd
<1> QED BY <1>2, <1>3 DEF c

\* The same fact with the equation as a relation.
Congruent(a, b, M) == a % M = b % M
LEMMA CongruentShift ==
  ASSUME NEW M \in Nat \ {0}, NEW a \in Int, NEW b \in Int, NEW n \in Int, Congruent(a, b, M)
  PROVE  Congruent(a + n, b + n, M)
BY ModShift DEF Congruent

\* Where the bytes of a packet go: with pos bytes of the transfer before it, the address at
\* distance d from the packet's is at distance pos + d from the transfer's.
Inside(d, s, pos, k) ==
  /\ d < k <=> (s >= pos /\ s < pos + k)
  /\ d < k => s = pos + d
LEMMA Window ==
  ASSUME NEW M \in Nat \ {0}, NEW x \in Int, NEW start \in Int, NEW addr \in Int,
         NEW pos \in Nat, NEW k \in Nat, pos + k <= M, addr % M = (start + pos) % M
  PROVE  Inside((x - addr) % M, (x - start) % M, pos, k)
<1> DEFINE s == (x - start) % M
           d == (x - addr) % M
           b == start + pos
           y == x - addr - b
<1>1. s \in 0..(M - 1) /\ d \in 0..(M - 1) /\ b \in Int /\ y \in Int
  BY ModDef
<1>2. (b + y) % M = (addr + y) % M
  <2>1. Congruent(b, addr, M)
    BY DEF Congruent
  <2> HIDE DEF b, y, s, d
  <2>2. Congruent(b + y, addr + y, M)
    BY <1>1, <2>1, CongruentShift
  <2> QED BY <2>2 DEF Congruent
<1>3. d = ((x - start) + (0 - pos)) % M
  <2>1. b + y = x - addr /\ addr + y = (x - start) + (0 - pos)
    OBVIOUS
  <2> QED BY <1>2, <2>1
<1>4. s % M = (x - start) % M
  <2>1. s = M * 0 + s
    BY <1>1
  <2> HIDE DEF s
  <2>2. s % M = s
    BY <1>1, <2>1, ModUnique
  <2> QED BY <2>2 DEF s
<1>5. d = (s - pos) % M
  <2> DEFINE z == x - start
             n == 0 - pos
  <2>1. z \in Int /\ n \in Int /\ s \in Int /\ s + n = s - pos
    BY <1>1
  <2>2. (s + n) % M = (z + n) % M
    <3>1. Congruent(s, z, M)
      BY <1>4 DEF Congruent
    <3>2. s \in Int /\ z \in Int /\ n \in Int
      BY <2>1
    <3> HIDE DEF s, z, n, d, b, y
    <3>3. Congruent(s + n, z + n, M)
      BY <3>1, <3>2, CongruentShift
    <3> QED BY <3>3 DEF Congruent
  <2> QED BY <1>3, <2>1, <2>2
<1> HIDE DEF s, d
<1>6. ASSUME s >= pos PROVE Inside(d, s, pos, k)
  <2>1. s - pos = M * 0 + (s - pos) /\ s - pos \in 0..(M - 1)
    BY <1>1, <1>6
  <2> DEFINE r == s - pos
  <2> HIDE DEF r
  <2>2. r % M = r
    BY <2>1, ModUnique DEF r
  <2>3. d = s - pos
    BY <1>5, <2>2 DEF r
  <2> QED BY <1>1, <1>6, <2>3 DEF Inside
<1>7. ASSUME s < pos PROVE Inside(d, s, pos, k)
  <2> DEFINE r == s - pos + M
             a == s - pos
  <2>1. r \in 0..(M - 1) /\ a = M * (-1) + r /\ a \in Int
    BY <1>1, <1>7
  <2> HIDE DEF r, a
  <2>2. a % M = r
    BY <2>1, ModUnique
  <2>3. d = s - pos + M
    BY <1>5, <2>2 DEF r, a
  <2> QED BY <1>1, <1>7, <2>3 DEF Inside
<1>8. Inside(d, s, pos, k)
  BY <1>1, <1>6, <1>7 DEF Inside
<1> QED BY <1>8 DEF s, d

-----------------------------------------------------------------------------
(* The sizes of packets.                                                   *)

\* A set of natural numbers has a least one.
LEMMA LeastNat ==
  ASSUME NEW T, T \subseteq Nat, T # {}
  PROVE  \E x \in T : \A y \in T : x <= y
<1>1. PICK x \in T : \A y \in T : ~(<<y, x>> \in OpToRel(<, Nat))
  BY NatLessThanWellFounded, WFMin
<1>2. \A y \in T : ~(y < x)
  BY <1>1 DEF OpToRel
<1> QED BY <1>2

\* hexnumlen counts the digits: the number is below the power of 16 that it names and below no
\* smaller one, unless it has more than 16 of them.
LEMMA Digits ==
  ASSUME NEW num \in Int
  PROVE  /\ hexnumlen(num) \in 1..16
         /\ num >= 0 => /\ hexnumlen(num) = 16 \/ num < 16^hexnumlen(num)
                        /\ \A k \in 1..(hexnumlen(num) - 1) : ~(num < 16^k)
<1>1. CASE num < 0
  BY <1>1 DEF hexnumlen
<1>2. CASE ~(num < 0)
  <2> DEFINE T == {n \in 1..16 : n = 16 \/ num < 16^n}
             Named(i) == (i = 16 \/ num < 16^i) /\ \A k \in 1..(i - 1) : ~(num < 16^k)
  <2>1. 16 \in T /\ T \subseteq Nat
    OBVIOUS
  <2>2. PICK n \in T : \A y \in T : n <= y
    BY <2>1, LeastNat
  <2>3. n \in 1..16 /\ Named(n)
    <3>1. ASSUME NEW k \in 1..(n - 1), num < 16^k PROVE FALSE
      <4>1. k \in T
        BY <3>1
      <4>2. n <= k
        BY <2>2, <4>1
      <4> QED BY <4>2
    <3> QED BY <3>1
  <2>4. hexnumlen(num) = CHOOSE i \in 1..16 : Named(i)
    BY <1>2 DEF hexnumlen
  <2> HIDE DEF Named
  <2>5. hexnumlen(num) \in 1..16 /\ Named(hexnumlen(num))
    BY <2>3, <2>4, Zenon
  <2> QED BY <2>5 DEF Named
<1> QED BY <1>1, <1>2

\* hexnumlen is defined for every number.
LEMMA HexLen ==
  ASSUME NEW num \in Int
  PROVE  hexnumlen(num) \in Int
<1>1. hexnumlen(num) \in 1..16
  BY Digits
<1> QED BY <1>1

\* A smaller number has no more digits.
LEMMA FewerDigits ==
  ASSUME NEW m \in Nat, NEW n \in Nat, m <= n
  PROVE  hexnumlen(m) <= hexnumlen(n)
<1> DEFINE a == hexnumlen(m)
           b == hexnumlen(n)
<1>1. /\ a \in 1..16 /\ b \in 1..16
      /\ b = 16 \/ n < 16^b
      /\ \A k \in 1..(a - 1) : ~(m < 16^k)
  BY Digits
<1> HIDE DEF a, b
<1>2. ASSUME b < a PROVE FALSE
  <2>1. b \in 1..(a - 1) /\ n < 16^b
    BY <1>1, <1>2
  <2>2. ~(m < 16^b)
    BY <1>1, <2>1
  <2>3. 16^b \in Int
    BY <1>1
  <2> QED BY <2>1, <2>2, <2>3
<1> QED BY <1>1, <1>2 DEF a, b

LEMMA EscapesType ==
  ASSUME NEW pos \in Int, NEW n \in Int
  PROVE  Escapes(pos, n) \in Nat
<1>1. IsFiniteSet(1..n)
  BY FS_Interval
<1>2. {k \in 1..n : pos + k \in call.special} \subseteq 1..n
  OBVIOUS
<1> QED BY <1>1, <1>2, FS_Subset, FS_CardinalityType DEF Escapes

\* No more bytes go into an 'X' packet than were to.
LEMMA CountRange ==
  ASSUME Shape, NEW todo \in Int
  PROVE  /\ BinaryCount(todo) \in Nat
         /\ todo > 0 => BinaryCount(todo) <= todo
         /\ todo <= 0 => BinaryCount(todo) = 0
         /\ todo > 0 => \A j \in 0..(BinaryCount(todo) - 1) :
                          j + Escapes(call.pos, j) < call.max - 2
<1>1. CASE todo <= 0
  BY <1>1 DEF BinaryCount
<1>2. CASE todo > 0
  <2> DEFINE Full(i) == i + Escapes(call.pos, i) >= call.max - 2
             T == {i \in 0..todo : i = todo \/ Full(i)}
             P(i) == /\ i = todo \/ Full(i)
                     /\ \A j \in 0..(i - 1) : j + Escapes(call.pos, j) < call.max - 2
  <2>1. todo \in T /\ T \subseteq Nat
    BY <1>2
  <2>2. PICK i \in T : \A y \in T : i <= y
    BY <2>1, LeastNat
  <2>3. P(i)
    <3>1. ASSUME NEW j \in 0..(i - 1) PROVE j + Escapes(call.pos, j) < call.max - 2
      <4>1. j \notin T
        BY <2>2
      <4>2. j \in 0..todo
        OBVIOUS
      <4>3. ~Full(j)
        BY <4>1, <4>2
      <4>4. call.pos \in Int /\ call.max \in Int /\ j \in Int
        BY DEF Shape
      <4>5. Escapes(call.pos, j) \in Nat
        BY <4>4, EscapesType
      <4> QED BY <4>3, <4>4, <4>5
    <3> QED BY <3>1
  <2>4. BinaryCount(todo) = CHOOSE k \in 0..todo : P(k)
    BY <1>2 DEF BinaryCount
  <2>5. i \in 0..todo
    OBVIOUS
  <2> HIDE DEF P
  <2>6. BinaryCount(todo) \in 0..todo /\ P(BinaryCount(todo))
    BY <2>3, <2>4, <2>5, Zenon
  <2> QED BY <1>2, <2>6 DEF P
<1> QED BY <1>1, <1>2

LEMMA LimitType ==
  ASSUME Shape, NEW ws \in Nat
  PROVE  Limit(ws) \in Nat
  BY MemoryAssumption DEF Shape, Limit, Least

LEMMA RoomType ==
  ASSUME Shape, NEW ws \in Nat, NEW addr \in Int, NEW len \in Int
  PROVE  WriteRoom(ws, addr, len) \in Int
<1> DEFINE last == (addr + len - 1) % CoreSpace
<1>1. last \in Int
  BY MemoryAssumption, ModDef
<1> HIDE DEF last
<1>2. hexnumlen(last) \in Int /\ hexnumlen(len) \in Int /\ Limit(ws) \in Int
  BY <1>1, HexLen, LimitType
<1> QED BY <1>2 DEF WriteRoom, last

LEMMA Masked ==
  ASSUME NEW a \in Int
  PROVE  /\ remote_address_masked(a) \in 0..(MaskSpace - 1)
         /\ remote_address_masked(a) % MaskSpace = a % MaskSpace
<1> DEFINE r == a % MaskSpace
<1>1. r \in 0..(MaskSpace - 1)
  BY MemoryAssumption, ModDef
<1>2. r % MaskSpace = r
  <2> HIDE DEF r
  <2>1. r = MaskSpace * 0 + r
    BY <1>1, MemoryAssumption
  <2> QED BY <1>1, <2>1, MemoryAssumption, ModUnique
<1> QED BY <1>1, <1>2 DEF remote_address_masked

\* A sequence of any number of elements, also of none.
LEMMA FillType ==
  ASSUME NEW n \in Int, NEW v \in Int
  PROVE  /\ [k \in 1..n |-> v] \in Seq(Int)
         /\ n >= 0 => Len([k \in 1..n |-> v]) = n
         /\ n <= 0 => [k \in 1..n |-> v] = << >>
<1>1. CASE n > 0
  BY <1>1
<1>2. CASE n <= 0
  <2>1. 1..n = 1..0
    BY <1>2
  <2>2. [k \in 1..n |-> v] = << >>
    BY <2>1
  <2> QED BY <1>2, <2>2
<1> QED BY <1>1, <1>2

LEMMA DataType ==
  ASSUME NEW pos \in Nat, NEW n \in Nat
  PROVE  Data(pos, n) \in Seq(Int) /\ Len(Data(pos, n)) = n
  BY DEF Data

\* An 'X' packet: its data follows the ':' if the length field kept its digits.
IsBinary(p, addr, i) ==
  /\ p \in Packets
  /\ p.kind = "X" /\ p.addr = addr /\ p.sent = i /\ p.cnt = p.chars - 4
  /\ p.n = p.sent \/ (p.n < 0 /\ p.sent = 0)
  /\ p.sent <= Len(p.body)
  /\ Len(p.body) = p.sent => p.body = Data(call.pos, p.sent)

LEMMA BinaryPacketType ==
  ASSUME Shape, NEW addr \in Int, NEW todo \in Int, NEW i \in Nat, todo > 0 => i <= todo,
         todo <= 0 => i = 0, NEW p, p = BinaryPacket(addr, todo, i)
  PROVE  IsBinary(p, addr, i)
<1> DEFINE stray == IF i < todo THEN hexnumlen(todo) - hexnumlen(i) ELSE 0
           fill == [k \in 1..stray |-> Junk]
           data == Data(call.pos, i)
           esc == Escapes(call.pos, i)
           chars == 2 + hexnumlen(addr) + 1 + hexnumlen(todo) + 1 + i + esc + 3
<1>1. call.pos \in Nat /\ call.pos \in Int /\ i \in Int
  BY DEF Shape
<1>2. hexnumlen(todo) \in Int /\ hexnumlen(i) \in Int /\ hexnumlen(addr) \in Int
  BY HexLen
<1>3. stray \in Int /\ Junk \in Int
  BY <1>2 DEF Junk
<1>4. esc \in Nat
  BY <1>1, EscapesType
<1>5. data \in Seq(Int) /\ Len(data) = i
  BY <1>1, DataType
<1>6. chars \in Int
  BY <1>2, <1>4
<1>7. p = [kind |-> "X", addr |-> addr, n |-> IF i < todo THEN i ELSE todo, sent |-> i,
           body |-> fill \o data, chars |-> chars, cnt |-> chars - 4]
  BY DEF BinaryPacket
<1> HIDE DEF stray, data, chars
<1>8. fill \in Seq(Int) /\ (stray >= 0 => Len(fill) = stray) /\ (stray <= 0 => fill = << >>)
  BY <1>3, FillType
<1> HIDE DEF fill
<1>9. fill \o data \in Seq(Int) /\ Len(fill \o data) = Len(fill) + i
  BY <1>5, <1>8, ConcatProperties
<1>10. Len(fill \o data) = i => fill \o data = data
  <2> SUFFICES ASSUME Len(fill \o data) = i PROVE fill \o data = data
    OBVIOUS
  <2>1. Len(fill) = 0
    BY <1>8, <1>9
  <2>2. fill = << >>
    BY <1>8, <2>1
  <2> QED BY <1>5, <2>2
<1> QED BY <1>6, <1>7, <1>9, <1>10 DEF data, IsBinary, Packets

-----------------------------------------------------------------------------
(* Reads and packets.                                                      *)

LEMMA ReadInit == Init => ReadInv
<1> SUFFICES ASSUME Init PROVE ReadInv
  OBVIOUS
<1> USE DEF Init
<1>1. Shape
  BY MemoryAssumption DEF Shape, Packets, NoPacket, NoAnswer, Mem
<1>2. Progress
  BY DEF Progress, Called, Sent
<1>3. LengthReset
  BY DEF LengthReset
<1>4. Reading
  BY DEF Reading
<1> QED BY <1>1, <1>2, <1>3, <1>4 DEF ReadInv

LEMMA ReadUnchanged == ReadInv /\ UNCHANGED vars => ReadInv'
<1> SUFFICES ASSUME ReadInv, UNCHANGED vars PROVE ReadInv'
  OBVIOUS
<1> USE DEF vars
<1>1. Shape'
  BY DEF ReadInv, Shape, Mem
<1>2. Progress'
  BY DEF ReadInv, Progress, Called, Sent, Counters, InFlight, Data
<1>3. LengthReset'
  BY DEF ReadInv, LengthReset, Sent, Quits
<1>4. Reading'
  BY DEF ReadInv, Reading, Called
<1> QED BY <1>1, <1>2, <1>3, <1>4 DEF ReadInv

LEMMA StartWriteStep ==
  ASSUME ReadInv, NEW a \in Addrs, NEW len \in Lens, NEW ws \in WriteSizes,
         NEW special \in Specials, StartWrite(a, len, ws, special)
  PROVE  ReadInv'
<1> USE DEF StartWrite, conn, blen
<1>1. a \in Int /\ len \in Nat /\ len <= MaskSpace /\ ws \in Nat /\ len \in Int
  BY MemoryAssumption
<1>2. WriteRoom(ws, a, len) \in Int
  BY <1>1, RoomType DEF ReadInv
<1>3. Shape'
  BY <1>1, <1>2 DEF ReadInv, Shape, Packets, Mem, NoPacket, NoAnswer
<1>4. Progress'
  BY <1>1 DEF Progress, Called, Sent, Counters
<1>5. LengthReset'
  BY DEF ReadInv, LengthReset, Sent, Quits
<1>6. Reading'
  BY DEF Reading
<1> QED BY <1>3, <1>4, <1>5, <1>6 DEF ReadInv

LEMMA StartReadStep ==
  ASSUME ReadInv, NEW a \in Addrs, NEW len \in Lens, NEW ws \in WriteSizes, StartRead(a, len, ws)
  PROVE  ReadInv'
<1> USE DEF StartRead, conn, blen
<1>1. a \in Int /\ len \in Nat /\ len <= MaskSpace /\ ws \in Nat
  BY MemoryAssumption
<1>2. Limit(ws) \in Nat
  BY <1>1, LimitType DEF ReadInv
<1>3. Shape'
  BY <1>1, <1>2 DEF ReadInv, Shape, Packets, Mem, NoPacket, NoAnswer
<1>4. Progress'
  BY <1>1 DEF Progress, Called, Sent, Counters
<1>5. LengthReset'
  BY DEF ReadInv, LengthReset, Sent, Quits
<1>6. Reading'
  <2>1. /\ buf' = << >> /\ call'.pos = 0 /\ call'.ret = -1 /\ call'.pc = "send"
        /\ call'.orig = call'.total /\ call'.max >= 0
    BY <1>2
  <2>2. [k \in 1..0 |-> (call'.start + k - 1) % MaskSpace] = << >>
    OBVIOUS
  <2> QED BY <2>1, <2>2 DEF Reading
<1> QED BY <1>3, <1>4, <1>5, <1>6 DEF ReadInv

\* The three kinds of packets are the next ones of their transfer.
LEMMA SendBinaryStep ==
  ASSUME ReadInv, SendBinary
  PROVE  ReadInv'
<1> USE DEF SendBinary, conn
<1> DEFINE addr == remote_address_masked(call.addr)
           todo == Todo(call.max)
           i == BinaryCount(todo)
           p == BinaryPacket(addr, todo, i)
<1>1. Shape
  BY DEF ReadInv
<1>2. call.addr \in Int /\ call.max \in Int /\ call.left \in Nat /\ call.pos \in Nat
  BY <1>1 DEF Shape
<1>3. addr \in 0..(MaskSpace - 1) /\ addr % MaskSpace = call.addr % MaskSpace
  BY <1>2, Masked
<1>4. addr \in Int
  BY <1>3, MemoryAssumption
<1>5. todo \in Int /\ todo <= call.left
  BY <1>2 DEF Todo, Least
<1> HIDE DEF todo, addr
<1>6. i \in Nat /\ (todo > 0 => i <= todo) /\ (todo <= 0 => i = 0)
  BY <1>1, <1>5, CountRange
<1> HIDE DEF i
<1>7. IsBinary(p, addr, i)
  <2>1. p = BinaryPacket(addr, todo, i)
    OBVIOUS
  <2> HIDE DEF p
  <2> QED BY <1>1, <1>4, <1>5, <1>6, <2>1, BinaryPacketType
<1>8. /\ pkt' = p /\ remote_binary_length' = p.cnt
      /\ call' = [call EXCEPT !.pc = "stub", !.addr = addr]
  BY DEF addr, todo, i
<1> HIDE DEF p
<1>9. i <= call.left
  BY <1>2, <1>5, <1>6
<1>10. Shape'
  BY <1>1, <1>4, <1>7, <1>8 DEF Shape, Mem, IsBinary, Packets
<1>11. Progress'
  <2>1. /\ call'.pc = "stub" /\ call'.op = "write" /\ call'.addr = addr /\ call'.pos = call.pos
        /\ call'.left = call.left /\ call'.total = call.total /\ call'.start = call.start
        /\ call'.ret = call.ret
    BY <1>1, <1>8 DEF Shape
  <2>2. call.ret = -1 /\ Counters
    BY DEF ReadInv, Progress, Called
  <2>3. Counters'
    BY <1>3, <2>1, <2>2 DEF Counters
  <2>4. InFlight'
    BY <1>3, <1>7, <1>8, <1>9, <2>1 DEF InFlight, Data, IsBinary
  <2> QED BY <2>1, <2>2, <2>3, <2>4 DEF Progress, Called
<1>12. LengthReset'
  BY <1>1, <1>7, <1>8 DEF LengthReset, Sent, Shape, IsBinary
<1>13. Reading'
  BY <1>1, <1>8 DEF Reading, Shape
<1> QED BY <1>10, <1>11, <1>12, <1>13 DEF ReadInv
LEMMA SendHexStep ==
  ASSUME ReadInv, SendHex
  PROVE  ReadInv'
<1> USE DEF SendHex, conn
<1> DEFINE addr == remote_address_masked(call.addr)
           half == call.max \div 2
           todo == Todo(half)
           i == IF todo < 0 THEN 0 ELSE todo
           chars == 2 + hexnumlen(addr) + 1 + hexnumlen(todo) + 1 + 2 * i + 3
           p == [kind |-> "M", addr |-> addr, n |-> todo, body |-> Data(call.pos, i), sent |-> i,
                 chars |-> chars, cnt |-> Count(chars - 4)]
<1>1. Shape
  BY DEF ReadInv
<1>2. call.addr \in Int /\ call.max \in Int /\ call.left \in Nat /\ call.pos \in Nat
  BY <1>1 DEF Shape
<1>3. addr \in 0..(MaskSpace - 1) /\ addr % MaskSpace = call.addr % MaskSpace
  BY <1>2, Masked
<1>4. addr \in Int /\ half \in Int
  BY <1>2, <1>3, MemoryAssumption
<1> HIDE DEF half, addr
<1>5. todo \in Int /\ todo <= call.left
  BY <1>2, <1>4 DEF Todo, Least
<1> HIDE DEF todo
<1>6. i \in Nat /\ (i = todo \/ (todo < 0 /\ i = 0)) /\ i <= call.left
  BY <1>2, <1>5
<1> HIDE DEF i
<1>7. chars \in Int
  BY <1>4, <1>5, <1>6, HexLen
<1> HIDE DEF chars
<1>8. Count(chars - 4) = chars - 4
  BY DEF Count
<1>9. Data(call.pos, i) \in Seq(Int)
  BY <1>2, <1>6, DataType
<1>10. pkt' = p /\ call' = [call EXCEPT !.pc = "stub", !.addr = addr]
  BY DEF addr, half, todo, i, chars
<1>11. Shape'
  <2>1. p \in Packets
    BY <1>4, <1>5, <1>6, <1>7, <1>8, <1>9 DEF Packets
  <2> HIDE DEF p
  <2> QED BY <1>1, <1>4, <1>10, <2>1 DEF Shape, Mem, blen
<1>12. Progress'
  <2>1. /\ call'.pc = "stub" /\ call'.op = "write" /\ call'.addr = addr /\ call'.pos = call.pos
        /\ call'.left = call.left /\ call'.total = call.total /\ call'.start = call.start
        /\ call'.ret = call.ret
    BY <1>1, <1>10 DEF Shape
  <2>2. call.ret = -1 /\ Counters
    BY DEF ReadInv, Progress, Called
  <2>3. Counters'
    BY <1>3, <2>1, <2>2 DEF Counters
  <2>4. InFlight'
    BY <1>3, <1>6, <1>10, <2>1 DEF InFlight, Data
  <2> QED BY <2>1, <2>2, <2>3, <2>4 DEF Progress, Called
<1>13. LengthReset'
  <2>1. call'.pc = "stub" /\ pkt'.cnt = pkt'.chars - 4
    BY <1>1, <1>8, <1>10 DEF Shape
  <2> QED BY <2>1 DEF ReadInv, LengthReset, Sent, Quits, blen
<1>14. Reading'
  BY <1>1, <1>10 DEF Reading, Shape
<1> QED BY <1>11, <1>12, <1>13, <1>14 DEF ReadInv

LEMMA SendReadStep ==
  ASSUME ReadInv, SendRead
  PROVE  ReadInv'
<1> USE DEF SendRead, conn
<1> DEFINE addr == remote_address_masked(call.addr)
           half == call.max \div 2
           todo == Todo(half)
           chars == 2 + hexnumlen(addr) + 1 + hexnumlen(todo) + 3
           p == [kind |-> "m", addr |-> addr, n |-> todo, body |-> << >>, sent |-> todo,
                 chars |-> chars, cnt |-> Count(chars - 4)]
<1>1. Shape
  BY DEF ReadInv
<1>2. call.addr \in Int /\ call.max \in Nat /\ call.left \in Nat /\ call.pos \in Nat
  BY <1>1 DEF Shape, ReadInv, Reading, Called
<1>3. addr \in 0..(MaskSpace - 1) /\ addr % MaskSpace = call.addr % MaskSpace
  BY <1>2, Masked
<1>4. addr \in Int /\ half \in Nat
  <2> HIDE DEF addr
  <2>1. MaskSpace \in Nat
    BY MemoryAssumption
  <2>2. addr \in Int
    BY <1>3, <2>1
  <2>3. half \in Nat
    BY <1>2
  <2> QED BY <2>2, <2>3
<1> HIDE DEF half, addr
<1>5. todo \in Nat /\ todo <= call.left
  BY <1>2, <1>4 DEF Todo, Least
<1> HIDE DEF todo
<1>7. chars \in Int
  BY <1>4, <1>5, HexLen
<1> HIDE DEF chars
<1>8. ~Quits => Count(chars - 4) = chars - 4
  BY DEF Count, blen, ReadInv, LengthReset, Sent
<1>9. Count(chars - 4) \in Int
  <2> HIDE DEF SendRead, p
  <2>1. Count(chars - 4) = remote_binary_length \/ Count(chars - 4) = chars - 4
    BY DEF Count, blen
  <2>2. remote_binary_length \in Int
    BY <1>1 DEF Shape
  <2>3. chars - 4 \in Int
    BY <1>7
  <2> QED BY <2>1, <2>2, <2>3
<1>10. pkt' = p /\ call' = [call EXCEPT !.pc = "stub", !.addr = addr]
  BY DEF addr, half, todo, chars
<1>11. Shape'
  <2>1. p \in Packets
    BY <1>4, <1>5, <1>7, <1>9 DEF Packets
  <2> HIDE DEF p
  <2> QED BY <1>1, <1>4, <1>10, <2>1 DEF Shape, Mem, blen
<1>12. Progress'
  <2>1. /\ call'.pc = "stub" /\ call'.op = "read" /\ call'.addr = addr /\ call'.pos = call.pos
        /\ call'.left = call.left /\ call'.total = call.total /\ call'.start = call.start
        /\ call'.ret = call.ret
    BY <1>1, <1>10 DEF Shape
  <2>2. call.ret = -1 /\ Counters
    BY DEF ReadInv, Progress, Called
  <2>3. Counters'
    BY <1>3, <2>1, <2>2 DEF Counters
  <2>4. InFlight'
    BY <1>3, <1>5, <1>10, <2>1 DEF InFlight
  <2> QED BY <2>1, <2>2, <2>3, <2>4 DEF Progress, Called
<1>13. LengthReset'
  <2>1. call'.pc = "stub" /\ (~Quits => pkt'.cnt = pkt'.chars - 4)
    BY <1>1, <1>8, <1>10 DEF Shape
  <2> QED BY <2>1 DEF ReadInv, LengthReset, Sent, Quits, blen
<1>14. Reading'
  BY <1>1, <1>10 DEF ReadInv, Reading, Shape, Called
<1> QED BY <1>11, <1>12, <1>13, <1>14 DEF ReadInv
\* Memory stays a memory.
LEMMA StoredType ==
  ASSUME Shape, InFlight, call.op = "write", NEW k \in Int, k <= pkt.n
  PROVE  Stored(k) \in Mem
<1> SUFFICES ASSUME NEW x \in 0..(MaskSpace - 1), (x - pkt.addr) % MaskSpace < k
             PROVE  pkt.body[((x - pkt.addr) % MaskSpace) + 1] \in Int
  BY DEF Stored, Shape, Mem
<1> DEFINE y == x - pkt.addr
           d == y % MaskSpace
<1>1. y \in Int /\ d < k /\ pkt.n \in Int /\ pkt.sent \in Nat /\ pkt.body \in Seq(Int)
  <2>1. pkt.addr \in Int /\ pkt.n \in Int /\ pkt.sent \in Nat /\ pkt.body \in Seq(Int)
    BY DEF Shape, Packets
  <2>2. x \in Int
    BY MemoryAssumption
  <2> QED BY <2>1, <2>2
<1> HIDE DEF y
<1>2. d \in 0..(MaskSpace - 1)
  BY <1>1, MemoryAssumption, ModDef
<1>3. pkt.n <= pkt.sent /\ pkt.sent <= Len(pkt.body)
  BY <1>1 DEF InFlight
<1> HIDE DEF d
<1>4. d + 1 \in 1..Len(pkt.body)
  BY <1>1, <1>2, <1>3, MemoryAssumption
<1> QED BY <1>1, <1>4 DEF d, y

\* The packet under way stays what it is until its reply has been dealt with.
LEMMA ReplyStep ==
  ASSUME ReadInv, call.pc = "stub", NEW r \in {"none", "OK", "E", "empty", "timeout", "data"},
         NEW n \in Int, Reply(r, n), UNCHANGED <<conn, blen, pkt, buf>>, mem' \in Mem,
         (call.op = "read" /\ r = "data") => n \in 0..pkt.n
  PROVE  ReadInv'
<1> USE DEF Reply, conn, blen
<1>1. Shape
  BY DEF ReadInv
<1>2. /\ call' = [call EXCEPT !.pc = "reply"] /\ reply' = [is |-> r, n |-> n]
      /\ call'.pc = "reply" /\ call'.op = call.op /\ call'.addr = call.addr
      /\ call'.pos = call.pos /\ call'.left = call.left /\ call'.total = call.total
      /\ call'.start = call.start /\ call'.ret = call.ret /\ call'.orig = call.orig
      /\ call'.max = call.max
  BY <1>1 DEF Shape
<1>3. Shape'
  <2>1. reply' \in [is : {"none", "OK", "E", "empty", "timeout", "data"}, n : Int]
    BY <1>2
  <2> QED BY <1>1, <1>2, <2>1 DEF Shape
<1>4. Progress'
  <2>1. call.op # "none" /\ call.ret = -1 /\ Counters /\ InFlight
    BY DEF ReadInv, Progress, Called, Sent
  <2>2. Counters' /\ InFlight'
    BY <1>2, <2>1 DEF Counters, InFlight, Data
  <2> QED BY <1>2, <2>1, <2>2 DEF Progress
<1>5. LengthReset'
  BY <1>2 DEF ReadInv, LengthReset, Sent, Quits
<1>6. Reading'
  BY <1>1, <1>2 DEF ReadInv, Reading, Called
<1> QED BY <1>3, <1>4, <1>5, <1>6 DEF ReadInv

LEMMA StubWritesStep ==
  ASSUME ReadInv, StubWrites
  PROVE  ReadInv'
<1>1. Shape /\ InFlight /\ call.pc = "stub" /\ mem \in Mem /\ pkt.n \in Int
  BY DEF ReadInv, Progress, Sent, StubWrites, Shape, Packets
<1>2. call.op = "write"
  BY <1>1 DEF StubWrites, InFlight, Shape
<1>3. \A k \in Int : k <= pkt.n => Stored(k) \in Mem
  BY <1>1, <1>2, StoredType
<1>4. PICK r \in {"OK", "E", "empty"} : Reply(r, 0) /\ mem' \in Mem
  BY <1>1, <1>3 DEF StubWrites
<1>5. UNCHANGED <<conn, blen, pkt, buf>>
  BY DEF StubWrites
<1> QED BY <1>1, <1>2, <1>4, <1>5, ReplyStep

LEMMA StubReadsStep ==
  ASSUME ReadInv, StubReads
  PROVE  ReadInv'
<1>1. InFlight /\ call.pc = "stub" /\ mem \in Mem /\ pkt.n \in Int
  BY DEF ReadInv, Progress, Sent, StubReads, Shape, Packets
<1>2. call.op = "read" /\ pkt.n >= 0
  BY <1>1 DEF StubReads, InFlight, ReadInv, Shape
<1>3. /\ UNCHANGED <<conn, blen, pkt, buf>> /\ mem' \in Mem
      /\ (\E k \in 0..pkt.n : Reply("data", k)) \/ Reply("E", 0)
  BY <1>1, <1>2 DEF StubReads
<1>4. CASE Reply("E", 0)
  BY <1>1, <1>3, <1>4, ReplyStep
<1>5. ASSUME NEW k \in 0..pkt.n, Reply("data", k) PROVE ReadInv'
  <2>1. k \in Int
    BY <1>1
  <2> QED BY <1>1, <1>3, <1>5, <2>1, ReplyStep
<1> QED BY <1>3, <1>4, <1>5

LEMMA UnheardType ==
  ASSUME ReadInv, call.pc = "stub", UNCHANGED mem \/ Unheard
  PROVE  mem' \in Mem
<1>1. Shape /\ InFlight /\ mem \in Mem /\ pkt.n \in Int
  BY DEF ReadInv, Progress, Sent, Shape, Packets
<1>2. CASE UNCHANGED mem
  BY <1>1, <1>2
<1>3. CASE Unheard
  <2>1. call.op = "write"
    BY <1>1, <1>3 DEF Unheard, InFlight, Shape
  <2> QED BY <1>1, <1>3, <2>1, StoredType DEF Unheard
<1> QED BY <1>2, <1>3

LEMMA NoReplyStep ==
  ASSUME ReadInv, NoReply
  PROVE  ReadInv'
<1>1. call.pc = "stub" /\ Reply("timeout", 0) /\ UNCHANGED <<conn, blen, pkt, buf>>
  BY DEF NoReply
<1>2. mem' \in Mem
  BY <1>1, UnheardType DEF NoReply
<1> QED BY <1>1, <1>2, ReplyStep

\* The transfer returns, and what it returns is true of a read.
LEMMA ReturnStep ==
  ASSUME ReadInv, NEW n \in Int, Return(n), UNCHANGED <<conn, pkt, reply>>, mem' \in Mem,
         buf' \in Seq(Int), remote_binary_length' \in Int,
         ~Quits => remote_binary_length' = -1,
         call.op = "read" =>
           /\ buf' = [k \in 1..Len(buf') |-> (call.start + k - 1) % MaskSpace]
           /\ n > 0 => n = Len(buf')
  PROVE  ReadInv'
<1> USE DEF Return, conn
<1>1. Shape
  BY DEF ReadInv
<1>2. /\ call'.pc = "idle" /\ call'.op = call.op /\ call'.start = call.start /\ call'.ret = n
  BY <1>1 DEF Shape
<1>3. Shape'
  BY <1>1 DEF Shape
<1>4. Progress'
  BY <1>2 DEF Progress, Called, Sent
<1>5. LengthReset'
  BY <1>2 DEF LengthReset, Quits
<1>6. Reading'
  BY <1>2 DEF Reading, Called
<1> QED BY <1>3, <1>4, <1>5, <1>6 DEF ReadInv

\* The transfer goes on behind the packet.
LEMMA AdvanceStep ==
  ASSUME ReadInv, call.pc = "reply", Advance, UNCHANGED <<conn, mem, pkt, reply>>,
         buf' \in Seq(Int), remote_binary_length' \in Int,
         ~Quits => remote_binary_length' = -1,
         call.op = "read" =>
           /\ buf' = [k \in 1..Len(buf') |-> (call.start + k - 1) % MaskSpace]
           /\ Len(buf') = call.pos + pkt.sent
  PROVE  ReadInv'
<1> USE DEF Advance, conn
<1> DEFINE next == call.addr + pkt.sent
<1>1. Shape /\ InFlight /\ Counters /\ call.ret = -1
  BY DEF ReadInv, Progress, Called, Sent
<1>2. /\ call'.pc = "send" /\ call'.op = call.op /\ call'.addr = next % CoreSpace
      /\ call'.pos = call.pos + pkt.sent /\ call'.left = call.left - pkt.sent
      /\ call'.total = call.total /\ call'.start = call.start /\ call'.ret = call.ret
      /\ call'.orig = call.orig /\ call'.max = call.max
  BY <1>1 DEF Shape
<1>3. /\ pkt.sent \in Nat /\ call.addr \in Int /\ call.pos \in Nat /\ call.left \in Nat
      /\ pkt.sent <= call.left /\ call.start \in Int /\ call.op # "none"
  BY <1>1 DEF Shape, Packets, InFlight
<1>4. next \in Int /\ next % CoreSpace \in Int
  <2>1. next \in Int
    BY <1>3
  <2> HIDE DEF next
  <2> QED BY <2>1, MemoryAssumption, ModDef
<1>5. Shape'
  <2>1. call' = [call EXCEPT !.pc = "send", !.addr = next % CoreSpace, !.pos = call.pos + pkt.sent,
                             !.left = call.left - pkt.sent]
    OBVIOUS
  <2>2. call.pos + pkt.sent \in Nat /\ call.left - pkt.sent \in Nat
    BY <1>3
  <2> HIDE DEF next, Advance
  <2> QED BY <1>1, <1>4, <2>1, <2>2 DEF Shape
<1>6. Counters'
  <2> DEFINE here == call.start + call.pos
  <2>1. here \in Int /\ here + pkt.sent = call.start + call'.pos
    BY <1>2, <1>3
  <2>2. call.addr % MaskSpace = here % MaskSpace
    BY <1>1 DEF Counters
  <2> HIDE DEF here
  <2>3. next % MaskSpace = (here + pkt.sent) % MaskSpace
    <3>1. \A n \in Int : (call.addr + n) % MaskSpace = (here + n) % MaskSpace
      BY <1>3, <2>1, <2>2, MemoryAssumption, ModShift
    <3>2. pkt.sent \in Int
      BY <1>3
    <3> QED BY <3>1, <3>2
  <2>4. (next % CoreSpace) % MaskSpace = next % MaskSpace
    BY <1>4, MemoryAssumption, ModMod
  <2> HIDE DEF next
  <2> QED BY <1>1, <1>2, <1>3, <2>1, <2>3, <2>4 DEF Counters
<1>7. Progress'
  BY <1>1, <1>2, <1>3, <1>6 DEF Progress, Called, Sent
<1>8. LengthReset'
  BY <1>2 DEF LengthReset, Quits
<1>9. Reading'
  BY <1>1, <1>2 DEF ReadInv, Reading, Called
<1> QED BY <1>5, <1>7, <1>8, <1>9 DEF ReadInv
LEMMA SeqIsFunction == \A s \in Seq(Int) : s = [k \in 1..Len(s) |-> s[k]]
  OBVIOUS

LEMMA FunctionIsSeq ==
  ASSUME NEW n \in Nat, NEW s, s = [k \in 1..n |-> s[k]], \A k \in 1..n : s[k] \in Int
  PROVE  s \in Seq(Int) /\ Len(s) = n
OBVIOUS

\* Byte i of the whole is byte i - pos of what comes after the first pos.
LEMMA Offset ==
  ASSUME NEW pos \in Nat, NEW n \in Nat, NEW start \in Int, NEW i \in 1..(pos + n), ~(i <= pos)
  PROVE  i - pos \in 1..n /\ (start + pos) + ((i - pos) - 1) = start + i - 1
OBVIOUS

\* The bytes of a reply are the next ones of the read.
LEMMA BufferGrows ==
  ASSUME ReadInv, Sent, call.op = "read", NEW n \in Nat, buf' = buf \o Received(n)
  PROVE  /\ buf' \in Seq(Int) /\ Len(buf') = call.pos + n
         /\ buf' = [k \in 1..Len(buf') |-> (call.start + k - 1) % MaskSpace]
<1>1. /\ pkt.addr = call.addr /\ call.addr % MaskSpace = (call.start + call.pos) % MaskSpace
      /\ call.pos = Len(buf) /\ buf \in Seq(Int) /\ call.start \in Int /\ call.pos \in Nat
      /\ buf = [k \in 1..Len(buf) |-> (call.start + k - 1) % MaskSpace] /\ call.addr \in Int
  BY DEF ReadInv, Progress, Called, Sent, InFlight, Counters, Reading, Shape
<1> DEFINE here == call.start + call.pos
           got == Received(n)
<1>2. here \in Int
  BY <1>1
<1>3. \A k \in 1..n : got[k] = (here + (k - 1)) % MaskSpace
  <2> TAKE k \in 1..n
  <2>1. \A j \in Int : (call.addr + j) % MaskSpace = (here + j) % MaskSpace
    <3>1. call.addr % MaskSpace = here % MaskSpace /\ call.addr \in Int
      BY <1>1
    <3> HIDE DEF here
    <3>2. MaskSpace \in Nat \ {0}
      BY MemoryAssumption
    <3> QED BY <1>2, <3>1, <3>2, ModShift, Zenon
  <2>2. got[k] = (call.addr + k - 1) % MaskSpace
    BY <1>1 DEF Received
  <2>3. k - 1 \in Int /\ call.addr + k - 1 = call.addr + (k - 1)
    BY <1>1
  <2> QED BY <2>1, <2>2, <2>3
<1>4. \A k \in 1..n : got[k] \in Int
  <2> TAKE k \in 1..n
  <2> DEFINE a == here + (k - 1)
  <2>1. a \in Int
    BY <1>2
  <2>2. a % MaskSpace \in 0..(MaskSpace - 1)
    <3> HIDE DEF a
    <3> QED BY <2>1, MemoryAssumption, ModDef
  <2>3. a % MaskSpace \in Int
    BY <2>2, MemoryAssumption
  <2> QED BY <1>3, <2>3
<1>5. got \in Seq(Int) /\ Len(got) = n
  <2>1. got = [k \in 1..n |-> got[k]]
    BY DEF Received
  <2> HIDE DEF got
  <2> QED BY <1>4, <2>1, FunctionIsSeq
<1> HIDE DEF got
<1>6. /\ buf' \in Seq(Int) /\ Len(buf') = call.pos + n
      /\ \A i \in 1..(call.pos + n) :
           buf'[i] = IF i <= call.pos THEN buf[i] ELSE got[i - call.pos]
  <2>1. buf' = buf \o got
    BY DEF got
  <2>2. buf \in Seq(Int) /\ Len(buf) = call.pos
    BY <1>1
  <2>3. /\ buf \o got \in Seq(Int) /\ Len(buf \o got) = Len(buf) + Len(got)
        /\ \A i \in 1..(Len(buf) + Len(got)) :
             (buf \o got)[i] = IF i <= Len(buf) THEN buf[i] ELSE got[i - Len(buf)]
    BY <1>5, <2>2, ConcatProperties
  <2> QED BY <1>5, <2>1, <2>2, <2>3
<1>7. ASSUME NEW i \in 1..(call.pos + n) PROVE buf'[i] = (call.start + i - 1) % MaskSpace
  <2>1. CASE i <= call.pos
    <3>1. i \in 1..Len(buf)
      BY <1>1, <2>1
    <3>2. buf[i] = (call.start + i - 1) % MaskSpace
      BY <1>1, <3>1
    <3> QED BY <1>6, <2>1, <3>2
  <2>2. CASE ~(i <= call.pos)
    <3>1. i - call.pos \in 1..n /\ here + ((i - call.pos) - 1) = call.start + i - 1
      <4>1. call.pos \in Nat /\ call.start \in Int
        BY <1>1
      <4> QED BY <2>2, <4>1, Offset
    <3> QED BY <1>3, <1>6, <2>2, <3>1
  <2> QED BY <2>1, <2>2
<1>8. buf' = [k \in 1..Len(buf') |-> buf'[k]]
  BY <1>6, SeqIsFunction
<1> DEFINE want == [k \in 1..Len(buf') |-> (call.start + k - 1) % MaskSpace]
<1>9. \A k \in 1..Len(buf') : buf'[k] = want[k]
  BY <1>6, <1>7
<1>10. buf' = want
  BY <1>8, <1>9
<1> QED BY <1>6, <1>10

\* Every other step of a transfer.
LEMMA LoopStep ==
  ASSUME ReadInv,
         TransferDone \/ TransferQuits \/ WriteRefused \/ WriteFails \/ WriteGoesOn
           \/ ReadFails \/ ReadQuits \/ ReadShort \/ ReadGoesOn
  PROVE  ReadInv'
<1>1. /\ Shape /\ mem \in Mem /\ buf \in Seq(Int) /\ remote_binary_length \in Int
      /\ call.orig \in Nat /\ call.left \in Nat /\ call.pos \in Nat /\ call.total \in Nat
      /\ pkt.n \in Int /\ pkt.sent \in Nat /\ reply.n \in Int
  BY DEF ReadInv, Shape, Packets
<1>2. CASE TransferDone
  <2>1. /\ Return(call.orig) /\ UNCHANGED <<conn, pkt, reply>>
        /\ mem' \in Mem /\ buf' = buf /\ remote_binary_length' = remote_binary_length
        /\ call.orig \in Int
    BY <1>1, <1>2 DEF TransferDone, blen
  <2>2. ~Quits => remote_binary_length = -1
    BY <1>2 DEF TransferDone, ReadInv, LengthReset, Sent
  <2>3. call.op = "read" =>
          /\ buf' = [k \in 1..Len(buf') |-> (call.start + k - 1) % MaskSpace]
          /\ call.orig > 0 => call.orig = Len(buf')
    BY <1>1, <1>2, <2>1 DEF TransferDone, ReadInv, Reading, Called, Progress, Counters
  <2> QED BY <1>1, <2>1, <2>2, <2>3, ReturnStep
<1>3. CASE TransferQuits
  <2>1. /\ Return(-1) /\ UNCHANGED <<conn, pkt, reply>> /\ call.pc = "stub"
        /\ buf' = buf /\ remote_binary_length' = remote_binary_length /\ Quits
    BY <1>3 DEF TransferQuits, blen
  <2>2. mem' \in Mem
    BY <1>3, <2>1, UnheardType DEF TransferQuits
  <2>3. call.op = "read" => buf' = [k \in 1..Len(buf') |-> (call.start + k - 1) % MaskSpace]
    BY <2>1 DEF ReadInv, Reading
  <2> QED BY <1>1, <2>1, <2>2, <2>3, ReturnStep
<1>4. CASE WriteRefused
  <2> DEFINE max == WriteRoom(call.ws, call.addr, call.left)
  <2>1. max \in Int
    <3>1. call.ws \in Nat /\ call.addr \in Int /\ call.left \in Int
      BY <1>1 DEF Shape
    <3> QED BY <1>1, <3>1, RoomType
  <2>2. call' = [call EXCEPT !.pc = "send", !.orig = call.left, !.max = max]
    BY <1>4 DEF WriteRefused
  <2> HIDE DEF max
  <2>0. /\ remote_binary_download' = FALSE /\ remote_binary_length' = -1 /\ call.op = "write"
        /\ UNCHANGED <<remote_register_buf_size, stub, mem, pkt, reply, buf, world>>
        /\ call.pc = "reply"
    BY <1>4 DEF WriteRefused
  <2>3. /\ call'.pc = "send" /\ call'.op = "write" /\ call'.addr = call.addr
        /\ call'.pos = call.pos /\ call'.left = call.left /\ call'.total = call.total
        /\ call'.start = call.start /\ call'.ret = call.ret
    BY <1>1, <2>0, <2>2 DEF Shape
  <2>4. Shape'
    <3>1. call' \in [pc : {"idle", "send", "stub", "reply"}, op : {"none", "write", "read"},
                     start : Int, addr : Int, pos : Nat, left : Nat, orig : Nat, total : Nat,
                     ws : Nat, special : Specials \cup {{}}, max : Int, ret : Int]
      BY <1>1, <2>1, <2>2 DEF Shape
    <3>2. remote_binary_download' \in BOOLEAN
      BY <2>0, Zenon
    <3>3. remote_binary_length' \in Int
      BY <2>0
    <3> QED BY <1>1, <2>0, <3>1, <3>2, <3>3 DEF Shape, Mem
  <2>5. Progress'
    BY <2>0, <2>3 DEF ReadInv, Progress, Called, Sent, Counters
  <2>6. LengthReset'
    BY <2>0, <2>3 DEF LengthReset
  <2>7. Reading'
    BY <2>3 DEF Reading
  <2> QED BY <2>4, <2>5, <2>6, <2>7 DEF ReadInv
<1>5. CASE WriteFails
  <2>1. /\ Return(0) /\ UNCHANGED <<conn, pkt, reply>> /\ mem' = mem /\ buf' = buf
        /\ remote_binary_length' = -1 /\ call.op = "write"
    BY <1>5 DEF WriteFails
  <2> QED BY <1>1, <2>1, ReturnStep
<1>6. CASE WriteGoesOn
  <2>1. /\ call.pc = "reply" /\ Advance /\ UNCHANGED <<conn, mem, pkt, reply>> /\ buf' = buf
        /\ remote_binary_length' = -1 /\ call.op = "write"
    BY <1>6 DEF WriteGoesOn
  <2> QED BY <1>1, <2>1, AdvanceStep
<1>7. CASE ReadFails \/ ReadQuits
  <2>5. PICK n \in {0, -1} : Return(n)
    BY <1>7 DEF ReadFails, ReadQuits
  <2>6. n \in Int /\ ~(n > 0)
    OBVIOUS
  <2>1. /\ mem' = mem /\ buf' = buf /\ remote_binary_length' = remote_binary_length
        /\ call.op = "read" /\ call.pc = "reply"
    BY <1>7 DEF ReadFails, ReadQuits, blen
  <2>2. UNCHANGED <<conn, pkt, reply>>
    BY <1>7 DEF ReadFails, ReadQuits
  <2>3. ~Quits => remote_binary_length = -1
    BY <2>1 DEF ReadInv, LengthReset, Progress, Sent, InFlight
  <2>4. buf' = [k \in 1..Len(buf') |-> (call.start + k - 1) % MaskSpace]
    BY <2>1 DEF ReadInv, Reading
  <2> QED BY <1>1, <2>1, <2>2, <2>3, <2>4, <2>5, <2>6, ReturnStep
<1>8. CASE ReadShort \/ ReadGoesOn
  <2>1. /\ UNCHANGED <<conn, pkt, reply>> /\ mem' = mem /\ buf' = buf \o Received(reply.n)
        /\ remote_binary_length' = remote_binary_length
        /\ call.op = "read" /\ call.pc = "reply" /\ reply.is = "data"
    BY <1>8 DEF ReadShort, ReadGoesOn, blen
  <2>2. ~Quits => remote_binary_length = -1
    BY <2>1 DEF ReadInv, LengthReset, Progress, Sent, InFlight
  <2>3. /\ reply.n \in Nat /\ Sent /\ pkt.n = pkt.sent /\ call.orig = call.total
        /\ call.pos + call.left = call.total
    BY <1>1, <2>1 DEF ReadInv, Reading, Progress, InFlight, Sent, Called, Counters
  <2>4. /\ buf' \in Seq(Int) /\ Len(buf') = call.pos + reply.n
        /\ buf' = [k \in 1..Len(buf') |-> (call.start + k - 1) % MaskSpace]
    BY <2>1, <2>3, BufferGrows
  <2>5. CASE ReadShort
    <3> DEFINE ret == reply.n + (call.orig - call.left)
    <3>1. Return(ret) /\ ret \in Int /\ ret = Len(buf')
      BY <1>1, <2>3, <2>4, <2>5 DEF ReadShort
    <3> HIDE DEF ret
    <3> QED BY <1>1, <2>1, <2>2, <2>4, <3>1, ReturnStep
  <2>6. CASE ReadGoesOn
    <3>1. Advance /\ reply.n = pkt.sent
      BY <2>3, <2>6 DEF ReadGoesOn
    <3> QED BY <1>1, <2>1, <2>2, <2>4, <3>1, AdvanceStep
  <2> QED BY <1>8, <2>5, <2>6
<1> QED BY <1>2, <1>3, <1>4, <1>5, <1>6, <1>7, <1>8

\* The connection changes between transfers.
LEMMA ConnectionStep ==
  ASSUME ReadInv, Connect \/ SetBinaryDownload
  PROVE  ReadInv'
<1>1. Shape /\ call.pc = "idle" /\ UNCHANGED <<blen, mem, call, pkt, reply, buf, world>>
  BY DEF ReadInv, Connect, SetBinaryDownload
<1>2. Shape'
  <2>1. CASE Connect
    <3>1. stub' \in [regs : Nat, x : BOOLEAN]
      <4>1. stub' \in [regs : RegSizes, x : BOOLEAN]
        BY <2>1 DEF Connect
      <4>2. RegSizes \subseteq Nat
        BY MemoryAssumption
      <4> QED BY <4>1, <4>2
    <3>2. remote_register_buf_size' \in Nat
      <4>1. remote_register_buf_size' \in {remote_register_buf_size, stub'.regs, LongTimeout}
        BY <2>1 DEF Connect, FirstReply
      <4> QED BY <1>1, <3>1, <4>1 DEF LongTimeout, Shape
    <3> QED BY <1>1, <2>1, <3>1, <3>2 DEF Shape, Connect, blen
  <2>2. CASE SetBinaryDownload
    BY <1>1, <2>2 DEF Shape, SetBinaryDownload, blen
  <2> QED BY <2>1, <2>2
<1>3. Progress'
  BY <1>1 DEF Progress, Called, Sent
<1>4. LengthReset'
  BY <1>1 DEF ReadInv, LengthReset, Sent, Quits, blen
<1>5. Reading'
  BY <1>1 DEF ReadInv, Reading, Called
<1> QED BY <1>2, <1>3, <1>4, <1>5 DEF ReadInv

LEMMA ReadNext == ReadInv /\ [Next]_vars => ReadInv'
<1> SUFFICES ASSUME ReadInv, [Next]_vars PROVE ReadInv'
  OBVIOUS
<1>1. CASE UNCHANGED vars
  BY <1>1, ReadUnchanged
<1>2. CASE Start
  BY <1>2, StartWriteStep, StartReadStep DEF Start
<1>3. CASE Step
  BY <1>3, SendBinaryStep, SendHexStep, SendReadStep, StubWritesStep, StubReadsStep, NoReplyStep,
     LoopStep DEF Step
<1>4. CASE Connect \/ SetBinaryDownload
  BY <1>4, ConnectionStep
<1> QED BY <1>1, <1>2, <1>3, <1>4 DEF Next

LEMMA ReadAlways == Spec => []ReadInv
<1>1. Init => ReadInv
  BY ReadInit
<1>2. ReadInv /\ [Next]_vars => ReadInv'
  BY ReadNext
<1> QED BY <1>1, <1>2, PTL DEF Spec

\* A read that returns n has put n bytes into the caller's buffer, from consecutive addresses of
\* the target, whatever was lost, refused or abandoned before: for every packet size, address and
\* length (remote_read_bytes).
THEOREM ReadsAreRight == Spec => []ReadsRight
<1>1. ReadInv => ReadsRight
  BY DEF ReadInv, Reading, ReadsRight
<1> QED BY <1>1, ReadAlways, PTL

\* As long as no transfer is abandoned through a quit, putpkt sends every packet as it was made,
\* because remote_binary_length is back to -1 whenever another one is sent (remote_write_bytes,
\* putpkt_binary's use of remote_binary_length).
THEOREM PacketsAreWhole == Spec => []PacketWhole
<1>1. ReadInv => PacketWhole
  BY DEF ReadInv, LengthReset, PacketWhole
<1> QED BY <1>1, ReadAlways, PTL
-----------------------------------------------------------------------------
(* Writes, while length fields keep their digits.                          *)

\* What the stub stores of a packet: at the address at distance s from the transfer's, byte
\* s + 1 of the caller's buffer.
LEMMA StoredAt ==
  ASSUME Shape, Counters, InFlight, call.op = "write",
         pkt.body = Data(call.pos, pkt.sent), NEW k \in 0..pkt.sent,
         NEW x \in 0..(MaskSpace - 1), NEW s, s = (x - call.start) % MaskSpace
  PROVE  Stored(k)[x] = IF s >= call.pos /\ s < call.pos + k THEN s + 1 ELSE mem[x]
<1> DEFINE d == (x - pkt.addr) % MaskSpace
<1>1. /\ call.start \in Int /\ pkt.addr \in Int /\ call.pos \in Nat /\ pkt.sent \in Nat
      /\ call.left \in Nat /\ pkt.addr = call.addr /\ call.total \in Nat /\ mem \in Mem
  BY DEF Shape, Packets, InFlight
<1>2. x \in Int /\ k \in Nat /\ call.pos + k <= MaskSpace
  <2> HIDE DEF d
  <2>1. MaskSpace \in Nat
    BY MemoryAssumption
  <2>2. pkt.sent <= call.left /\ call.total <= MaskSpace /\ call.pos + call.left = call.total
    BY DEF Counters, InFlight
  <2> QED BY <1>1, <2>1, <2>2
<1>3. pkt.addr % MaskSpace = (call.start + call.pos) % MaskSpace
  BY <1>1 DEF Counters
<1>4. /\ d < k <=> (s >= call.pos /\ s < call.pos + k)
      /\ d < k => s = call.pos + d
  <2>1. MaskSpace \in Nat \ {0}
    BY MemoryAssumption
  <2>2. Inside(d, (x - call.start) % MaskSpace, call.pos, k)
    BY <1>1, <1>2, <1>3, <2>1, Window, Zenon
  <2> QED BY <2>2 DEF Inside
<1>5. d \in 0..(MaskSpace - 1)
  <2> DEFINE y == x - pkt.addr
  <2>1. y \in Int
    BY <1>1, <1>2
  <2> HIDE DEF y
  <2>2. y % MaskSpace \in 0..(MaskSpace - 1)
    BY <2>1, MemoryAssumption, ModDef
  <2> QED BY <2>2 DEF y
<1>6. Stored(k)[x] = IF d < k THEN pkt.body[d + 1] ELSE mem[x]
  BY <1>1 DEF Stored, Mem
<1> HIDE DEF d
<1>7. d < k => pkt.body[d + 1] = s + 1
  <2> SUFFICES ASSUME d < k PROVE pkt.body[d + 1] = s + 1
    OBVIOUS
  <2>1. d + 1 \in 1..pkt.sent /\ s = call.pos + d
    BY <1>1, <1>4, <1>5, MemoryAssumption
  <2>2. pkt.body[d + 1] = call.pos + (d + 1)
    BY <2>1 DEF Data
  <2> QED BY <1>1, <1>5, <2>1, <2>2, MemoryAssumption
<1> QED BY <1>4, <1>6, <1>7

LEMMA OwnStored ==
  ASSUME Shape, Counters, InFlight, OnlyOwnBytes, call.op = "write",
         pkt.body = Data(call.pos, pkt.sent), NEW k \in 0..pkt.sent, NEW x \in 0..(MaskSpace - 1),
         Stored(k)[x] # 0
  PROVE  Stored(k)[x] = ((x - call.start) % MaskSpace) + 1
<1> DEFINE s == (x - call.start) % MaskSpace
<1>1. Stored(k)[x] = IF s >= call.pos /\ s < call.pos + k THEN s + 1 ELSE mem[x]
  BY StoredAt
<1>2. DOMAIN mem = 0..(MaskSpace - 1)
  BY DEF Shape, Mem
<1>3. mem[x] # 0 => mem[x] = s + 1
  BY <1>2 DEF OnlyOwnBytes
<1> HIDE DEF s
<1>4. Stored(k)[x] = s + 1
  BY <1>1, <1>3
<1> QED BY <1>4 DEF s

LEMMA FilledStored ==
  ASSUME Shape, Counters, InFlight, call.op = "write", mem = Filled(call.start, call.pos),
         pkt.body = Data(call.pos, pkt.sent), NEW k \in 0..pkt.sent
  PROVE  Stored(k) = Filled(call.start, call.pos + k)
<1>1. /\ call.start \in Int /\ call.pos \in Nat /\ pkt.sent \in Nat
      /\ DOMAIN mem = 0..(MaskSpace - 1)
  BY DEF Shape, Packets, Mem
<1>2. ASSUME NEW x \in 0..(MaskSpace - 1)
      PROVE  Stored(k)[x] = Filled(call.start, call.pos + k)[x]
  <2> DEFINE y == x - call.start
             s == y % MaskSpace
  <2>1. Stored(k)[x] = IF s >= call.pos /\ s < call.pos + k THEN s + 1 ELSE mem[x]
    BY StoredAt
  <2>2. mem[x] = IF s < call.pos THEN s + 1 ELSE 0
    BY DEF Filled
  <2>3. Filled(call.start, call.pos + k)[x] = IF s < call.pos + k THEN s + 1 ELSE 0
    BY DEF Filled
  <2>4. s \in Int
    <3>1. y \in Int
      BY <1>1, MemoryAssumption
    <3> HIDE DEF y
    <3> QED BY <3>1, MemoryAssumption, ModDef
  <2> HIDE DEF s
  <2> QED BY <1>1, <2>1, <2>2, <2>3, <2>4
<1>3. /\ Stored(k) = [x \in 0..(MaskSpace - 1) |-> Stored(k)[x]]
      /\ Filled(call.start, call.pos + k) =
           [x \in 0..(MaskSpace - 1) |-> Filled(call.start, call.pos + k)[x]]
  BY <1>1 DEF Stored, Filled
<1> QED BY <1>2, <1>3

\* The packet that the stub gets has the next bytes of the buffer and nothing else.
LEMMA CleanPacket ==
  ASSUME ReadInv, LengthKept, call.pc = "stub", pkt.kind \in {"M", "X"}
  PROVE  /\ Shape /\ Counters /\ InFlight /\ call.op = "write"
         /\ pkt.body = Data(call.pos, pkt.sent)
<1>1. Shape /\ Counters /\ InFlight
  BY DEF ReadInv, Progress, Called, Sent
<1>2. call.op = "write"
  BY <1>1 DEF InFlight, Shape
<1> QED BY <1>1, <1>2 DEF InFlight, LengthKept

LEMMA OwnNext ==
  ASSUME ReadInv, OnlyOwnBytes, LengthKept, [Next]_vars, ReadInv'
  PROVE  OnlyOwnBytes'
<1>1. DOMAIN mem = 0..(MaskSpace - 1) /\ DOMAIN mem' = 0..(MaskSpace - 1)
  BY DEF ReadInv, Shape, Mem
<1>2. CASE mem' = mem /\ call'.op = call.op /\ call'.start = call.start
  BY <1>2 DEF OnlyOwnBytes
<1>3. CASE Start
  <2>1. mem' = [x \in DOMAIN mem |-> 0]
    BY <1>3 DEF Start, StartWrite, StartRead
  <2> QED BY <1>1, <2>1 DEF OnlyOwnBytes
<1>4. ASSUME NEW k \in 0..pkt.sent, mem' = Stored(k), call'.op = call.op,
             call'.start = call.start, call.pc = "stub", pkt.kind \in {"M", "X"}
      PROVE  OnlyOwnBytes'
  <2>1. \A x \in 0..(MaskSpace - 1) :
          Stored(k)[x] # 0 => Stored(k)[x] = ((x - call.start) % MaskSpace) + 1
    BY <1>4, CleanPacket, OwnStored
  <2> QED BY <1>1, <1>4, <2>1 DEF OnlyOwnBytes
<1>5. pkt.sent \in Nat /\ pkt.n \in Int /\ (call.pc = "stub" => pkt.n <= pkt.sent)
  <2>1. pkt.sent \in Nat /\ pkt.n \in Int
    BY DEF ReadInv, Shape, Packets
  <2>2. call.pc = "stub" => pkt.n = pkt.sent \/ (pkt.n < 0 /\ pkt.sent = 0)
    BY DEF ReadInv, Progress, Sent, InFlight
  <2> QED BY <2>1, <2>2
<1>6. call \in [pc : {"idle", "send", "stub", "reply"}, op : {"none", "write", "read"},
                   start : Int, addr : Int, pos : Nat, left : Nat, orig : Nat, total : Nat,
                   ws : Nat, special : Specials \cup {{}}, max : Int, ret : Int]
  BY DEF ReadInv, Shape
<1>7. CASE StubWrites
  <2>1. /\ call.pc = "stub" /\ pkt.kind \in {"M", "X"} /\ call' = [call EXCEPT !.pc = "reply"]
        /\ mem' = mem \/ \E k \in 0..pkt.n : mem' = Stored(k)
    BY <1>5, <1>7 DEF StubWrites, Reply
  <2>2. call'.op = call.op /\ call'.start = call.start
    BY <1>6, <2>1
  <2>3. ASSUME NEW k \in 0..pkt.n, mem' = Stored(k) PROVE OnlyOwnBytes'
    <3>1. k \in 0..pkt.sent
      BY <1>5, <2>1
    <3> QED BY <1>4, <2>1, <2>2, <2>3, <3>1
  <2> QED BY <1>2, <2>1, <2>2, <2>3
<1>8. CASE NoReply \/ TransferQuits
  <2>1. /\ call.pc = "stub" /\ (mem' = mem \/ Unheard)
        /\ call'.op = call.op /\ call'.start = call.start
    BY <1>6, <1>8 DEF NoReply, TransferQuits, Reply, Return
  <2>2. CASE Unheard
    <3>1. pkt.n \in 0..pkt.sent /\ mem' = Stored(pkt.n) /\ pkt.kind \in {"M", "X"}
      BY <1>5, <2>1, <2>2 DEF Unheard
    <3> QED BY <1>4, <2>1, <3>1
  <2> QED BY <1>2, <2>1, <2>2
<1>9. CASE SendBinary \/ SendHex \/ SendRead \/ TransferDone \/ StubReads \/ WriteRefused
             \/ WriteFails \/ WriteGoesOn \/ ReadFails \/ ReadQuits \/ ReadShort \/ ReadGoesOn
  <2>1. mem' = mem
    BY <1>9 DEF SendBinary, SendHex, SendRead, TransferDone, StubReads, WriteRefused, WriteFails,
                WriteGoesOn, ReadFails, ReadQuits, ReadShort, ReadGoesOn
  <2>2. call'.op = call.op /\ call'.start = call.start
    BY <1>6, <1>9 DEF SendBinary, SendHex, SendRead, TransferDone, StubReads, WriteRefused,
                WriteFails, WriteGoesOn, ReadFails, ReadQuits, ReadShort, ReadGoesOn, Return,
                Reply, Advance
  <2> QED BY <1>2, <2>1, <2>2
<1>10. CASE Connect \/ SetBinaryDownload \/ UNCHANGED vars
  BY <1>2, <1>10 DEF Connect, SetBinaryDownload, vars
<1> QED BY <1>3, <1>7, <1>8, <1>9, <1>10 DEF Next, Step
\* A packet is made: nothing of what the transfer has done changes.
LEMMA WritingSends ==
  ASSUME ReadInv, Writing, SendBinary \/ SendHex \/ SendRead
  PROVE  Writing'
<1>1. /\ call.pc = "send" /\ call'.pc = "stub" /\ call'.op = call.op /\ call'.start = call.start
      /\ call'.pos = call.pos /\ call'.total = call.total /\ call'.orig = call.orig
      /\ call'.ret = call.ret
  BY DEF SendBinary, SendHex, SendRead, ReadInv, Shape
<1>2. UNCHANGED <<mem, stub, remote_binary_download, world>>
  BY DEF SendBinary, SendHex, SendRead, conn
<1>3. Answered' = Answered
  BY <1>2 DEF Answered, Timeouts, Quits
<1> QED BY <1>1, <1>2, <1>3 DEF Writing, Called, Filled

\* The stub answers a packet.
LEMMA WritingStored ==
  ASSUME ReadInv, Writing, LengthKept, StubWrites
  PROVE  Writing'
<1>1. /\ Shape /\ Counters /\ InFlight /\ call.op = "write" /\ call.pc = "stub"
      /\ pkt.body = Data(call.pos, pkt.sent) /\ pkt.kind \in {"M", "X"}
  BY CleanPacket DEF StubWrites
<1>2. /\ call'.pc = "reply" /\ call'.op = call.op /\ call'.start = call.start
      /\ call'.pos = call.pos /\ call'.total = call.total /\ call'.orig = call.orig
      /\ call'.ret = call.ret
  BY <1>1 DEF StubWrites, Reply, Shape
<1>3. UNCHANGED <<stub, remote_binary_download, world, pkt>>
  BY DEF StubWrites, conn
<1>4. Answered' = Answered
  BY <1>3 DEF Answered, Timeouts, Quits
<1> SUFFICES ASSUME Answered PROVE Writing'
  BY <1>4 DEF Writing
<1>5. /\ call.pos \in Nat /\ call.left \in Nat /\ call.total \in Nat /\ pkt.sent \in Nat
      /\ pkt.n \in Int /\ call.pos + pkt.sent <= call.total /\ call.pos <= call.total
      /\ pkt.n = pkt.sent \/ (pkt.n < 0 /\ pkt.sent = 0)
      /\ call.ret = -1
  <2>1. /\ call.pos \in Nat /\ call.left \in Nat /\ call.total \in Nat /\ pkt.sent \in Nat
        /\ pkt.n \in Int
    BY <1>1 DEF Shape, Packets
  <2>2. /\ call.pos + call.left = call.total /\ pkt.sent <= call.left
        /\ pkt.n = pkt.sent \/ (pkt.n < 0 /\ pkt.sent = 0)
    BY <1>1 DEF InFlight, Counters
  <2>3. call.ret = -1
    BY <1>1 DEF ReadInv, Progress, Called
  <2> QED BY <2>1, <2>2, <2>3
<1>6. /\ mem = Filled(call.start, call.pos) /\ call.orig = call.total
      /\ (remote_binary_download /\ ~stub.x) => call.pos = 0
  BY <1>1 DEF Writing, Called
<1>7. \A k \in 0..pkt.sent : Stored(k) = Filled(call.start, call.pos + k)
  BY <1>1, <1>6, FilledStored
<1>8. \/ reply'.is = "empty" /\ mem' = mem /\ pkt.kind = "X" /\ ~stub.x
      \/ reply'.is = "OK" /\ mem' = Filled(call.start, call.pos + pkt.sent) /\ (pkt.kind = "X" => stub.x)
      \/ reply'.is = "E" /\ \E k \in 0..pkt.sent : mem' = Filled(call.start, call.pos + k)
  <2>1. CASE pkt.kind = "X" /\ ~stub.x /\ Reply("empty", 0) /\ UNCHANGED mem
    BY <2>1 DEF Reply
  <2>2. CASE /\ pkt.kind = "X" => stub.x
             /\ pkt.n >= 0 /\ mem' = Stored(pkt.n) /\ Reply("OK", 0)
    <3>1. pkt.n = pkt.sent /\ pkt.sent \in 0..pkt.sent
      BY <1>5, <2>2
    <3> QED BY <1>7, <2>2, <3>1 DEF Reply
  <2>3. CASE /\ pkt.kind = "X" => stub.x
             /\ pkt.n < 0 /\ UNCHANGED mem /\ (Reply("OK", 0) \/ (Errors /\ Reply("E", 0)))
    <3>1. pkt.sent = 0 /\ call.pos + pkt.sent = call.pos /\ 0 \in 0..pkt.sent
          /\ call.pos + 0 = call.pos
      BY <1>5, <2>3
    <3>2. mem' = Filled(call.start, call.pos + pkt.sent) /\ mem' = Filled(call.start, call.pos + 0)
      BY <1>6, <2>3, <3>1
    <3> QED BY <2>3, <3>1, <3>2 DEF Reply
  <2>4. CASE Errors /\ \E k \in 0..pkt.n : mem' = Stored(k) /\ Reply("E", 0)
    <3>1. PICK k \in 0..pkt.n : mem' = Stored(k) /\ Reply("E", 0)
      BY <2>4
    <3>2. k \in 0..pkt.sent
      BY <1>5
    <3> QED BY <1>7, <3>1, <3>2 DEF Reply
  <2> QED BY <2>1, <2>2, <2>3, <2>4 DEF StubWrites
<1>9. \E n \in call.pos..call.total : mem' = Filled(call.start, n)
  <2>1. call.pos \in call.pos..call.total /\ call.pos + pkt.sent \in call.pos..call.total
        /\ \A k \in 0..pkt.sent : call.pos + k \in call.pos..call.total
    BY <1>5
  <2> QED BY <1>6, <1>8, <2>1
<1>10. ~(call'.ret > 0)
  BY <1>2, <1>5
<1>11. /\ call'.pos <= call'.total /\ call'.orig = call'.total
       /\ (remote_binary_download' /\ ~stub'.x) => call'.pos = 0
       /\ \E n \in call'.pos..call'.total : mem' = Filled(call'.start, n)
  BY <1>2, <1>3, <1>5, <1>6, <1>9
<1>12. /\ reply'.is \in {"OK", "E", "empty"}
       /\ reply'.is = "OK" => /\ mem' = Filled(call'.start, call'.pos + pkt'.sent)
                              /\ pkt'.kind = "X" => stub'.x
       /\ reply'.is = "empty" => /\ mem' = Filled(call'.start, call'.pos)
                                 /\ pkt'.kind = "X" /\ ~stub'.x
  BY <1>2, <1>3, <1>6, <1>8
<1> QED BY <1>2, <1>10, <1>11, <1>12 DEF Writing, Called

\* The reply is dealt with, and the transfer goes on or returns.
LEMMA WritingLoops ==
  ASSUME ReadInv, Writing, TransferDone \/ WriteRefused \/ WriteFails \/ WriteGoesOn
  PROVE  Writing'
<1>1. UNCHANGED <<stub, world, mem, pkt>> /\ Shape
  BY DEF TransferDone, WriteRefused, WriteFails, WriteGoesOn, conn, ReadInv
<1>2. Answered' = Answered
  BY <1>1 DEF Answered, Timeouts, Quits
<1>3. call'.op = call.op /\ call'.start = call.start /\ call'.total = call.total
  BY <1>1 DEF TransferDone, WriteRefused, WriteFails, WriteGoesOn, Return, Advance, Shape
<1> SUFFICES ASSUME Answered, call.op = "write" PROVE Writing'
  BY <1>2, <1>3 DEF Writing
<1>4. Called /\ call.ret = -1 /\ Counters
  BY DEF TransferDone, WriteRefused, WriteFails, WriteGoesOn, ReadInv, Progress, Called
<1>5. /\ call.pos \in Nat /\ call.left \in Nat /\ call.total \in Nat /\ pkt.sent \in Nat
      /\ call.pos + call.left = call.total /\ call.orig = call.total
      /\ (remote_binary_download /\ ~stub.x) => call.pos = 0
  BY <1>1, <1>4 DEF Shape, Packets, Counters, Writing
<1>6. CASE TransferDone
  <2>1. call.pc = "send" /\ call.left = 0
    BY <1>5, <1>6 DEF TransferDone
  <2>2. call'.pc = "idle" /\ call'.ret = call.orig /\ call'.pos = call.pos
    BY <1>1, <1>6 DEF TransferDone, Return, Shape
  <2>3. mem = Filled(call.start, call.pos) /\ call.pos = call.total
    BY <1>5, <2>1 DEF Writing
  <2>4. call'.pos \in call'.pos..call'.total /\ call'.pos <= call'.total
    BY <1>3, <1>5, <2>2, <2>3
  <2>5. mem' = Filled(call'.start, call'.pos) /\ call'.ret = call'.pos
    BY <1>1, <1>3, <1>5, <2>2, <2>3
  <2> QED BY <2>2, <2>4, <2>5 DEF Writing, Called
<1>7. CASE WriteRefused
  <2>1. /\ call.pc = "reply" /\ reply.is = "empty" /\ remote_binary_download
        /\ remote_binary_download' = FALSE
        /\ call'.pc = "send" /\ call'.orig = call.left /\ call'.pos = call.pos /\ call'.ret = call.ret
    BY <1>1, <1>7 DEF WriteRefused, Shape
  <2>2. mem = Filled(call.start, call.pos) /\ pkt.kind = "X"
    BY <2>1 DEF Writing
  <2>3. ~stub.x
    BY <2>1, <2>2 DEF Writing
  <2>4. call.pos = 0 /\ call.left = call.total
    BY <1>5, <2>1, <2>3
  <2>5. call'.pos \in call'.pos..call'.total /\ call'.pos <= call'.total /\ call'.orig = call'.total
    BY <1>3, <1>5, <2>1, <2>4
  <2>6. mem' = Filled(call'.start, call'.pos) /\ ~(call'.ret > 0)
    BY <1>1, <1>3, <1>4, <2>1, <2>2
  <2> QED BY <2>1, <2>5, <2>6 DEF Writing, Called
<1>8. CASE WriteFails
  <2>1. call'.pc = "idle" /\ call'.ret = 0 /\ call'.pos = call.pos
    BY <1>1, <1>8 DEF WriteFails, Return, Shape
  <2>2. /\ call.pos <= call.total
        /\ \E n \in call.pos..call.total : mem = Filled(call.start, n)
    BY DEF Writing
  <2>3. \E n \in call'.pos..call'.total : mem' = Filled(call'.start, n)
    BY <1>1, <1>3, <2>1, <2>2
  <2> QED BY <1>3, <2>1, <2>2, <2>3 DEF Writing, Called
<1>9. CASE WriteGoesOn
  <2>1. /\ call.pc = "reply" /\ call'.pc = "send" /\ call'.pos = call.pos + pkt.sent
        /\ call'.orig = call.orig /\ call'.ret = call.ret
        /\ remote_binary_download' = remote_binary_download
    BY <1>1, <1>9 DEF WriteGoesOn, Advance, Shape, conn
  <2>2. InFlight
    BY <2>1 DEF ReadInv, Progress, Sent
  <2>3. reply.is = "OK"
    <3>1. reply.is \in {"OK", "E", "empty"} /\ (reply.is = "empty" => pkt.kind = "X")
      BY <2>1 DEF Writing
    <3>2. reply.is # "E" /\ ~(reply.is = "empty" /\ remote_binary_download)
      BY <1>9 DEF WriteGoesOn
    <3>3. pkt.kind = "X" => remote_binary_download
      BY <2>2 DEF InFlight
    <3> QED BY <3>1, <3>2, <3>3
  <2>4. mem = Filled(call.start, call.pos + pkt.sent) /\ (pkt.kind = "X" => stub.x)
    BY <2>1, <2>3 DEF Writing
  <2>5. remote_binary_download => stub.x
    BY <2>2, <2>4 DEF InFlight
  <2>6. pkt.sent <= call.left
    BY <2>2 DEF InFlight
  <2>7. call'.pos \in call'.pos..call'.total /\ call'.pos <= call'.total /\ call'.orig = call'.total
    BY <1>3, <1>5, <2>1, <2>6
  <2>8. mem' = Filled(call'.start, call'.pos) /\ ~(call'.ret > 0)
    BY <1>1, <1>3, <1>4, <2>1, <2>4
  <2>9. ~(remote_binary_download' /\ ~stub'.x)
    BY <1>1, <2>1, <2>5
  <2> QED BY <2>1, <2>7, <2>8, <2>9 DEF Writing, Called
<1> QED BY <1>6, <1>7, <1>8, <1>9

LEMMA WritingNext ==
  ASSUME ReadInv, Writing, LengthKept, [Next]_vars
  PROVE  Writing'
<1>1. CASE UNCHANGED vars
  BY <1>1 DEF vars, Writing, Called, Answered, Timeouts, Quits, Filled
<1>2. CASE Start
  <2>1. ASSUME NEW a \in Addrs, NEW len \in Lens, NEW ws \in WriteSizes, StartRead(a, len, ws)
        PROVE  Writing'
    BY <2>1 DEF StartRead, Writing
  <2>2. ASSUME NEW a \in Addrs, NEW len \in Lens, NEW ws \in WriteSizes, NEW special \in Specials,
               StartWrite(a, len, ws, special)
        PROVE  Writing'
    <3>1. /\ call'.pc = "send" /\ call'.start = a /\ call'.pos = 0 /\ call'.total = len
          /\ call'.orig = len /\ call'.ret = -1
      BY <2>2 DEF StartWrite
    <3>2. 0 \in 0..len /\ 0 <= len
      BY MemoryAssumption
    <3>3. mem' = Filled(a, 0)
      <4>1. mem' = [x \in 0..(MaskSpace - 1) |-> 0]
        BY <2>2 DEF StartWrite, ReadInv, Shape, Mem
      <4>2. ASSUME NEW x \in 0..(MaskSpace - 1) PROVE ~((x - a) % MaskSpace < 0)
        <5> DEFINE y == x - a
        <5>1. y \in Int
          BY MemoryAssumption
        <5> HIDE DEF y
        <5>2. y % MaskSpace \in 0..(MaskSpace - 1)
          BY <5>1, MemoryAssumption, ModDef
        <5>3. ~(y % MaskSpace < 0)
          BY <5>2, MemoryAssumption
        <5> QED BY <5>3 DEF y
      <4> QED BY <4>1, <4>2 DEF Filled
    <3>4. \E n \in call'.pos..call'.total : mem' = Filled(call'.start, n)
      BY <3>1, <3>2, <3>3
    <3> QED BY <3>1, <3>2, <3>3, <3>4 DEF Writing, Called
  <2> QED BY <1>2, <2>1, <2>2 DEF Start
<1>3. CASE SendBinary \/ SendHex \/ SendRead
  BY <1>3, WritingSends
<1>4. CASE StubWrites
  BY <1>4, WritingStored
<1>5. CASE TransferDone \/ WriteRefused \/ WriteFails \/ WriteGoesOn
  BY <1>5, WritingLoops
<1>6. CASE StubReads \/ ReadFails \/ ReadQuits \/ ReadShort \/ ReadGoesOn
  <2>1. call.op = "read"
    BY <1>6 DEF StubReads, ReadFails, ReadQuits, ReadShort, ReadGoesOn, ReadInv, Progress, Sent,
                InFlight, Shape
  <2>2. call'.op = call.op
    BY <1>6 DEF StubReads, ReadFails, ReadQuits, ReadShort, ReadGoesOn, Reply, Return, Advance,
                ReadInv, Shape
  <2> QED BY <2>1, <2>2 DEF Writing
<1>7. CASE NoReply \/ TransferQuits
  BY <1>7 DEF NoReply, TransferQuits, Writing, Answered, Timeouts, Quits, conn
<1>8. CASE Connect \/ SetBinaryDownload
  <2>1. UNCHANGED <<mem, call, pkt, reply, world>> /\ call.pc = "idle"
    BY <1>8 DEF Connect, SetBinaryDownload
  <2>2. Answered' = Answered
    BY <2>1 DEF Answered, Timeouts, Quits
  <2> QED BY <2>1, <2>2 DEF Writing, Called
<1> QED BY <1>1, <1>2, <1>3, <1>4, <1>5, <1>6, <1>7, <1>8 DEF Next, Step

LEMMA WriteAlways == Spec /\ []LengthKept => []WriteInv
<1>1. Init => WriteInv
  BY ReadInit DEF WriteInv, OnlyOwnBytes, Writing, Init
<1>2. WriteInv /\ LengthKept /\ [Next]_vars => WriteInv'
  BY ReadNext, OwnNext, WritingNext DEF WriteInv
<1> QED BY <1>1, <1>2, PTL DEF Spec

\* As long as no length field loses a digit, a byte that a write has stored anywhere is the byte
\* of the caller's buffer that belongs there, whatever replies were lost, refused or not waited
\* for (remote_write_bytes): only the fix-up of the length field of an 'X' packet can make the
\* target store another byte.
THEOREM StoredBytesAreOwn == Spec /\ []LengthKept => []OnlyOwnBytes
<1>1. WriteInv => OnlyOwnBytes
  BY DEF WriteInv
<1> QED BY <1>1, WriteAlways, PTL

\* As long as no length field loses a digit, what a transfer returns is true: a write that is
\* answered has stored exactly that many bytes of the buffer, each at its own address, and a read
\* has put that many into it, for every packet size, address and length, with stubs that know
\* 'X' and stubs that do not (remote_write_bytes, remote_read_bytes).
THEOREM CountsAreTrue == Spec /\ []LengthKept => []CountsTrue
<1>1. ASSUME WriteInv PROVE PrefixStored
  <2> SUFFICES ASSUME Answered, call.op = "write"
               PROVE  \E n \in call.pos..call.total :
                        /\ mem = Image(n)
                        /\ call.pc = "send" \/ call.ret > 0 => n = call.pos
                        /\ call.ret > 0 => call.ret = n
    BY DEF PrefixStored
  <2>1. Shape /\ Writing
    BY <1>1 DEF WriteInv, ReadInv
  <2>2. \A n : Image(n) = Filled(call.start, n)
    BY <2>1 DEF Image, Filled, Shape, Mem
  <2>3. call.pos \in Nat /\ call.total \in Nat /\ call.pos <= call.total
    BY <2>1 DEF Shape, Writing
  <2>4. CASE call.pc = "send" \/ call.ret > 0
    <3>1. mem = Filled(call.start, call.pos) /\ (call.ret > 0 => call.ret = call.pos)
      BY <2>1, <2>4 DEF Writing
    <3>2. call.pos \in call.pos..call.total
      BY <2>3
    <3> QED BY <2>2, <3>1, <3>2
  <2>5. CASE ~(call.pc = "send" \/ call.ret > 0)
    <3>1. PICK n \in call.pos..call.total : mem = Filled(call.start, n)
      BY <2>1 DEF Writing
    <3> QED BY <2>2, <2>5, <3>1
  <2> QED BY <2>4, <2>5
<1>2. WriteInv => ReadsRight
  BY DEF WriteInv, ReadInv, Reading, ReadsRight
<1>3. WriteInv => CountsTrue
  BY <1>1, <1>2 DEF CountsTrue
<1> QED BY <1>3, WriteAlways, PTL

-----------------------------------------------------------------------------
(* The size of packets.                                                    *)
(*                                                                         *)
(* A packet is planned from the digits of the last address and of the      *)
(* whole length, and made from those of its own address and length, which  *)
(* are smaller.                                                            *)

\* Room for the header of a packet and for a byte.
Enough(size) == size >= 8 + 2 * hexnumlen(CoreSpace)

\* Every stub has the same buffer, headers fit into it and into what the user has set, and no
\* transfer goes past the last address.  TLC finds a packet that is too large without any of these.
SizesSuffice ==
  /\ \A r, t \in RegSizes : r = t
  /\ \A size \in RegSizes \cup WriteSizes : Enough(size)
  /\ \A a \in Addrs, len \in Lens : a + len <= CoreSpace

\* What is known of the stub.
Connected ==
  /\ remote_register_buf_size \in RegSizes \cup {0, LongTimeout}
  /\ ~Timeouts => remote_register_buf_size \in RegSizes \cup {0}
  /\ stub.regs \in RegSizes \cup {0}
  /\ stub.regs > 0 => remote_register_buf_size # 0
  /\ Called => stub.regs > 0

\* The bounds of TypeOK.
Bounded ==
  /\ call.pos + call.left = call.total /\ pkt.sent <= call.total
  /\ call.addr \in 0..(CoreSpace - 1)
  /\ buf \in Seq(0..(MaskSpace - 1))
  /\ remote_binary_length \in -1..PBUFSIZ

\* The room of a packet was computed for addresses up to last and for len bytes.
RoomFor(last, len) ==
  /\ call.addr + call.left - 1 <= last /\ call.left <= len
  /\ call.max = Limit(call.ws) - (7 + hexnumlen(last) + hexnumlen(len))
Planned ==
  (Called /\ call.op = "write") =>
    /\ call.ws \in WriteSizes
    /\ call.addr + call.left <= CoreSpace
    /\ \E last \in 0..(CoreSpace - 1), len \in 0..CoreSpace : RoomFor(last, len)

\* The invariant of sizes.
SizeInv == ReadInv /\ Connected /\ Bounded /\ Planned /\ PacketFits

\* MaskSpace is a part of CoreSpace.
LEMMA MaskWithin == MaskSpace <= CoreSpace
<1> DEFINE t == CoreSpace \div MaskSpace
<1>1. t \in Int /\ CoreSpace = MaskSpace * t + (CoreSpace % MaskSpace)
  BY MemoryAssumption, ModDef
<1>2. CoreSpace % MaskSpace = 0 /\ MaskSpace \in Nat \ {0} /\ CoreSpace \in Nat \ {0}
  BY MemoryAssumption
<1> HIDE DEF t
<1>3. CoreSpace = MaskSpace * t
  BY <1>1, <1>2
<1>4. t > 0
  <2> SUFFICES ASSUME t <= 0 PROVE FALSE
    BY <1>1
  <2>1. MaskSpace * t <= 0
    BY <1>1, <1>2
  <2> QED BY <1>2, <1>3, <2>1
<1>5. MaskSpace * t >= MaskSpace
  BY <1>1, <1>2, <1>4
<1> QED BY <1>2, <1>3, <1>5

\* A number below the modulus is its own remainder, and a remainder is not larger than its number.
LEMMA ModSmall ==
  ASSUME NEW M \in Nat \ {0}, NEW a \in Nat
  PROVE  a % M <= a /\ (a < M => a % M = a)
<1>1. a < M => a % M = a
  <2> SUFFICES ASSUME a < M PROVE a % M = a
    OBVIOUS
  <2>1. a \in 0..(M - 1) /\ a = M * 0 + a
    OBVIOUS
  <2> QED BY <2>1, ModUnique
<1>2. a % M \in 0..(M - 1)
  BY ModDef
<1>3. CASE a < M
  BY <1>1, <1>3
<1>4. CASE a >= M
  BY <1>2, <1>4
<1> QED BY <1>1, <1>3, <1>4

LEMMA MaskedSmall ==
  ASSUME NEW a \in Nat
  PROVE  a % MaskSpace \in 0..(MaskSpace - 1) /\ a % MaskSpace <= a
<1>1. MaskSpace \in Nat \ {0} /\ a \in Int
  BY MemoryAssumption
<1> QED BY <1>1, ModDef, ModSmall

\* The digits of a number up to CoreSpace.
LEMMA CoreDigits ==
  ASSUME NEW n \in 0..CoreSpace
  PROVE  hexnumlen(n) \in 1..16 /\ hexnumlen(n) <= hexnumlen(CoreSpace)
<1>1. n \in Nat /\ CoreSpace \in Nat /\ n <= CoreSpace /\ n \in Int
  BY MemoryAssumption
<1> QED BY <1>1, Digits, FewerDigits

\* One more byte is at most one more escape.
LEMMA EscapesGrow ==
  ASSUME NEW pos \in Int, NEW n \in Nat
  PROVE  /\ Escapes(pos, 0) = 0
         /\ Escapes(pos, n + 1) <= Escapes(pos, n) + 1
<1> DEFINE S(m) == {k \in 1..m : pos + k \in call.special}
<1>1. S(0) = {}
  OBVIOUS
<1>2. Escapes(pos, 0) = 0
  BY <1>1, FS_EmptySet DEF Escapes
<1>3. IsFiniteSet(S(n))
  <2>1. IsFiniteSet(1..n) /\ S(n) \subseteq 1..n
    BY FS_Interval
  <2> QED BY <2>1, FS_Subset
<1>4. S(n + 1) \subseteq S(n) \cup {n + 1}
  OBVIOUS
<1>5. IsFiniteSet(S(n) \cup {n + 1}) /\ Cardinality(S(n) \cup {n + 1}) <= Cardinality(S(n)) + 1
  <2>1. n + 1 \notin S(n)
    OBVIOUS
  <2> HIDE DEF S
  <2>2. /\ IsFiniteSet(S(n) \cup {n + 1})
        /\ Cardinality(S(n) \cup {n + 1}) = Cardinality(S(n)) + 1
    BY <1>3, <2>1, FS_AddElement
  <2>3. Cardinality(S(n)) \in Nat
    BY <1>3, FS_CardinalityType
  <2> QED BY <2>2, <2>3
<1>6. Cardinality(S(n + 1)) <= Cardinality(S(n) \cup {n + 1})
  <2> HIDE DEF S
  <2> QED BY <1>4, <1>5, FS_Subset
<1>7. Cardinality(S(n)) \in Nat /\ Cardinality(S(n + 1)) \in Nat /\ Cardinality(S(n) \cup {n + 1}) \in Nat
  <2> HIDE DEF S
  <2>1. IsFiniteSet(S(n + 1))
    BY <1>4, <1>5, FS_Subset
  <2> QED BY <1>3, <1>5, <2>1, FS_CardinalityType
<1>8. Escapes(pos, n) = Cardinality(S(n)) /\ Escapes(pos, n + 1) = Cardinality(S(n + 1))
  BY DEF Escapes
<1> HIDE DEF S
<1> QED BY <1>2, <1>5, <1>6, <1>7, <1>8

\* The loop that fills an 'X' packet stops in time: the escaped bytes take less than the room there
\* is, and nothing when there is none.
LEMMA CountFits ==
  ASSUME Shape, NEW todo \in Int, todo <= call.max
  PROVE  LET i == BinaryCount(todo)
         IN  i + Escapes(call.pos, i) <= IF call.max >= 1 THEN call.max - 1 ELSE 0
<1> DEFINE i == BinaryCount(todo)
<1>1. /\ i \in Nat /\ (todo > 0 => i <= todo) /\ (todo <= 0 => i = 0)
      /\ todo > 0 => \A j \in 0..(i - 1) : j + Escapes(call.pos, j) < call.max - 2
  BY CountRange
<1>2. call.pos \in Int /\ call.max \in Int
  BY DEF Shape
<1> HIDE DEF i
<1>3. CASE i = 0
  <2>1. Escapes(call.pos, 0) = 0
    BY <1>2, EscapesGrow
  <2>2. i + Escapes(call.pos, i) = 0
    BY <1>3, <2>1
  <2> QED BY <1>2, <2>2 DEF i
<1>4. CASE i # 0
  <2> DEFINE j == i - 1
  <2>1. j \in Nat /\ j \in 0..(i - 1) /\ i = j + 1 /\ todo > 0 /\ call.max >= 1
    BY <1>1, <1>2, <1>4
  <2>2. j + Escapes(call.pos, j) < call.max - 2
    BY <1>1, <2>1
  <2> HIDE DEF j
  <2>3. Escapes(call.pos, j + 1) <= Escapes(call.pos, j) + 1
    BY <1>2, <2>1, EscapesGrow
  <2>4. Escapes(call.pos, j) \in Nat /\ Escapes(call.pos, j + 1) \in Nat
    <3>1. j \in Int /\ j + 1 \in Int
      BY <2>1
    <3> QED BY <1>2, <3>1, EscapesType
  <2>5. (j + 1) + Escapes(call.pos, j + 1) <= call.max - 1
    BY <1>2, <2>1, <2>2, <2>3, <2>4
  <2> QED BY <1>2, <2>1, <2>5 DEF i
<1> QED BY <1>3, <1>4

\* The buffers while GDB is connected.
LEMMA Buffers ==
  ASSUME SizesSuffice, SizeInv, stub.regs > 0, NEW ws \in WriteSizes
  PROVE  /\ stub.regs \in Nat /\ stub.regs <= PBUFSIZ - 32 /\ PBUFSIZ >= 42 /\ PBUFSIZ \in Nat
         /\ Limit(ws) \in Nat /\ Limit(ws) <= PBUFSIZ
         /\ Enough(stub.regs)
         /\ ~Timeouts => Enough(Limit(ws)) /\ Limit(ws) <= stub.regs
<1> DEFINE size == remote_register_buf_size
           H == hexnumlen(CoreSpace)
<1>1. stub.regs \in RegSizes /\ size # 0 /\ size \in Nat /\ ws \in Nat /\ PBUFSIZ \in Nat
  BY MemoryAssumption DEF SizeInv, Connected, ReadInv, Shape
<1>2. H \in 1..16
  <2>1. CoreSpace \in Int
    BY MemoryAssumption
  <2> QED BY <2>1, Digits
<1>3. stub.regs \in Nat /\ stub.regs <= PBUFSIZ - 32
  <2>1. RegSizes \subseteq 1..(PBUFSIZ - 32) /\ PBUFSIZ \in Nat
    BY MemoryAssumption
  <2>2. stub.regs \in 1..(PBUFSIZ - 32)
    BY <1>1, <2>1
  <2> QED BY <2>1, <2>2
<1>4. stub.regs >= 8 + 2 * H /\ ws >= 8 + 2 * H
  BY <1>1 DEF SizesSuffice, Enough
<1>5. ~Timeouts => size = stub.regs
  BY <1>1 DEF SizesSuffice, SizeInv, Connected
<1>6. Limit(ws) = Least(Least(ws, PBUFSIZ), size)
  BY <1>1 DEF Limit
<1> HIDE DEF H, size
<1>7. Limit(ws) \in Nat /\ Limit(ws) <= PBUFSIZ
  BY <1>1, <1>6 DEF Least
<1>8. ASSUME ~Timeouts PROVE Limit(ws) >= 8 + 2 * H /\ Limit(ws) <= stub.regs
  <2>1. Limit(ws) = Least(Least(ws, PBUFSIZ), stub.regs)
    BY <1>5, <1>6, <1>8
  <2> QED BY <1>1, <1>2, <1>3, <1>4, <2>1 DEF Least
<1> QED BY <1>1, <1>2, <1>3, <1>4, <1>7, <1>8 DEF Enough, H

\* What a packet of a write may hold: the digits of its own address and of its length are at most
\* the ones that were planned.
LEMMA WriteFits ==
  ASSUME SizesSuffice, SizeInv, Called, call.op = "write", call.left > 0,
         NEW n \in Nat, n <= call.left
  PROVE  LET a == remote_address_masked(call.addr)
         IN  /\ 7 + hexnumlen(a) + hexnumlen(n) + call.max <= Limit(call.ws)
             /\ ~Timeouts => call.max >= 1
<1> DEFINE a == remote_address_masked(call.addr)
<1>1. /\ call.addr \in 0..(CoreSpace - 1) /\ call.left \in Nat /\ call.ws \in WriteSizes
      /\ stub.regs > 0 /\ call.max \in Int /\ CoreSpace \in Nat /\ MaskSpace \in Nat \ {0}
      /\ call.addr + call.left <= CoreSpace
  BY MemoryAssumption DEF SizeInv, Bounded, Connected, Planned, ReadInv, Shape
<1>2. PICK last \in 0..(CoreSpace - 1), len \in 0..CoreSpace : RoomFor(last, len)
  BY DEF SizeInv, Planned
<1>3. a \in Nat /\ a <= call.addr
  <2>1. call.addr \in Nat
    BY <1>1
  <2>2. call.addr % MaskSpace \in 0..(MaskSpace - 1) /\ call.addr % MaskSpace <= call.addr
    BY <2>1, MaskedSmall
  <2> QED BY <1>1, <2>2 DEF remote_address_masked
<1> HIDE DEF a
<1>4. n \in 0..CoreSpace /\ last \in 0..CoreSpace /\ a \in Nat /\ len \in Nat /\ last \in Nat
  BY <1>1, <1>3
<1>5. n <= len /\ call.max = Limit(call.ws) - (7 + hexnumlen(last) + hexnumlen(len))
  BY <1>1, <1>2, <1>4 DEF RoomFor
<1>6. hexnumlen(n) <= hexnumlen(len)
  BY <1>4, <1>5, FewerDigits
<1>7. hexnumlen(a) <= hexnumlen(last)
  <2>1. a <= last
    BY <1>1, <1>2, <1>3, <1>4 DEF RoomFor
  <2> QED BY <1>4, <2>1, FewerDigits
<1>8. /\ hexnumlen(a) \in 1..16 /\ hexnumlen(n) \in 1..16
      /\ hexnumlen(last) \in 1..16 /\ hexnumlen(last) <= hexnumlen(CoreSpace)
      /\ hexnumlen(len) \in 1..16 /\ hexnumlen(len) <= hexnumlen(CoreSpace)
  <2>1. a \in Int /\ n \in Int
    BY <1>3
  <2> QED BY <1>4, <2>1, CoreDigits, Digits
<1>9. /\ Limit(call.ws) \in Nat /\ hexnumlen(CoreSpace) \in 1..16
      /\ ~Timeouts => Limit(call.ws) >= 8 + 2 * hexnumlen(CoreSpace)
  <2>1. CoreSpace \in Int
    BY <1>1
  <2> QED BY <1>1, <2>1, Buffers, Digits DEF Enough
<1>10. 7 + hexnumlen(a) + hexnumlen(n) + call.max <= Limit(call.ws)
  BY <1>1, <1>5, <1>6, <1>7, <1>8, <1>9
<1>11. ~Timeouts => call.max >= 1
  BY <1>1, <1>5, <1>8, <1>9
<1> QED BY <1>10, <1>11 DEF a

\* What the next packet of a transfer keeps of the invariant, once its size is known.
LEMMA SendKeeps ==
  ASSUME SizeInv, ReadInv', call.pc = "send", call.left > 0, UNCHANGED <<conn, buf>>,
         call' = [call EXCEPT !.pc = "stub", !.addr = remote_address_masked(call.addr)],
         remote_binary_length' \in -1..PBUFSIZ,
         ~Timeouts => pkt'.chars <= stub.regs /\ pkt'.chars - 4 <= PBUFSIZ - 5
  PROVE  SizeInv'
<1> DEFINE a == remote_address_masked(call.addr)
<1>1. /\ Shape /\ call.addr \in 0..(CoreSpace - 1) /\ MaskSpace \in Nat \ {0} /\ CoreSpace \in Nat
      /\ MaskSpace <= CoreSpace
  BY MemoryAssumption, MaskWithin DEF SizeInv, Bounded, ReadInv
<1>2. a \in 0..(CoreSpace - 1) /\ a <= call.addr
  <2>1. call.addr \in Nat
    BY <1>1
  <2>2. call.addr % MaskSpace \in 0..(MaskSpace - 1) /\ call.addr % MaskSpace <= call.addr
    BY <2>1, MaskedSmall
  <2> QED BY <1>1, <2>2 DEF remote_address_masked
<1> HIDE DEF a
<1>3. /\ call'.pc = "stub" /\ call'.op = call.op /\ call'.addr = a /\ call'.pos = call.pos
      /\ call'.left = call.left /\ call'.total = call.total /\ call'.ws = call.ws
      /\ call'.max = call.max
  BY <1>1 DEF Shape, a
<1>4. UNCHANGED <<remote_register_buf_size, stub, world, buf>>
  BY DEF conn
<1>5. Connected'
  BY <1>4 DEF SizeInv, Connected, Timeouts, Called
<1>6. Bounded'
  <2>1. call.pos + call.left = call.total /\ call.pos \in Nat /\ call.left \in Nat
    BY <1>1 DEF SizeInv, Bounded, Shape
  <2>2. pkt'.sent \in Nat /\ pkt'.sent <= call'.left
    BY <1>3 DEF ReadInv, Progress, Sent, InFlight, Shape, Packets
  <2>3. buf' \in Seq(0..(MaskSpace - 1))
    BY <1>4 DEF SizeInv, Bounded
  <2>4. pkt'.sent <= call'.total /\ call'.pos + call'.left = call'.total
    BY <1>3, <2>1, <2>2
  <2> QED BY <1>2, <1>3, <2>3, <2>4 DEF Bounded
<1>7. Planned'
  <2> SUFFICES ASSUME call.op = "write" PROVE Planned'
    BY <1>3 DEF Planned
  <2>1. call.ws \in WriteSizes /\ call.addr + call.left <= CoreSpace
    BY DEF SizeInv, Planned, Called
  <2>2. PICK last \in 0..(CoreSpace - 1), len \in 0..CoreSpace : RoomFor(last, len)
    BY DEF SizeInv, Planned, Called
  <2>3. call.left \in Nat /\ last \in Nat
    BY <1>1 DEF Shape
  <2>4. Limit(call.ws)' = Limit(call.ws)
    BY <1>3, <1>4 DEF Limit
  <2>5. RoomFor(last, len)'
    BY <1>1, <1>2, <1>3, <2>2, <2>3, <2>4 DEF RoomFor
  <2>6. a + call.left <= CoreSpace
    BY <1>1, <1>2, <2>1, <2>3
  <2> QED BY <1>3, <2>1, <2>5, <2>6 DEF Planned
<1>8. PacketFits'
  BY <1>4 DEF PacketFits, Timeouts
<1> QED BY <1>5, <1>6, <1>7, <1>8 DEF SizeInv

\* The three kinds of packets fit into the stub's buffer.
LEMMA BinaryFits ==
  ASSUME SizesSuffice, SizeInv, ReadInv', SendBinary
  PROVE  SizeInv'
<1> DEFINE addr == remote_address_masked(call.addr)
           todo == Todo(call.max)
           i == BinaryCount(todo)
           esc == Escapes(call.pos, i)
           chars == 2 + hexnumlen(addr) + 1 + hexnumlen(todo) + 1 + i + esc + 3
<1>1. /\ Shape /\ call.pc = "send" /\ call.op = "write" /\ call.left > 0 /\ Called
      /\ stub.regs > 0 /\ call.ws \in WriteSizes
  BY DEF SendBinary, SizeInv, ReadInv, Called, Connected, Planned
<1>2. call.addr \in Int /\ call.max \in Int /\ call.left \in Nat /\ call.pos \in Int
  BY <1>1 DEF Shape
<1>3. addr \in Int
  BY <1>2, MemoryAssumption, Masked
<1>4. /\ todo \in Int /\ todo <= call.left /\ todo <= call.max
      /\ call.max >= 1 => todo \in Nat
  BY <1>1, <1>2 DEF Todo, Least
<1>5. /\ pkt'.chars = chars /\ remote_binary_length' = chars - 4
      /\ call' = [call EXCEPT !.pc = "stub", !.addr = addr] /\ UNCHANGED <<conn, buf>>
  BY DEF SendBinary, BinaryPacket
<1> HIDE DEF todo
<1>6. i \in Nat /\ esc \in Nat /\ i + esc <= IF call.max >= 1 THEN call.max - 1 ELSE 0
  <2>1. i \in Nat
    BY <1>1, <1>4, CountRange
  <2>2. i + esc <= IF call.max >= 1 THEN call.max - 1 ELSE 0
    BY <1>1, <1>4, CountFits
  <2> HIDE DEF i
  <2>3. esc \in Nat
    <3>1. i \in Int
      BY <2>1
    <3> QED BY <1>2, <3>1, EscapesType
  <2> QED BY <2>1, <2>2, <2>3
<1>7. hexnumlen(addr) \in 1..16 /\ hexnumlen(todo) \in 1..16
  BY <1>3, <1>4, Digits
<1>8. /\ call.max >= 1 => 7 + hexnumlen(addr) + hexnumlen(todo) + call.max <= Limit(call.ws)
      /\ ~Timeouts => call.max >= 1
  <2>1. \A n \in Nat : n <= call.left =>
          /\ 7 + hexnumlen(addr) + hexnumlen(n) + call.max <= Limit(call.ws)
          /\ ~Timeouts => call.max >= 1
    BY <1>1, WriteFits
  <2>2. 0 \in Nat /\ 0 <= call.left
    BY <1>2
  <2> HIDE DEF addr
  <2> QED BY <1>4, <2>1, <2>2
<1>9. /\ stub.regs \in Nat /\ stub.regs <= PBUFSIZ - 32 /\ PBUFSIZ >= 42 /\ PBUFSIZ \in Nat
      /\ Limit(call.ws) \in Nat /\ Limit(call.ws) <= PBUFSIZ
      /\ ~Timeouts => Limit(call.ws) <= stub.regs
  BY <1>1, Buffers
<1> HIDE DEF i, esc, addr
<1>10. chars - 4 \in -1..PBUFSIZ /\ (call.max >= 1 => chars <= Limit(call.ws)) /\ chars \in Int
  <2>1. chars = 7 + hexnumlen(addr) + hexnumlen(todo) + (i + esc) /\ chars \in Int /\ chars >= 9
    BY <1>6, <1>7
  <2>2. call.max >= 1 => chars <= Limit(call.ws)
    BY <1>2, <1>6, <1>7, <1>8, <1>9, <2>1
  <2>3. ~(call.max >= 1) => chars <= 39
    BY <1>2, <1>6, <1>7, <2>1
  <2> HIDE DEF chars
  <2>4. chars - 4 <= PBUFSIZ
    BY <1>2, <1>9, <2>1, <2>2, <2>3
  <2> QED BY <1>9, <2>1, <2>2, <2>4
<1> HIDE DEF chars
<1>11. ~Timeouts => chars <= stub.regs /\ chars - 4 <= PBUFSIZ - 5
  BY <1>8, <1>9, <1>10
<1>12. /\ call' = [call EXCEPT !.pc = "stub", !.addr = remote_address_masked(call.addr)]
       /\ remote_binary_length' \in -1..PBUFSIZ
       /\ ~Timeouts => pkt'.chars <= stub.regs /\ pkt'.chars - 4 <= PBUFSIZ - 5
  BY <1>5, <1>10, <1>11 DEF addr
<1> QED BY <1>1, <1>5, <1>12, SendKeeps

LEMMA HexFits ==
  ASSUME SizesSuffice, SizeInv, ReadInv', SendHex
  PROVE  SizeInv'
<1> DEFINE addr == remote_address_masked(call.addr)
           half == call.max \div 2
           todo == Todo(half)
           i == IF todo < 0 THEN 0 ELSE todo
           chars == 2 + hexnumlen(addr) + 1 + hexnumlen(todo) + 1 + 2 * i + 3
<1>1. /\ Shape /\ call.pc = "send" /\ call.op = "write" /\ call.left > 0 /\ Called
      /\ stub.regs > 0 /\ call.ws \in WriteSizes
  BY DEF SendHex, SizeInv, ReadInv, Called, Connected, Planned
<1>2. call.addr \in Int /\ call.max \in Int /\ call.left \in Nat
  BY <1>1 DEF Shape
<1>3. addr \in Int
  BY <1>2, MemoryAssumption, Masked
<1>4. half \in Int /\ 2 * half <= call.max /\ (call.max >= 1 => half >= 0)
  BY <1>2
<1>5. /\ pkt'.chars = chars /\ remote_binary_length' = remote_binary_length
      /\ call' = [call EXCEPT !.pc = "stub", !.addr = addr] /\ UNCHANGED <<conn, buf>>
  BY DEF SendHex, blen
<1> HIDE DEF half
<1>6. todo \in Int /\ todo <= call.left /\ todo <= half /\ (call.max >= 1 => todo \in Nat)
  BY <1>1, <1>2, <1>4 DEF Todo, Least
<1> HIDE DEF todo
<1>7. hexnumlen(addr) \in 1..16 /\ hexnumlen(todo) \in 1..16
  BY <1>3, <1>6, Digits
<1>8. /\ call.max >= 1 => 7 + hexnumlen(addr) + hexnumlen(todo) + call.max <= Limit(call.ws)
      /\ ~Timeouts => call.max >= 1
  <2>1. \A n \in Nat : n <= call.left =>
          /\ 7 + hexnumlen(addr) + hexnumlen(n) + call.max <= Limit(call.ws)
          /\ ~Timeouts => call.max >= 1
    BY <1>1, WriteFits
  <2>2. 0 \in Nat /\ 0 <= call.left
    BY <1>2
  <2> HIDE DEF addr
  <2> QED BY <1>6, <2>1, <2>2
<1>9. /\ stub.regs \in Nat /\ stub.regs <= PBUFSIZ - 32 /\ PBUFSIZ \in Nat
      /\ Limit(call.ws) \in Nat
      /\ ~Timeouts => Limit(call.ws) <= stub.regs
  BY <1>1, Buffers
<1> HIDE DEF addr
<1>10. (call.max >= 1 => chars <= Limit(call.ws)) /\ chars \in Int
  BY <1>2, <1>4, <1>6, <1>7, <1>8, <1>9
<1> HIDE DEF chars
<1>11. ~Timeouts => chars <= stub.regs /\ chars - 4 <= PBUFSIZ - 5
  BY <1>8, <1>9, <1>10
<1>12. /\ call' = [call EXCEPT !.pc = "stub", !.addr = remote_address_masked(call.addr)]
       /\ remote_binary_length' \in -1..PBUFSIZ
       /\ ~Timeouts => pkt'.chars <= stub.regs /\ pkt'.chars - 4 <= PBUFSIZ - 5
  BY <1>5, <1>11 DEF addr, SizeInv, Bounded
<1> QED BY <1>1, <1>5, <1>12, SendKeeps

LEMMA RequestFits ==
  ASSUME SizesSuffice, SizeInv, ReadInv', SendRead
  PROVE  SizeInv'
<1> DEFINE addr == remote_address_masked(call.addr)
           half == call.max \div 2
           todo == Todo(half)
           chars == 2 + hexnumlen(addr) + 1 + hexnumlen(todo) + 3
           H == hexnumlen(CoreSpace)
<1>1. /\ Shape /\ call.pc = "send" /\ call.op = "read" /\ call.left > 0 /\ Called
      /\ stub.regs > 0 /\ Counters
  BY DEF SendRead, SizeInv, ReadInv, Called, Connected, Progress
<1>2. /\ call.addr \in Int /\ call.max \in Nat /\ call.left \in Nat /\ call.left <= MaskSpace
      /\ call.pos \in Nat
  <2>1. /\ call.addr \in Int /\ call.max \in Int /\ call.left \in Nat /\ call.pos \in Nat
        /\ call.total \in Nat /\ MaskSpace \in Nat
    BY <1>1, MemoryAssumption DEF Shape
  <2>2. call.total <= MaskSpace /\ call.pos + call.left = call.total
    BY <1>1 DEF Counters
  <2>3. call.max >= 0
    BY <1>1 DEF SizeInv, ReadInv, Reading
  <2> QED BY <2>1, <2>2, <2>3
<1>3. MaskSpace \in Nat /\ CoreSpace \in Nat /\ MaskSpace <= CoreSpace /\ PBUFSIZ \in Nat
  BY MemoryAssumption, MaskWithin
<1>4. addr \in 0..CoreSpace
  <2>1. addr \in 0..(MaskSpace - 1)
    BY <1>2, Masked
  <2> QED BY <1>3, <2>1
<1>5. half \in Nat
  BY <1>2
<1>6. /\ pkt'.chars = chars /\ remote_binary_length' = remote_binary_length
      /\ call' = [call EXCEPT !.pc = "stub", !.addr = addr] /\ UNCHANGED <<conn, buf>>
  BY DEF SendRead, blen
<1> HIDE DEF half
<1>7. todo \in 0..CoreSpace
  BY <1>2, <1>3, <1>5 DEF Todo, Least
<1> HIDE DEF todo, addr
<1>8. hexnumlen(addr) \in 1..16 /\ hexnumlen(addr) <= H /\ hexnumlen(todo) \in 1..16 /\ hexnumlen(todo) <= H
  BY <1>4, <1>7, CoreDigits
<1>9. H \in 1..16
  BY <1>3, Digits
<1>10. stub.regs \in RegSizes /\ stub.regs \in Nat /\ stub.regs <= PBUFSIZ - 32 /\ stub.regs >= 8 + 2 * H
  <2>1. stub.regs \in RegSizes
    BY <1>1 DEF SizeInv, Connected
  <2>2. stub.regs \in 1..(PBUFSIZ - 32)
    BY <2>1, MemoryAssumption
  <2> QED BY <1>3, <2>1, <2>2 DEF SizesSuffice, Enough
<1> HIDE DEF H
<1>11. chars <= stub.regs /\ chars - 4 <= PBUFSIZ - 5
  BY <1>3, <1>8, <1>9, <1>10
<1> HIDE DEF chars
<1>12. /\ call' = [call EXCEPT !.pc = "stub", !.addr = remote_address_masked(call.addr)]
       /\ remote_binary_length' \in -1..PBUFSIZ
       /\ pkt'.chars <= stub.regs /\ pkt'.chars - 4 <= PBUFSIZ - 5
  BY <1>6, <1>11 DEF addr, SizeInv, Bounded
<1> QED BY <1>1, <1>6, <1>12, SendKeeps

\* A transfer begins.
LEMMA StartFits ==
  ASSUME SizesSuffice, SizeInv, ReadInv', Start
  PROVE  SizeInv'
<1>1. PICK a \in Addrs, len \in Lens, ws \in WriteSizes :
        (\E special \in Specials : StartWrite(a, len, ws, special)) \/ StartRead(a, len, ws)
  BY DEF Start
<1> DEFINE last == (a + len - 1) % CoreSpace
<1>2. /\ call'.pc = "send" /\ call'.addr = a /\ call'.pos = 0 /\ call'.left = len /\ call'.total = len
      /\ call'.ws = ws /\ (call'.op = "write" => call'.max = WriteRoom(ws, a, len))
      /\ buf' = << >> /\ pkt' = NoPacket /\ stub.regs > 0
      /\ UNCHANGED <<remote_register_buf_size, stub, world, remote_binary_length>>
  BY <1>1 DEF StartWrite, StartRead, conn, blen
<1>3. a \in 0..(CoreSpace - 1) /\ CoreSpace \in Nat \ {0} /\ len \in Nat /\ len >= 1 /\ len <= CoreSpace
  <2>1. Addrs \subseteq 0..(CoreSpace - 1) /\ Lens \subseteq 1..MaskSpace /\ MaskSpace \in Nat
    BY MemoryAssumption
  <2>2. CoreSpace \in Nat \ {0} /\ MaskSpace <= CoreSpace
    BY MemoryAssumption, MaskWithin
  <2>3. a \in 0..(CoreSpace - 1) /\ len \in 1..MaskSpace
    BY <2>1
  <2> QED BY <2>1, <2>2, <2>3
<1>4. a + len <= CoreSpace
  BY DEF SizesSuffice
<1>5. Connected'
  BY <1>2 DEF SizeInv, Connected, Timeouts
<1>6. Bounded'
  <2>1. << >> \in Seq(0..(MaskSpace - 1)) /\ pkt'.sent = 0
    BY <1>2 DEF NoPacket
  <2> QED BY <1>2, <1>3, <2>1 DEF SizeInv, Bounded
<1>7. Planned'
  <2> SUFFICES ASSUME call'.op = "write" PROVE Planned'
    BY DEF Planned
  <2>1. last = a + len - 1
    <3> DEFINE x == a + len - 1
    <3>1. x \in Nat /\ x < CoreSpace
      BY <1>3, <1>4
    <3> HIDE DEF x
    <3>2. x % CoreSpace = x
      BY <1>3, <3>1, ModSmall
    <3> QED BY <3>2 DEF x
  <2>2. last \in 0..(CoreSpace - 1) /\ len \in 0..CoreSpace
    BY <1>3, <1>4, <2>1
  <2>3. call'.max = Limit(ws) - (2 + hexnumlen(last) + 1 + hexnumlen(len) + 4)
    BY <1>2 DEF WriteRoom
  <2> HIDE DEF last
  <2>4. hexnumlen(last) \in Int /\ hexnumlen(len) \in Int /\ Limit(ws) \in Int
    <3>1. last \in Int /\ len \in Int /\ ws \in Nat
      BY <1>3, <2>2, MemoryAssumption
    <3> QED BY <3>1, HexLen, LimitType DEF SizeInv, ReadInv
  <2>5. Limit(call.ws)' = Limit(ws)
    BY <1>2 DEF Limit
  <2>6. call'.max = Limit(ws) - (7 + hexnumlen(last) + hexnumlen(len))
    BY <2>3, <2>4
  <2>7. RoomFor(last, len)'
    BY <1>2, <1>3, <2>1, <2>5, <2>6 DEF RoomFor
  <2> QED BY <1>2, <1>4, <2>2, <2>7 DEF Planned
<1>8. PacketFits'
  BY <1>2 DEF PacketFits
<1> QED BY <1>5, <1>6, <1>7, <1>8 DEF SizeInv

\* A packet is answered, or its transfer returns.
LEMMA AnswerFits ==
  ASSUME SizeInv, ReadInv', UNCHANGED <<conn, pkt>>, buf' \in Seq(0..(MaskSpace - 1)),
         remote_binary_length' \in -1..PBUFSIZ,
         \/ \E r, n : Reply(r, n) /\ call.pc = "stub"
         \/ \E n \in Int : Return(n)
  PROVE  SizeInv'
<1>1. Shape /\ UNCHANGED <<remote_register_buf_size, stub, world, pkt>>
  BY DEF SizeInv, ReadInv, conn
<1>2. /\ call'.pc \in {"idle", "reply"} /\ call'.op = call.op /\ call'.addr = call.addr
      /\ call'.pos = call.pos /\ call'.left = call.left /\ call'.total = call.total
      /\ call'.ws = call.ws /\ call'.max = call.max
      /\ call'.pc = "reply" => call.pc = "stub"
  BY <1>1 DEF Reply, Return, Shape
<1>3. Connected'
  BY <1>1, <1>2 DEF SizeInv, Connected, Timeouts, Called
<1>4. Bounded'
  BY <1>1, <1>2 DEF SizeInv, Bounded
<1>5. Planned'
  <2>1. Limit(call.ws)' = Limit(call.ws)
    BY <1>1, <1>2 DEF Limit
  <2> QED BY <1>2, <2>1 DEF SizeInv, Planned, RoomFor, Called
<1>6. PacketFits'
  BY <1>2 DEF PacketFits
<1> QED BY <1>3, <1>4, <1>5, <1>6 DEF SizeInv

\* A transfer goes on behind its packet.
LEMMA AdvanceFits ==
  ASSUME SizeInv, ReadInv', UNCHANGED <<conn, pkt>>, buf' \in Seq(0..(MaskSpace - 1)),
         remote_binary_length' \in -1..PBUFSIZ, call.pc = "reply", Advance
  PROVE  SizeInv'
<1> DEFINE next == call.addr + pkt.sent
<1>1. Shape /\ InFlight /\ UNCHANGED <<remote_register_buf_size, stub, world, pkt>>
  BY DEF SizeInv, ReadInv, conn, Progress, Sent
<1>2. /\ call'.pc = "send" /\ call'.op = call.op /\ call'.addr = next % CoreSpace
      /\ call'.pos = call.pos + pkt.sent /\ call'.left = call.left - pkt.sent
      /\ call'.total = call.total /\ call'.ws = call.ws /\ call'.max = call.max
  BY <1>1 DEF Advance, Shape
<1>3. /\ pkt.sent \in Nat /\ pkt.sent <= call.left /\ call.left \in Nat /\ call.pos \in Nat
      /\ call.total \in Nat /\ call.addr \in 0..(CoreSpace - 1) /\ CoreSpace \in Nat \ {0}
  BY <1>1, MemoryAssumption DEF Shape, Packets, InFlight, SizeInv, Bounded
<1>4. next \in Nat
  BY <1>3
<1>5. next % CoreSpace \in 0..(CoreSpace - 1) /\ next % CoreSpace <= next
  <2> HIDE DEF next
  <2>1. next \in Int
    BY <1>4
  <2> QED BY <1>3, <1>4, <2>1, ModDef, ModSmall
<1>6. Connected'
  BY <1>1, <1>2 DEF SizeInv, Connected, Timeouts, Called
<1>7. Bounded'
  <2>1. call.pos + call.left = call.total /\ pkt.sent <= call.total
    BY DEF SizeInv, Bounded
  <2>2. call'.pos + call'.left = call'.total
    BY <1>2, <1>3, <2>1
  <2> HIDE DEF next
  <2> QED BY <1>1, <1>2, <1>5, <2>1, <2>2 DEF Bounded
<1>8. Planned'
  <2> SUFFICES ASSUME call.op = "write" PROVE Planned'
    BY <1>2 DEF Planned
  <2>1. call.ws \in WriteSizes /\ call.addr + call.left <= CoreSpace
    BY DEF SizeInv, Planned, Called
  <2>2. PICK last \in 0..(CoreSpace - 1), len \in 0..CoreSpace : RoomFor(last, len)
    BY DEF SizeInv, Planned, Called
  <2>3. Limit(call.ws)' = Limit(call.ws)
    BY <1>1, <1>2 DEF Limit
  <2> DEFINE there == next % CoreSpace
  <2>4. there \in Int /\ there <= call.addr + pkt.sent
    BY <1>3, <1>5
  <2>5. last \in Int /\ len \in Int
    BY <1>3
  <2> HIDE DEF there
  <2>6. call'.addr = there
    BY <1>2 DEF there
  <2>7. there + (call.left - pkt.sent) - 1 <= last /\ call.left - pkt.sent <= len
    <3>1. call.addr + call.left - 1 <= last /\ call.left <= len /\ call.addr \in Int
      BY <1>3, <2>2 DEF RoomFor
    <3>2. \A t, a, sent, l, m \in Int :
            (t <= a + sent /\ a + l - 1 <= m) => t + (l - sent) - 1 <= m
      OBVIOUS
    <3>3. there + (call.left - pkt.sent) - 1 <= last
      <4>1. pkt.sent \in Int /\ call.left \in Int
        BY <1>3
      <4> QED BY <2>4, <2>5, <3>1, <3>2, <4>1
    <3>4. call.left - pkt.sent <= len
      BY <1>3, <2>5, <3>1
    <3> QED BY <3>3, <3>4
  <2>8. RoomFor(last, len)'
    BY <1>2, <2>2, <2>3, <2>6, <2>7 DEF RoomFor
  <2>9. there + (call.left - pkt.sent) <= CoreSpace
    BY <1>3, <2>1, <2>4
  <2> QED BY <1>2, <2>1, <2>6, <2>8, <2>9 DEF Planned
<1>9. PacketFits'
  BY <1>2 DEF PacketFits
<1> QED BY <1>6, <1>7, <1>8, <1>9 DEF SizeInv

\* The stub has refused 'X': what is left is planned again.
LEMMA RefusalFits ==
  ASSUME SizeInv, ReadInv', WriteRefused
  PROVE  SizeInv'
<1> DEFINE x == call.addr + call.left - 1
           last == x % CoreSpace
<1>1. Shape /\ UNCHANGED <<remote_register_buf_size, stub, world, pkt, buf>> /\ remote_binary_length' = -1
  BY DEF SizeInv, ReadInv, WriteRefused
<1>2. /\ call'.pc = "send" /\ call'.op = call.op /\ call'.addr = call.addr /\ call.op = "write"
      /\ call'.pos = call.pos /\ call'.left = call.left /\ call'.total = call.total
      /\ call'.ws = call.ws /\ call'.max = WriteRoom(call.ws, call.addr, call.left) /\ Called
  BY <1>1 DEF WriteRefused, Shape, Called
<1>3. /\ call.left \in Nat /\ call.addr \in 0..(CoreSpace - 1) /\ CoreSpace \in Nat \ {0}
      /\ PBUFSIZ \in Nat
  BY <1>1, MemoryAssumption DEF Shape, SizeInv, Bounded
<1>4. Connected'
  BY <1>1, <1>2 DEF SizeInv, Connected, Timeouts, Called
<1>5. Bounded'
  BY <1>1, <1>2, <1>3 DEF SizeInv, Bounded
<1>6. Planned'
  <2>1. call.ws \in WriteSizes /\ call.addr + call.left <= CoreSpace
    BY <1>2 DEF SizeInv, Planned
  <2>2. x \in Int /\ x < CoreSpace /\ (x < 0 => x <= 0)
    BY <1>3, <2>1
  <2>3. last \in 0..(CoreSpace - 1) /\ x <= last
    <3>1. CASE x \in Nat
      <4> HIDE DEF x
      <4>1. x % CoreSpace = x
        BY <1>3, <2>2, <3>1, ModSmall
      <4> QED BY <1>3, <2>2, <3>1, <4>1
    <3>2. CASE ~(x \in Nat)
      <4> HIDE DEF x
      <4>1. x % CoreSpace \in 0..(CoreSpace - 1)
        BY <1>3, <2>2, ModDef
      <4> HIDE DEF last
      <4>2. last \in 0..(CoreSpace - 1)
        BY <4>1 DEF last
      <4> QED BY <1>3, <2>2, <3>2, <4>2
    <3> QED BY <3>1, <3>2
  <2>4. call'.max = Limit(call.ws) - (2 + hexnumlen(last) + 1 + hexnumlen(call.left) + 4)
    BY <1>2 DEF WriteRoom
  <2>5. call.left \in 0..CoreSpace
    BY <1>3, <2>1
  <2> HIDE DEF last
  <2>6. hexnumlen(last) \in Int /\ hexnumlen(call.left) \in Int /\ Limit(call.ws) \in Int
    <3>1. last \in Int /\ call.left \in Int /\ call.ws \in Nat
      BY <1>1, <1>3, <2>3 DEF Shape
    <3> QED BY <1>1, <3>1, HexLen, LimitType
  <2>7. Limit(call.ws)' = Limit(call.ws)
    BY <1>1, <1>2 DEF Limit
  <2>8. call'.max = Limit(call.ws) - (7 + hexnumlen(last) + hexnumlen(call.left))
    BY <2>4, <2>6
  <2> DEFINE len == call.left
  <2>9. call'.addr + call'.left - 1 <= last /\ call'.left <= len
    BY <1>2, <1>3, <2>3
  <2>10. call'.max = Limit(call.ws)' - (7 + hexnumlen(last) + hexnumlen(len))
    BY <2>7, <2>8
  <2>11. len \in 0..CoreSpace /\ len = call.left
    BY <2>5
  <2> HIDE DEF len
  <2>12. \E l \in 0..(CoreSpace - 1), m \in 0..CoreSpace : RoomFor(l, m)'
    BY <2>3, <2>9, <2>10, <2>11 DEF RoomFor
  <2> QED BY <1>2, <2>1, <2>12 DEF Planned
<1>7. PacketFits'
  BY <1>2 DEF PacketFits
<1> QED BY <1>4, <1>5, <1>6, <1>7 DEF SizeInv

\* The bytes of a reply come from the stub's addresses.
LEMMA ReceivedType ==
  ASSUME SizeInv, NEW n \in Nat
  PROVE  buf \o Received(n) \in Seq(0..(MaskSpace - 1))
<1>1. pkt.addr \in Int /\ buf \in Seq(0..(MaskSpace - 1))
  BY DEF SizeInv, ReadInv, Shape, Packets, Bounded
<1>2. ASSUME NEW k \in 1..n PROVE (pkt.addr + k - 1) % MaskSpace \in 0..(MaskSpace - 1)
  <2> DEFINE x == pkt.addr + k - 1
  <2>1. x \in Int
    BY <1>1
  <2> HIDE DEF x
  <2>2. x % MaskSpace \in 0..(MaskSpace - 1)
    BY <2>1, MemoryAssumption, ModDef
  <2> QED BY <2>2 DEF x
<1>3. Received(n) \in [1..n -> 0..(MaskSpace - 1)]
  BY <1>2 DEF Received
<1>4. Received(n) \in Seq(0..(MaskSpace - 1))
  <2> DEFINE D == 0..(MaskSpace - 1)
             f == Received(n)
  <2>1. f \in [1..n -> D]
    BY <1>3
  <2> HIDE DEF D, f
  <2>2. f \in Seq(D)
    BY <2>1
  <2> QED BY <2>2 DEF D, f
<1> QED BY <1>1, <1>4, ConcatProperties

\* Every step keeps the sizes.
LEMMA SizeNext ==
  ASSUME SizesSuffice, SizeInv, [Next]_vars
  PROVE  SizeInv'
<1>1. ReadInv'
  BY ReadNext DEF SizeInv
<1>2. /\ buf \in Seq(0..(MaskSpace - 1)) /\ remote_binary_length \in -1..PBUFSIZ
      /\ -1 \in -1..PBUFSIZ /\ call.orig \in Int /\ call.left \in Int /\ reply.n \in Int
  BY MemoryAssumption DEF SizeInv, Bounded, ReadInv, Shape
<1>3. CASE UNCHANGED vars
  <2>1. Connected'
    BY <1>3 DEF vars, SizeInv, Connected, Called, Timeouts
  <2>2. Bounded'
    BY <1>3 DEF vars, SizeInv, Bounded
  <2>3. Planned'
    BY <1>3 DEF vars, SizeInv, Planned, Called, RoomFor, Limit
  <2>4. PacketFits'
    BY <1>3 DEF vars, SizeInv, PacketFits, Timeouts
  <2> QED BY <1>1, <2>1, <2>2, <2>3, <2>4 DEF SizeInv
<1>4. CASE Start
  BY <1>1, <1>4, StartFits
<1>5. CASE SendBinary \/ SendHex \/ SendRead
  BY <1>1, <1>5, BinaryFits, HexFits, RequestFits
<1>6. CASE StubWrites \/ StubReads \/ NoReply
  <2>1. /\ UNCHANGED <<conn, pkt>> /\ buf' = buf /\ remote_binary_length' = remote_binary_length
        /\ \E r, n : Reply(r, n) /\ call.pc = "stub"
    BY <1>6 DEF StubWrites, StubReads, NoReply, blen
  <2> QED BY <1>1, <1>2, <2>1, AnswerFits
<1>7. CASE TransferDone \/ TransferQuits \/ WriteFails \/ ReadFails \/ ReadQuits
  <2>1. /\ UNCHANGED <<conn, pkt>> /\ buf' = buf /\ remote_binary_length' \in {-1, remote_binary_length}
        /\ \E n \in Int : Return(n)
    BY <1>2, <1>7 DEF TransferDone, TransferQuits, WriteFails, ReadFails, ReadQuits, blen
  <2> QED BY <1>1, <1>2, <2>1, AnswerFits
<1>8. CASE WriteRefused
  BY <1>1, <1>8, RefusalFits
<1>9. CASE WriteGoesOn
  <2>1. /\ UNCHANGED <<conn, pkt>> /\ buf' = buf /\ remote_binary_length' = -1
        /\ call.pc = "reply" /\ Advance
    BY <1>9 DEF WriteGoesOn
  <2> QED BY <1>1, <1>2, <2>1, AdvanceFits
<1>10. CASE ReadShort \/ ReadGoesOn
  <2>1. /\ UNCHANGED <<conn, pkt>> /\ buf' = buf \o Received(reply.n)
        /\ remote_binary_length' = remote_binary_length
        /\ call.pc = "reply" /\ call.op = "read" /\ reply.is = "data"
        /\ Advance \/ Return(reply.n + (call.orig - call.left))
    BY <1>10 DEF ReadShort, ReadGoesOn, blen
  <2>2. reply.n \in Nat
    <3>1. reply.n \in 0..pkt.n /\ pkt.n \in Int
      BY <2>1 DEF SizeInv, ReadInv, Reading, Shape, Packets
    <3> QED BY <3>1
  <2>3. buf' \in Seq(0..(MaskSpace - 1))
    BY <2>1, <2>2, ReceivedType
  <2>4. reply.n + (call.orig - call.left) \in Int
    BY <1>2
  <2>5. CASE Advance
    BY <1>1, <1>2, <2>1, <2>3, <2>5, AdvanceFits
  <2>6. CASE Return(reply.n + (call.orig - call.left))
    BY <1>1, <1>2, <2>1, <2>3, <2>4, <2>6, AnswerFits
  <2> QED BY <2>1, <2>5, <2>6
<1>11. CASE Connect \/ SetBinaryDownload
  <2>1. call.pc = "idle" /\ UNCHANGED <<remote_binary_length, call, pkt, buf, world>>
    BY <1>11 DEF Connect, SetBinaryDownload, blen
  <2>2. Connected'
    <3>1. CASE SetBinaryDownload
      BY <2>1, <3>1 DEF SetBinaryDownload, SizeInv, Connected, Timeouts, Called
    <3>2. CASE Connect
      <4>1. stub'.regs \in RegSizes /\ RegSizes \subseteq 1..(PBUFSIZ - 32)
        BY <3>2, MemoryAssumption DEF Connect
      <4>2. stub'.regs # 0
        BY <4>1, MemoryAssumption
      <4>3. \/ remote_register_buf_size' = remote_register_buf_size /\ remote_register_buf_size # 0
            \/ remote_register_buf_size' = stub'.regs
            \/ Timeouts /\ remote_register_buf_size' = LongTimeout
        BY <3>2 DEF Connect, FirstReply
      <4>4. LongTimeout # 0
        BY DEF LongTimeout
      <4> QED BY <2>1, <4>1, <4>2, <4>3, <4>4 DEF SizeInv, Connected, Timeouts, Called
    <3> QED BY <1>11, <3>1, <3>2
  <2>3. Bounded'
    BY <2>1 DEF SizeInv, Bounded
  <2>4. Planned' /\ PacketFits'
    BY <2>1 DEF Planned, PacketFits, Called
  <2> QED BY <1>1, <2>2, <2>3, <2>4 DEF SizeInv
<1> QED BY <1>3, <1>4, <1>5, <1>6, <1>7, <1>8, <1>9, <1>10, <1>11 DEF Next, Step

LEMMA SizeInit == Init => SizeInv
<1> SUFFICES ASSUME Init PROVE SizeInv
  OBVIOUS
<1>1. Connected
  BY DEF Init, Connected, Called
<1>2. Bounded
  BY MemoryAssumption DEF Init, Bounded, NoPacket
<1>3. Planned /\ PacketFits
  BY DEF Init, Planned, PacketFits, Called
<1> QED BY <1>1, <1>2, <1>3, ReadInit DEF SizeInv

\* A packet is what was meant and what the stub can take (PacketRight): it goes out whole, it fits
\* into the stub's buffer and into GDB's, so that putpkt never aborts, and every variable keeps its
\* type, for all addresses, lengths, escapes and packet sizes that leave room for a header.  The
\* writing of 'm', 'M' and 'X' packets in remote_read_bytes and remote_write_bytes.
THEOREM PacketsFit ==
  ASSUME SizesSuffice
  PROVE  Spec => []PacketRight
<1>1. ASSUME SizeInv PROVE PacketRight
  <2>1. TypeOK
    <3>1. /\ call.pos \in Nat /\ call.left \in Nat /\ call.total \in Nat /\ pkt.sent \in Nat
          /\ call.pos + call.left = call.total /\ pkt.sent <= call.total
      BY <1>1 DEF SizeInv, ReadInv, Shape, Packets, Bounded
    <3>2. call.pos \in 0..call.total /\ call.left \in 0..call.total /\ pkt.sent \in 0..call.total
      BY <3>1
    <3>3. stub \in [regs : RegSizes \cup {0}, x : BOOLEAN]
      <4>1. stub \in [regs : Nat, x : BOOLEAN] /\ stub.regs \in RegSizes \cup {0}
        BY <1>1 DEF SizeInv, ReadInv, Shape, Connected
      <4> QED BY <4>1
    <3> QED BY <1>1, <3>2, <3>3 DEF TypeOK, SizeInv, ReadInv, Shape, Packets, Connected, Bounded
  <2>2. PacketWhole
    BY <1>1 DEF SizeInv, ReadInv, LengthReset, PacketWhole
  <2> QED BY <1>1, <2>1, <2>2 DEF SizeInv, PacketRight
<1>2. SizeInv /\ [Next]_vars => SizeInv'
  BY SizeNext
<1> QED BY <1>1, <1>2, SizeInit, PTL DEF Spec

=============================================================================
