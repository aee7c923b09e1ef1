---------------------------- MODULE RemoteMemory ----------------------------
(***************************************************************************)
(* Memory transfers of GDB's remote target: remote_write_bytes and         *)
(* remote_read_bytes (gdb/remote.c) cut a transfer into packets that the   *)
(* stub's buffer can hold, in hex ('M', 'm') or escaped binary ('X').      *)
(* These are the callbacks through which the data cache of module DCache   *)
(* reaches the target; the packet layer under them is module RemoteLink.   *)
(*                                                                         *)
(* Bytes are named by where they come from: 1, 2, ... are the bytes of the *)
(* caller's buffer, 0 is what memory held before the call, Junk a          *)
(* character that is not part of the data.                                 *)
(***************************************************************************)
EXTENDS Integers, Sequences, FiniteSets

CONSTANTS
  PBUFSIZ,     \* size of GDB's packet buffers
  WriteSizes,  \* values of "set remotewritesize"
  RegSizes,    \* characters in the stub's reply to 'g'
  Addrs, Lens, \* addresses and lengths of the transfers
  Specials,    \* which bytes of the buffer are '$', '#' or 0x7d
  CoreSpace,   \* CORE_ADDR arithmetic is modulo CoreSpace
  MaskSpace,   \* 2 ^ remote_address_size
  Worlds       \* what can go wrong, at most: "errors" (the stub reports an error, or sends only
               \* part of a read), "timeouts" (getpkt gives up on a reply) and "quits" (putpkt
               \* or getpkt is left through error() or a quit)

\* PBUFSIZ is at least REGISTER_BYTES * 2 + 32 (remote.c:462-469).  CoreSpace and MaskSpace are
\* both powers of 2.
ASSUME MemoryAssumption ==
  /\ PBUFSIZ \in Nat /\ WriteSizes \subseteq Nat /\ Addrs \subseteq 0..(CoreSpace - 1)
  /\ RegSizes \subseteq 1..(PBUFSIZ - 32)
  /\ MaskSpace \in Nat \ {0} /\ CoreSpace \in Nat \ {0} /\ CoreSpace % MaskSpace = 0
  /\ Lens \subseteq 1..MaskSpace
  /\ Worlds \subseteq SUBSET {"errors", "timeouts", "quits"}

VARIABLES
  remote_binary_download,   \* are writes sent with 'X'?
  remote_register_buf_size, \* length of the first reply to 'g', 0 before it
  remote_binary_length,     \* length of the 'X' packet being sent, or -1
  stub,    \* the stub GDB is connected to: its 'g' reply, and does it know 'X'
  mem,     \* the stub's memory
  call,    \* the transfer
  pkt,     \* the packet that is on its way to the stub
  reply,   \* what getpkt has put into the buffer
  buf,     \* what a read has stored into the caller's buffer
  world    \* the one of Worlds that GDB is in

vars == <<remote_binary_download, remote_register_buf_size, remote_binary_length, stub,
          mem, call, pkt, reply, buf, world>>
conn == <<remote_binary_download, remote_register_buf_size, stub, world>>
Errors == "errors" \in world
Timeouts == "timeouts" \in world
Quits == "quits" \in world
blen == remote_binary_length

Junk == -1
LongTimeout == 7     \* strlen ("timeout")
Mem == [0..(MaskSpace - 1) -> Int]
Least(a, b) == IF a < b THEN a ELSE b

\* Hex digits in num; a negative one is sent as an unsigned of 16 digits.
hexnumlen(num) ==
  IF num < 0 THEN 16
  ELSE CHOOSE n \in 1..16 : (n = 16 \/ num < 16^n) /\ \A k \in 1..(n - 1) : ~(num < 16^k)

remote_address_masked(addr) == addr % MaskSpace

-----------------------------------------------------------------------------
(* The size of packets.                                                    *)

\* Mutant of Limit: the stub's buffer is forgotten.
LimitBuffer(ws) == Least(ws, PBUFSIZ)

Limit(ws) ==
  IF remote_register_buf_size = 0 THEN Least(ws, PBUFSIZ)
  ELSE Least(Least(ws, PBUFSIZ), remote_register_buf_size)

\* Room for data once $M<memaddr>,<len>:#nn is subtracted.
WriteRoom(ws, addr, len) ==
  Limit(ws) - (2 + hexnumlen((addr + len - 1) % CoreSpace) + 1 + hexnumlen(len) + 4)

\* Escapes needed for n bytes of the buffer from position pos on.
Escapes(pos, n) == Cardinality({k \in 1..n : pos + k \in call.special})

\* Bytes that go into an 'X' packet: todo of them, or as many as there is room
\* for once they are escaped.
BinaryCount(todo) ==
  IF todo <= 0 THEN 0
  ELSE CHOOSE i \in 0..todo :
         /\ i = todo \/ i + Escapes(call.pos, i) >= call.max - 2
         /\ \A j \in 0..(i - 1) : j + Escapes(call.pos, j) < call.max - 2

\* Mutant of Todo: a packet is always full.
TodoRoom(room) == room

\* Bytes to go into the next packet.
Todo(room) == Least(call.left, room)

Data(pos, n) == [k \in 1..n |-> pos + k]

\* putpkt: the number of characters it takes from the buffer, which holds a
\* string of length len.
Count(len) == IF remote_binary_download /\ blen # -1 THEN blen ELSE len

-----------------------------------------------------------------------------
(* The transfers.                                                          *)

NoAnswer == [is |-> "none", n |-> 0]
NoPacket == [kind |-> "none", addr |-> 0, n |-> 0, body |-> << >>, chars |-> 0, sent |-> 0, cnt |-> 0]

\* remote_write_bytes and remote_read_bytes are entered.
StartWrite(a, len, ws, special) ==
  /\ call.pc = "idle" /\ stub.regs > 0
  /\ call' = [pc |-> "send", op |-> "write", start |-> a, addr |-> a, pos |-> 0, left |-> len,
              orig |-> len, total |-> len, ws |-> ws, special |-> special,
              max |-> WriteRoom(ws, a, len), ret |-> -1]
  /\ mem' = [x \in DOMAIN mem |-> 0]
  /\ buf' = << >> /\ pkt' = NoPacket /\ reply' = NoAnswer
  /\ UNCHANGED <<conn, blen>>

StartRead(a, len, ws) ==
  /\ call.pc = "idle" /\ stub.regs > 0
  /\ call' = [pc |-> "send", op |-> "read", start |-> a, addr |-> a, pos |-> 0, left |-> len,
              orig |-> len, total |-> len, ws |-> ws, special |-> {},
              max |-> Limit(ws), ret |-> -1]
  /\ mem' = [x \in DOMAIN mem |-> 0]
  /\ buf' = << >> /\ pkt' = NoPacket /\ reply' = NoAnswer
  /\ UNCHANGED <<conn, blen>>

\* The transfer returns n.
Return(n) == call' = [call EXCEPT !.pc = "idle", !.ret = n]

\* 'X': the length field was written for todo bytes; when fewer go in, a shorter
\* number and its ':' are written over it, and what stood there stays.
BinaryPacket(addr, todo, i) ==
  LET digits == hexnumlen(todo)
      stray == IF i < todo THEN digits - hexnumlen(i) ELSE 0
      chars == 2 + hexnumlen(addr) + 1 + digits + 1 + i + Escapes(call.pos, i) + 3
  IN [kind |-> "X", addr |-> addr, n |-> IF i < todo THEN i ELSE todo, sent |-> i,
      body |-> [k \in 1..stray |-> Junk] \o Data(call.pos, i),
      chars |-> chars, cnt |-> chars - 4]

SendBinary ==
  /\ call.pc = "send" /\ call.op = "write" /\ call.left > 0
  /\ remote_binary_download
  /\ LET addr == remote_address_masked(call.addr)
         todo == Todo(call.max)
     IN /\ pkt' = BinaryPacket(addr, todo, BinaryCount(todo))
        /\ remote_binary_length' = pkt'.cnt
        /\ call' = [call EXCEPT !.pc = "stub", !.addr = addr]
  /\ UNCHANGED <<conn, mem, reply, buf>>

\* 'M': two digits for every byte.
SendHex ==
  /\ call.pc = "send" /\ call.op = "write" /\ call.left > 0
  /\ ~remote_binary_download
  /\ LET addr == remote_address_masked(call.addr)
         todo == Todo(call.max \div 2)
         i == IF todo < 0 THEN 0 ELSE todo
         chars == 2 + hexnumlen(addr) + 1 + hexnumlen(todo) + 1 + 2 * i + 3
     IN /\ pkt' = [kind |-> "M", addr |-> addr, n |-> todo, body |-> Data(call.pos, i), sent |-> i,
                   chars |-> chars, cnt |-> Count(chars - 4)]
        /\ call' = [call EXCEPT !.pc = "stub", !.addr = addr]
  /\ UNCHANGED <<conn, blen, mem, reply, buf>>

\* 'm': ask for as many bytes as the reply has room for.
SendRead ==
  /\ call.pc = "send" /\ call.op = "read" /\ call.left > 0
  /\ LET addr == remote_address_masked(call.addr)
         todo == Todo(call.max \div 2)
         chars == 2 + hexnumlen(addr) + 1 + hexnumlen(todo) + 3
     IN /\ pkt' = [kind |-> "m", addr |-> addr, n |-> todo, body |-> << >>, sent |-> todo,
                   chars |-> chars, cnt |-> Count(chars - 4)]
        /\ call' = [call EXCEPT !.pc = "stub", !.addr = addr]
  /\ UNCHANGED <<conn, blen, mem, reply, buf>>

\* The loop is over.
TransferDone ==
  /\ call.pc = "send" /\ call.left <= 0
  /\ Return(call.orig)
  /\ UNCHANGED <<conn, blen, mem, pkt, reply, buf>>

-----------------------------------------------------------------------------
(* The stub, as remote.c uses it.                                          *)

\* Memory after the first k bytes of the body are stored.
Stored(k) ==
  [x \in DOMAIN mem |->
     IF (x - pkt.addr) % MaskSpace < k THEN pkt.body[((x - pkt.addr) % MaskSpace) + 1] ELSE mem[x]]

Reply(r, n) == reply' = [is |-> r, n |-> n] /\ call' = [call EXCEPT !.pc = "reply"]

\* The stub takes as many bytes as the length field says.  One that it cannot
\* make sense of gets any answer; so gdbserver's int length.
StubWrites ==
  /\ call.pc = "stub" /\ pkt.kind \in {"M", "X"}
  /\ \/ pkt.kind = "X" /\ ~stub.x /\ Reply("empty", 0) /\ UNCHANGED mem
     \/ /\ pkt.kind = "X" => stub.x
        /\ \/ pkt.n >= 0 /\ mem' = Stored(pkt.n) /\ Reply("OK", 0)
           \/ pkt.n < 0 /\ UNCHANGED mem /\ (Reply("OK", 0) \/ (Errors /\ Reply("E", 0)))
           \/ Errors /\ \E k \in 0..pkt.n : mem' = Stored(k) /\ Reply("E", 0)
  /\ UNCHANGED <<conn, blen, pkt, buf>>

\* A read is answered with all bytes, with fewer, or with an error.  So is, but
\* never with data, a request that was cut off or has garbage after it.
StubReads ==
  /\ call.pc = "stub" /\ pkt.kind = "m"
  /\ \/ pkt.cnt = pkt.chars - 4 /\ Reply("data", pkt.n)
     \/ pkt.cnt # pkt.chars - 4 /\ Reply("data", 0)
     \/ Errors /\ \E k \in 0..(pkt.n - 1) : Reply("data", k)
     \/ Errors /\ Reply("E", 0)
  /\ UNCHANGED <<conn, blen, mem, pkt, buf>>

\* The stub stores the bytes, and GDB does not hear of it.
Unheard ==
  /\ pkt.kind = "M" \/ (pkt.kind = "X" /\ stub.x)
  /\ pkt.n >= 0 /\ mem' = Stored(pkt.n)

\* The packet layer gives up on the reply: the buffer says "timeout", and the
\* stub may or may not have had the packet.
NoReply ==
  /\ Timeouts /\ call.pc = "stub"
  /\ UNCHANGED mem \/ Unheard
  /\ Reply("timeout", 0)
  /\ UNCHANGED <<conn, blen, pkt, buf>>

\* Control leaves the transfer for the command loop.
TransferQuits ==
  /\ Quits /\ call.pc = "stub"
  /\ UNCHANGED mem \/ Unheard
  /\ Return(-1)
  /\ UNCHANGED <<conn, blen, pkt, reply, buf>>

-----------------------------------------------------------------------------
(* The reply.                                                              *)

\* Mutant of Advance: the transfer moves on by what was planned.
AdvancePlanned ==
  LET todo == IF pkt.kind = "X" THEN Least(call.left, call.max) ELSE pkt.sent
  IN call' = [call EXCEPT !.pc = "send", !.addr = (@ + todo) % CoreSpace, !.pos = @ + todo,
                          !.left = @ - todo]

\* Mutant of Advance: the address stays behind.
AdvanceSameAddress ==
  call' = [call EXCEPT !.pc = "send", !.pos = @ + pkt.sent, !.left = @ - pkt.sent]

Advance ==
  call' = [call EXCEPT !.pc = "send", !.addr = (@ + pkt.sent) % CoreSpace, !.pos = @ + pkt.sent,
                       !.left = @ - pkt.sent]

\* Mutant of WriteRefused: 'X' is tried again.
RefusedKeepsBinary ==
  /\ call.pc = "reply" /\ call.op = "write" /\ reply.is = "empty" /\ remote_binary_download
  /\ call' = [call EXCEPT !.pc = "send", !.orig = call.left,
                          !.max = WriteRoom(call.ws, call.addr, call.left)]
  /\ remote_binary_length' = -1
  /\ UNCHANGED <<conn, mem, pkt, reply, buf>>

\* The stub does not know 'X': start over with what is left, in hex.
WriteRefused ==
  /\ call.pc = "reply" /\ call.op = "write" /\ reply.is = "empty" /\ remote_binary_download
  /\ remote_binary_download' = FALSE
  /\ call' = [call EXCEPT !.pc = "send", !.orig = call.left,
                          !.max = WriteRoom(call.ws, call.addr, call.left)]
  /\ remote_binary_length' = -1
  /\ UNCHANGED <<remote_register_buf_size, stub, mem, pkt, reply, buf, world>>

WriteFails ==
  /\ call.pc = "reply" /\ call.op = "write" /\ reply.is = "E"
  /\ Return(0)
  /\ remote_binary_length' = -1
  /\ UNCHANGED <<conn, mem, pkt, reply, buf>>

\* Mutant of WriteGoesOn: remote_binary_length is not reset.
GoesOnNoReset ==
  /\ call.pc = "reply" /\ call.op = "write"
  /\ reply.is # "E" /\ ~(reply.is = "empty" /\ remote_binary_download)
  /\ Advance
  /\ UNCHANGED <<conn, blen, mem, pkt, reply, buf>>

\* Whatever else the buffer says, the bytes count as written.
WriteGoesOn ==
  /\ call.pc = "reply" /\ call.op = "write"
  /\ reply.is # "E" /\ ~(reply.is = "empty" /\ remote_binary_download)
  /\ Advance
  /\ remote_binary_length' = -1
  /\ UNCHANGED <<conn, mem, pkt, reply, buf>>

ReadFails ==
  /\ call.pc = "reply" /\ call.op = "read" /\ reply.is = "E"
  /\ Return(0)
  /\ UNCHANGED <<conn, blen, mem, pkt, reply, buf>>

\* fromhex does not like "timeout" and leaves through error().
ReadQuits ==
  /\ call.pc = "reply" /\ call.op = "read" /\ reply.is = "timeout"
  /\ Return(-1)
  /\ UNCHANGED <<conn, blen, mem, pkt, reply, buf>>

Received(n) == [k \in 1..n |-> (pkt.addr + k - 1) % MaskSpace]

\* Mutant of ReadShort: the bytes of earlier packets are not counted.
ReadShortAlone ==
  /\ call.pc = "reply" /\ call.op = "read" /\ reply.n < pkt.n /\ reply.is = "data"
  /\ buf' = buf \o Received(reply.n)
  /\ Return(reply.n)
  /\ UNCHANGED <<conn, blen, mem, pkt, reply>>

\* A short reply ends the transfer with what there is.
ReadShort ==
  /\ call.pc = "reply" /\ call.op = "read" /\ reply.n < pkt.n /\ reply.is = "data"
  /\ buf' = buf \o Received(reply.n)
  /\ Return(reply.n + (call.orig - call.left))
  /\ UNCHANGED <<conn, blen, mem, pkt, reply>>

ReadGoesOn ==
  /\ call.pc = "reply" /\ call.op = "read" /\ reply.n = pkt.n /\ reply.is = "data"
  /\ buf' = buf \o Received(reply.n)
  /\ Advance
  /\ UNCHANGED <<conn, blen, mem, pkt, reply>>

-----------------------------------------------------------------------------
(* The connection.                                                         *)

\* remote_fetch_registers: what remote_register_buf_size can be after the first
\* stop of a target behind stub s.  Only the first reply counts, even if it did
\* not come and the buffer says "timeout".
FirstReply(s) ==
  IF remote_register_buf_size # 0 THEN {remote_register_buf_size}
  ELSE {s.regs} \cup IF Timeouts THEN {LongTimeout} ELSE {}

\* remote_open_1: another stub.  What is known of the last one stays known; GDB
\* reads the registers when it has connected.
Connect ==
  /\ call.pc = "idle"
  /\ stub' \in [regs : RegSizes, x : BOOLEAN]
  /\ remote_register_buf_size' \in FirstReply(stub')
  /\ UNCHANGED <<remote_binary_download, blen, mem, call, pkt, reply, buf, world>>

\* "set remotebinarydownload".
SetBinaryDownload ==
  /\ call.pc = "idle"
  /\ remote_binary_download' = ~remote_binary_download
  /\ UNCHANGED <<remote_register_buf_size, stub, blen, mem, call, pkt, reply, buf, world>>

Init ==
  /\ remote_binary_download = TRUE
  /\ remote_register_buf_size = 0
  /\ remote_binary_length = -1
  /\ stub = [regs |-> 0, x |-> FALSE]
  /\ mem = [x \in 0..(MaskSpace - 1) |-> 0]
  /\ call = [pc |-> "idle", op |-> "none", start |-> 0, addr |-> 0, pos |-> 0, left |-> 0,
             orig |-> 0, total |-> 0, ws |-> 0, special |-> {}, max |-> 0, ret |-> -1]
  /\ pkt = NoPacket /\ reply = NoAnswer /\ buf = << >>
  /\ world \in Worlds

Start ==
  \E a \in Addrs, len \in Lens, ws \in WriteSizes :
    (\E special \in Specials : StartWrite(a, len, ws, special)) \/ StartRead(a, len, ws)

Step ==
  \/ SendBinary \/ SendHex \/ SendRead \/ TransferDone
  \/ StubWrites \/ StubReads \/ NoReply \/ TransferQuits
  \/ WriteRefused \/ WriteFails \/ WriteGoesOn
  \/ ReadFails \/ ReadQuits \/ ReadShort \/ ReadGoesOn

Next == Start \/ Step \/ Connect \/ SetBinaryDownload

Spec == Init /\ [][Next]_vars

\* GDB runs until the transfer returns, and the stub answers.
FairSpec == Spec /\ WF_vars(Step)

-----------------------------------------------------------------------------
(* Properties.                                                             *)

\* Every variable stays in its type.
TypeOK ==
  /\ remote_binary_download \in BOOLEAN
  /\ remote_register_buf_size \in RegSizes \cup {0, LongTimeout}
  /\ remote_binary_length \in -1..PBUFSIZ
  /\ stub \in [regs : RegSizes \cup {0}, x : BOOLEAN]
  /\ mem \in Mem
  /\ call.pc \in {"idle", "send", "stub", "reply"} /\ call.op \in {"none", "write", "read"}
  /\ call.pos \in 0..call.total /\ call.left \in 0..call.total /\ call.addr \in 0..(CoreSpace - 1)
  /\ pkt.kind \in {"none", "M", "X", "m"} /\ pkt.sent \in 0..call.total
  /\ reply.is \in {"none", "OK", "E", "empty", "timeout", "data"}
  /\ buf \in Seq(0..(MaskSpace - 1))

\* Memory when exactly the first n bytes of the buffer are in it.
Image(n) ==
  [x \in DOMAIN mem |-> LET k == (x - call.start) % MaskSpace IN IF k < n THEN k + 1 ELSE 0]

Answered == ~Timeouts /\ ~Quits

\* "Write memory data directly to the remote machine ... Returns number of bytes
\* transferred, or 0 for error" (remote.c:2101-2107): a write stores the bytes
\* of the buffer in order, each at its own address and no other; when the next
\* packet is made the bytes before it are in memory, and a count that is
\* returned is the number of bytes that are.  A reply that is lost or not waited
\* for counts as "OK", so this is for transfers that are answered.
PrefixStored ==
  (Answered /\ call.op = "write") =>
    \E n \in call.pos..call.total :
      /\ mem = Image(n)
      /\ call.pc = "send" \/ call.ret > 0 => n = call.pos
      /\ call.ret > 0 => call.ret = n

\* The length field of an 'X' packet kept its digits: only the data follows its ':'.
LengthKept == (call.pc = "stub" /\ pkt.kind = "X") => Len(pkt.body) = pkt.sent

\* Lost replies may leave gaps, but a byte that a write has stored anywhere is
\* the byte of the buffer that belongs there (the loop moves myaddr, memaddr and
\* len by the same count, remote.c:2231-2235).
OnlyOwnBytes ==
  call.op = "write" =>
    \A x \in DOMAIN mem : mem[x] # 0 => mem[x] = ((x - call.start) % MaskSpace) + 1

\* A read that returns n has put n bytes into the buffer, from consecutive
\* addresses (remote.c:2240-2246), whatever was lost or abandoned before.
ReadsRight ==
  call.op = "read" =>
    /\ buf = [k \in 1..Len(buf) |-> (call.start + k - 1) % MaskSpace]
    /\ call.ret > 0 => call.ret = Len(buf)

\* The size of the first reply to 'g' limits memory packets "to prevent stub
\* buffers from overflowing" (remote.c:492-495), and putpkt's sanity check
\* never aborts GDB (remote.c:2505), once that reply was one of the stub.
PacketFits ==
  (~Timeouts /\ call.pc = "stub") => pkt.chars <= stub.regs /\ pkt.chars - 4 <= PBUFSIZ - 5

\* "If the value is -1 and remote_binary_download is true, then putpkt behaves
\* normally" (remote.c:446-449): a packet goes out as it was made, neither cut
\* off nor with garbage after it, if no transfer was abandoned before.
PacketWhole == (~Quits /\ call.pc = "stub") => pkt.cnt = pkt.chars - 4

\* Whatever a call returns is true: a write has stored that many bytes and a read has put that
\* many into the buffer (remote_write_bytes, remote_read_bytes).
CountsTrue == PrefixStored /\ ReadsRight

\* A packet is what was meant and what the stub can take (remote_write_bytes, putpkt).
PacketRight == TypeOK /\ PacketFits /\ PacketWhole

\* Every transfer returns, even if others were abandoned, once the size of the stub's packets
\* was learnt from a reply of the stub.
TransferReturns == (~Timeouts /\ call.pc # "idle") ~> (call.pc = "idle")

=============================================================================
