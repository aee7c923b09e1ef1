----------------------------- MODULE RemoteLink -----------------------------
(***************************************************************************)
(* The packet layer of GDB's remote protocol: putpkt and getpkt of the     *)
(* host (gdb/remote.c) against putpkt and getpkt of gdbserver              *)
(* (gdb/gdbserver/remote-utils.c), over a line that may lose or garble     *)
(* characters.  Both sides are modelled character by character, because    *)
(* most of what can go wrong is a matter of which loop eats a character.   *)
(*                                                                         *)
(* A packet is sent as the characters  $ body # checksum ; the body of the *)
(* command with number k, and of the reply to it, is the one character k,  *)
(* and so is its checksum.  The numbers are for the properties: neither    *)
(* side looks at them, except to compare a checksum with the body it got.  *)
(***************************************************************************)
EXTENDS Naturals, Sequences

CONSTANTS
  NCmds,       \* command numbers 1..NCmds are used over and over
  MAX_TRIES,   \* tries of the host's getpkt
  MaxTimeouts, \* timeouts after which the host's putpkt gives up
  MaxFaults,   \* bound on the number of characters lost or garbled
  Slow,        \* may a timeout overtake characters that are on their way?
  MaxQueue,    \* bound on the characters sent ahead of a slow server
  Forever      \* values of getpkt's argument "forever" in the calls made

ASSUME LinkAssumption ==
  /\ NCmds \in Nat \ {0} /\ MAX_TRIES \in Nat \ {0} /\ MaxTimeouts \in Nat
  /\ MaxFaults \in Nat /\ Slow \in BOOLEAN /\ MaxQueue \in Nat
  /\ Forever \subseteq BOOLEAN

VARIABLES
  h,       \* GDB: where it is in putpkt or getpkt, and its counters
  s,       \* gdbserver: where it is, and the packet it holds
  h2s,     \* characters from GDB to gdbserver
  s2h,     \* characters from gdbserver to GDB
  sbuf,    \* the static buffer of gdbserver's readchar
  cmd,     \* the command GDB is at, or was last at
  runs,    \* how often gdbserver has carried that command out, up to MaxRuns
  faults   \* characters lost or garbled so far

vars == <<h, s, h2s, s2h, sbuf, cmd, runs, faults>>

Cmd == 1..NCmds
MaxRuns == MaxFaults + 2
None == 0            \* nothing collected yet
Bad == NCmds + 1     \* a body that is not one of a packet that was sent

Char == [c : {"$", "#", "+", "-", "?"}, v : {0}] \cup [c : {"d", "x"}, v : Cmd]
Ch(c) == [c |-> c, v |-> 0]

\* A packet on the line; "x" is the checksum.
Packet(k) == <<Ch("$"), [c |-> "d", v |-> k], Ch("#"), [c |-> "x", v |-> k]>>

\* The body collected so far, after one more character.
Collect(acc, ch) == IF acc = None /\ ch.c = "d" THEN ch.v ELSE Bad

\* The checksum is right; it is wrong; fromhex meets a character that is not a
\* hex digit.  A garbled or misplaced digit may be another digit or none.
SumRight(acc, ch) == ch.c = "x" /\ ch.v = acc
SumWrong(acc, ch) == ch.c \in {"d", "?"} \/ (ch.c = "x" /\ ch.v # acc)
NoDigit(ch) == ch.c # "x"

-----------------------------------------------------------------------------
(* GDB.  h.pc is where it waits: "ack" in putpkt, "scan" for a '$' in      *)
(* getpkt, "frame" and "csum" in read_frame.  h.gobble marks the getpkt    *)
(* that putpkt calls to get rid of an old packet.                          *)

\* The call returns to its caller, with packet k if out is "reply".
HostReturn(out, k) ==
  h' = [h EXCEPT !.pc = "idle", !.out = out, !.got = k, !.tries = 0, !.tcount = 0,
                 !.acc = None, !.gobble = FALSE]

\* getpkt returns; from the gobbling one, back to looking for the '+'.
GetpktReturn(out, k) ==
  IF h.gobble THEN h' = [h EXCEPT !.pc = "ack", !.tries = 0, !.acc = None, !.gobble = FALSE]
  ELSE HostReturn(out, k)

\* Mutant of GetpktStart: an old packet is taken for the reply.
GetpktStartOld(gobble) ==
  h' = [h EXCEPT !.pc = "scan", !.tries = 1, !.acc = None, !.gobble = FALSE]

\* getpkt starts; putpkt's caller does not look at what putpkt returned.
GetpktStart(gobble) ==
  h' = [h EXCEPT !.pc = "scan", !.tries = 1, !.acc = None, !.gobble = gobble]

\* Mutant of GetpktRetry: one try too many.
GetpktRetryMore ==
  IF h.tries <= MAX_TRIES
  THEN /\ h2s' = Append(h2s, Ch("-"))
       /\ h' = [h EXCEPT !.pc = "scan", !.tries = @ + 1, !.acc = None]
  ELSE /\ h2s' = h2s \o <<Ch("-"), Ch("+")>>
       /\ GetpktReturn("giveup", None)

\* A '-' asks for the packet again; after MAX_TRIES of them GDB sends a '+' all
\* the same and goes on with what is in its buffer.
GetpktRetry ==
  IF h.tries < MAX_TRIES
  THEN /\ h2s' = Append(h2s, Ch("-"))
       /\ h' = [h EXCEPT !.pc = "scan", !.tries = @ + 1, !.acc = None]
  ELSE /\ h2s' = h2s \o <<Ch("-"), Ch("+")>>
       /\ GetpktReturn("giveup", None)

\* A command: putpkt sends the packet; then getpkt(buf, forever).
HostCall ==
  /\ h.pc = "idle"
  /\ Slow => Len(h2s) <= MaxQueue
  /\ cmd' = (cmd % NCmds) + 1
  /\ runs' = 0
  /\ h2s' = h2s \o Packet(cmd')
  /\ \E forever \in Forever :
       h' = [pc |-> "ack", tcount |-> 0, tries |-> 0, acc |-> None, gobble |-> FALSE,
             forever |-> forever, out |-> "none", got |-> None]
  /\ UNCHANGED <<s, s2h, sbuf, faults>>

\* readchar(remote_timeout) returns a character.
HostReads(pc) == h.pc = pc /\ s2h # << >> /\ s2h' = Tail(s2h)

\* putpkt: '+' ends it; '$' is an old packet that getpkt is to gobble, though
\* its '$' is gone already; anything else, a '-' too, is junk.
HostAck ==
  /\ HostReads("ack")
  /\ \/ Head(s2h).c = "+" /\ GetpktStart(FALSE)
     \/ Head(s2h).c = "$" /\ GetpktStart(TRUE)
     \/ Head(s2h).c \notin {"+", "$"} /\ UNCHANGED h
  /\ UNCHANGED <<s, h2s, sbuf, cmd, runs, faults>>

\* gdbserver waits for a character that is not there.
ServerBlocked ==
  /\ h2s = << >>
  /\ \/ s.pc = "ack"
     \/ s.pc \in {"scan", "body", "csum"} /\ sbuf = << >>

\* readchar(remote_timeout) times out: nothing has arrived, and nothing will if
\* the line and the server are fast.
TimedOut == s2h = << >> /\ (ServerBlocked \/ (Slow /\ Len(h2s) <= MaxQueue))

\* putpkt: retransmit, or return 0, which remote_send does not look at.
AckTimeout ==
  /\ h.pc = "ack" /\ TimedOut
  /\ IF h.tcount < MaxTimeouts
     THEN h2s' = h2s \o Packet(cmd) /\ h' = [h EXCEPT !.tcount = @ + 1]
     ELSE GetpktStart(FALSE) /\ UNCHANGED h2s
  /\ UNCHANGED <<s, s2h, sbuf, cmd, runs, faults>>

\* getpkt: skip to a '$'.
HostScan ==
  /\ HostReads("scan")
  /\ h' = IF Head(s2h).c = "$" THEN [h EXCEPT !.pc = "frame", !.acc = None] ELSE h
  /\ UNCHANGED <<s, h2s, sbuf, cmd, runs, faults>>

\* Mutant of ScanTimeout: getpkt always waits forever.
ScanNeverTimesOut ==
  /\ h.pc = "scan" /\ TimedOut
  /\ h.gobble
  /\ GetpktRetry
  /\ UNCHANGED <<s, s2h, sbuf, cmd, runs, faults>>

\* getpkt waits forever for the start of a packet if remote_wait called it.
ScanTimeout ==
  /\ h.pc = "scan" /\ TimedOut
  /\ h.forever => h.gobble
  /\ GetpktRetry
  /\ UNCHANGED <<s, s2h, sbuf, cmd, runs, faults>>

\* read_frame: up to the '#'; a '$' starts over.
HostFrame ==
  /\ HostReads("frame")
  /\ \/ Head(s2h).c = "$" /\ GetpktRetry
     \/ Head(s2h).c = "#" /\ h' = [h EXCEPT !.pc = "csum"] /\ UNCHANGED h2s
     \/ /\ Head(s2h).c \notin {"$", "#"}
        /\ h' = [h EXCEPT !.acc = Collect(h.acc, Head(s2h))] /\ UNCHANGED h2s
  /\ UNCHANGED <<s, sbuf, cmd, runs, faults>>

FrameTimeout ==
  /\ h.pc = "frame" /\ TimedOut
  /\ GetpktRetry
  /\ UNCHANGED <<s, s2h, sbuf, cmd, runs, faults>>

\* read_frame: the checksum.  fromhex leaves through error().
HostCsum ==
  /\ HostReads("csum")
  /\ \/ SumRight(h.acc, Head(s2h)) /\ h2s' = Append(h2s, Ch("+")) /\ GetpktReturn("reply", h.acc)
     \/ SumWrong(h.acc, Head(s2h)) /\ GetpktRetry
     \/ NoDigit(Head(s2h)) /\ HostReturn("error", None) /\ UNCHANGED h2s
  /\ UNCHANGED <<s, sbuf, cmd, runs, faults>>

CsumTimeout ==
  /\ h.pc = "csum" /\ TimedOut
  /\ HostReturn("error", None)
  /\ UNCHANGED <<s, h2s, s2h, sbuf, cmd, runs, faults>>

-----------------------------------------------------------------------------
(* gdbserver.  s.pc is "scan", "body" or "csum" in getpkt, "exec" in the   *)
(* main loop's switch, "ack" in putpkt.                                    *)

\* readchar: read() returns some of what has been sent.
ServerFill ==
  /\ s.pc \in {"scan", "body", "csum"} /\ sbuf = << >>
  /\ \E n \in 1..Len(h2s) : /\ sbuf' = SubSeq(h2s, 1, n)
                            /\ h2s' = SubSeq(h2s, n + 1, Len(h2s))
  /\ UNCHANGED <<h, s, s2h, cmd, runs, faults>>

ServerReads(pc) == s.pc = pc /\ sbuf # << >> /\ sbuf' = Tail(sbuf)

\* getpkt: discard up to a '$'.
ServerScan ==
  /\ ServerReads("scan")
  /\ s' = IF Head(sbuf).c = "$" THEN [pc |-> "body", acc |-> None] ELSE s
  /\ UNCHANGED <<h, h2s, s2h, cmd, runs, faults>>

\* getpkt: collect up to the '#', a '$' too.
ServerBody ==
  /\ ServerReads("body")
  /\ s' = IF Head(sbuf).c = "#" THEN [s EXCEPT !.pc = "csum"]
          ELSE [s EXCEPT !.acc = Collect(s.acc, Head(sbuf))]
  /\ UNCHANGED <<h, h2s, s2h, cmd, runs, faults>>

\* Mutant of ServerCsum: a good packet is not acknowledged.
ServerCsumSilent ==
  /\ ServerReads("csum")
  /\ \/ SumRight(s.acc, Head(sbuf)) /\ s' = [s EXCEPT !.pc = "exec"] /\ UNCHANGED s2h
     \/ /\ SumWrong(s.acc, Head(sbuf))
        /\ s2h' = Append(s2h, Ch("-")) /\ s' = [pc |-> "scan", acc |-> None]
     \/ NoDigit(Head(sbuf)) /\ s' = [pc |-> "scan", acc |-> None] /\ UNCHANGED s2h
  /\ UNCHANGED <<h, h2s, cmd, runs, faults>>

\* getpkt: the checksum.  error() jumps back to getpkt without an answer.
ServerCsum ==
  /\ ServerReads("csum")
  /\ \/ SumRight(s.acc, Head(sbuf)) /\ s2h' = Append(s2h, Ch("+")) /\ s' = [s EXCEPT !.pc = "exec"]
     \/ /\ SumWrong(s.acc, Head(sbuf))
        /\ s2h' = Append(s2h, Ch("-")) /\ s' = [pc |-> "scan", acc |-> None]
     \/ NoDigit(Head(sbuf)) /\ s' = [pc |-> "scan", acc |-> None] /\ UNCHANGED s2h
  /\ UNCHANGED <<h, h2s, cmd, runs, faults>>

\* The main loop carries the command out; putpkt sends the reply.
ServerExec ==
  /\ s.pc = "exec"
  /\ runs' = IF s.acc = cmd /\ runs < MaxRuns THEN runs + 1 ELSE runs
  /\ s2h' = s2h \o Packet(s.acc)
  /\ s' = [s EXCEPT !.pc = "ack"]
  /\ UNCHANGED <<h, h2s, sbuf, cmd, faults>>

\* putpkt reads the line itself, past readchar's buffer, one character for each
\* time that it sends the reply.
ServerAck ==
  /\ s.pc = "ack" /\ h2s # << >>
  /\ h2s' = Tail(h2s)
  /\ IF Head(h2s).c = "+"
     THEN s' = [pc |-> "scan", acc |-> None] /\ UNCHANGED s2h
     ELSE s2h' = s2h \o Packet(s.acc) /\ UNCHANGED s
  /\ UNCHANGED <<h, sbuf, cmd, runs, faults>>

-----------------------------------------------------------------------------
(* The line: the next character to arrive is lost, or garbled into one     *)
(* that means nothing.                                                     *)

Hit(q, q2) == \/ q2 = Tail(q)
              \/ Head(q).c # "?" /\ q2 = <<Ch("?")>> \o Tail(q)

LineFault ==
  /\ faults < MaxFaults
  /\ faults' = faults + 1
  /\ \/ h2s # << >> /\ Hit(h2s, h2s') /\ UNCHANGED s2h
     \/ s2h # << >> /\ Hit(s2h, s2h') /\ UNCHANGED h2s
  /\ UNCHANGED <<h, s, sbuf, cmd, runs>>

Init ==
  /\ h = [pc |-> "idle", tcount |-> 0, tries |-> 0, acc |-> None, gobble |-> FALSE,
          forever |-> FALSE, out |-> "none", got |-> None]
  /\ s = [pc |-> "scan", acc |-> None]
  /\ h2s = << >> /\ s2h = << >> /\ sbuf = << >>
  /\ cmd = NCmds /\ runs = 0 /\ faults = 0

HostStep ==
  \/ HostAck \/ AckTimeout \/ HostScan \/ ScanTimeout \/ HostFrame \/ FrameTimeout
  \/ HostCsum \/ CsumTimeout

ServerStep ==
  \/ ServerFill \/ ServerScan \/ ServerBody \/ ServerCsum \/ ServerExec \/ ServerAck

Next == HostCall \/ HostStep \/ ServerStep \/ LineFault

Spec == Init /\ [][Next]_vars

\* Both programs keep running; a child that was resumed stops some time; the
\* user need not give another command.
FairSpec == Spec /\ WF_vars(HostStep) /\ WF_vars(ServerStep)

\* The user goes on giving commands, and the program stops each time.
BusySpec == FairSpec /\ WF_vars(HostCall)

-----------------------------------------------------------------------------
(* Properties.                                                             *)

\* Every variable stays in its type.
TypeOK ==
  /\ h \in [pc : {"idle", "ack", "scan", "frame", "csum"}, tcount : 0..MaxTimeouts,
            tries : 0..MAX_TRIES, acc : 0..Bad, gobble : BOOLEAN, forever : BOOLEAN,
            out : {"none", "reply", "giveup", "error"}, got : 0..Bad]
  /\ s \in [pc : {"scan", "body", "csum", "exec", "ack"}, acc : 0..Bad]
  /\ h2s \in Seq(Char) /\ s2h \in Seq(Char) /\ sbuf \in Seq(Char)
  /\ cmd \in Cmd /\ runs \in 0..MaxRuns /\ faults \in 0..MaxFaults

\* A packet has no number, so that gdbserver carries out again what GDB sends
\* again.  Each character that is lost or garbled makes it do so at most once
\* more, however the two putpkts and getpkts get out of step; and after three of
\* them it does not yet take, from the buffer of its readchar or from the line, a
\* command that GDB has left behind for the next one.
RepeatsAccounted ==
  /\ runs <= 1 + faults
  /\ s.pc = "exec" /\ faults <= 3 => s.acc = cmd

\* A packet that a command returns with is the reply to that command, which
\* gdbserver has carried out.
ReplyMatches == h.pc = "idle" /\ h.out = "reply" => h.got = cmd /\ runs > 0

\* A command is carried out at most once, and not after GDB has gone on to the
\* next one.
ExecutedOnce == runs <= 1 /\ (s.pc = "exec" => s.acc = cmd)

\* A command that does not wait for the program returns, whatever the line does.
HostReturns == (h.pc # "idle" /\ ~h.forever) ~> (h.pc = "idle")

\* Once the line behaves, commands get their replies again, and are carried out
\* once, unless GDB waits for ever for a stop reply that was lost.
Recovers ==
  []<>(h.pc = "idle") =>
    <>[](ReplyMatches /\ ExecutedOnce /\ h.out \notin {"giveup", "error"})

\* On a line that works, every command is carried out once and its own reply
\* comes back: two loops of characters implement a procedure call.
Calls == INSTANCE RemoteCall WITH busy <- h.pc # "idle", got <- h.got

ImplementsCalls == Calls!Spec

=============================================================================
