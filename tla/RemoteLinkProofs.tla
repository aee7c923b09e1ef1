-------------------------- MODULE RemoteLinkProofs --------------------------
(***************************************************************************)
(* Theorems about the packet layer, for every number of faults, tries and  *)
(* timeouts, on a fast and on a slow line.                                 *)
(***************************************************************************)
EXTENDS RemoteLink, SequenceTheorems, TLAPS

\* What getpkt of either side has accepted is a number; the type of the lines
\* rests on it, because a reply is made from that body.
AcceptedIsCmd ==
  /\ s.pc \in {"exec", "ack"} => s.acc \in Cmd
  /\ h.out = "reply" => h.got \in Cmd

LinkInv == TypeOK /\ AcceptedIsCmd

-----------------------------------------------------------------------------
(* Facts about the operators.                                              *)

HostState ==
  [pc : {"idle", "ack", "scan", "frame", "csum"}, tcount : 0..MaxTimeouts,
   tries : 0..MAX_TRIES, acc : 0..Bad, gobble : BOOLEAN, forever : BOOLEAN,
   out : {"none", "reply", "giveup", "error"}, got : 0..Bad]

ServerState == [pc : {"scan", "body", "csum", "exec", "ack"}, acc : 0..Bad]

\* What the host has accepted, and what the server has, is the number of a command.
HostSent(x) == x.out = "reply" => x.got \in Cmd
ServerSent(x) == x.pc \in {"exec", "ack"} => x.acc \in Cmd

LEMMA NumberFacts ==
  /\ 0 \in 0..Bad /\ None \in 0..Bad /\ Bad \in 0..Bad /\ Cmd \subseteq 0..Bad
  /\ None \notin Cmd /\ 0 \in 0..MaxTimeouts /\ 0 \in 0..MAX_TRIES /\ 1 \in 0..MAX_TRIES
  /\ MaxRuns \in Nat /\ 2 <= MaxRuns /\ 0 \in 0..MaxRuns
BY LinkAssumption DEF None, Bad, Cmd, MaxRuns

LEMMA CharFacts ==
  /\ \A c \in {"$", "#", "+", "-", "?"} : Ch(c) \in Char
  /\ \A k \in Cmd : Packet(k) \in Seq(Char)
  /\ \A ch \in Char : ch.c \in {"d", "x"} => ch.v \in Cmd
<1>1. \A c \in {"$", "#", "+", "-", "?"} : Ch(c) \in Char
  BY DEF Ch, Char
<1>2. \A ch \in Char : ch.c \in {"d", "x"} => ch.v \in Cmd
  BY DEF Char
<1>3. ASSUME NEW k \in Cmd PROVE Packet(k) \in Seq(Char)
  <2>1. [c |-> "d", v |-> k] \in Char /\ [c |-> "x", v |-> k] \in Char
    BY DEF Char
  <2> QED BY <1>1, <2>1 DEF Packet
<1> QED BY <1>1, <1>2, <1>3

\* The body stays a number, whatever is collected into it.
LEMMA CollectType ==
  ASSUME NEW acc \in 0..Bad, NEW ch \in Char
  PROVE  Collect(acc, ch) \in 0..Bad
BY NumberFacts, CharFacts DEF Collect

\* A body whose checksum is right is the number of a command.
LEMMA SumRightSent ==
  ASSUME NEW acc, NEW ch \in Char, SumRight(acc, ch)
  PROVE  acc \in Cmd
BY CharFacts DEF SumRight

\* The ways a host call moves on.
LEMMA HostMoves ==
  ASSUME LinkInv
  PROVE  /\ \A out \in {"giveup", "error"} :
              HostReturn(out, None) => h' \in HostState /\ HostSent(h')
         /\ \A out \in {"giveup", "error"} :
              GetpktReturn(out, None) => h' \in HostState /\ HostSent(h')
         /\ \A k \in Cmd : GetpktReturn("reply", k) => h' \in HostState /\ HostSent(h')
         /\ \A g \in BOOLEAN : GetpktStart(g) => h' \in HostState /\ HostSent(h')
         /\ GetpktRetry => h' \in HostState /\ HostSent(h') /\ h2s' \in Seq(Char)
<1>a. h \in HostState /\ HostSent(h) /\ h2s \in Seq(Char)
  BY DEF LinkInv, TypeOK, HostState, AcceptedIsCmd, HostSent
<1> USE NumberFacts
<1>1. ASSUME NEW out \in {"reply", "giveup", "error"}, NEW k \in 0..Bad, HostReturn(out, k),
             out = "reply" => k \in Cmd
      PROVE  h' \in HostState /\ HostSent(h')
  <2>1. h' \in HostState
    BY <1>a, <1>1 DEF HostReturn, HostState
  <2>2. h'.out = out /\ h'.got = k
    BY <1>a, <1>1 DEF HostReturn, HostState
  <2> QED BY <1>1, <2>1, <2>2 DEF HostSent
<1>2. ASSUME NEW out \in {"reply", "giveup", "error"}, NEW k \in 0..Bad, GetpktReturn(out, k),
             out = "reply" => k \in Cmd
      PROVE  h' \in HostState /\ HostSent(h')
  <2>1. CASE h.gobble
    <3>1. h' = [h EXCEPT !.pc = "ack", !.tries = 0, !.acc = None, !.gobble = FALSE]
      BY <1>2, <2>1 DEF GetpktReturn
    <3>2. h' \in HostState
      BY <1>a, <3>1 DEF HostState
    <3>3. h'.out = h.out /\ h'.got = h.got
      BY <1>a, <3>1 DEF HostState
    <3> QED BY <1>a, <3>2, <3>3 DEF HostSent
  <2>2. CASE ~h.gobble
    BY <1>1, <1>2, <2>2 DEF GetpktReturn
  <2> QED BY <2>1, <2>2
<1>3. ASSUME NEW g \in BOOLEAN, GetpktStart(g)
      PROVE  h' \in HostState /\ HostSent(h')
  <2>1. h' = [h EXCEPT !.pc = "scan", !.tries = 1, !.acc = None, !.gobble = g]
    BY <1>3 DEF GetpktStart
  <2>2. h' \in HostState
    BY <1>a, <2>1 DEF HostState
  <2>3. h'.out = h.out /\ h'.got = h.got
    BY <1>a, <2>1 DEF HostState
  <2> QED BY <1>a, <2>2, <2>3 DEF HostSent
<1>4. ASSUME GetpktRetry
      PROVE  h' \in HostState /\ HostSent(h') /\ h2s' \in Seq(Char)
  <2>1. CASE h.tries < MAX_TRIES
    <3>1. h' = [h EXCEPT !.pc = "scan", !.tries = @ + 1, !.acc = None]
      BY <1>4, <2>1 DEF GetpktRetry
    <3>2. h.tries + 1 \in 0..MAX_TRIES
      BY <1>a, <2>1, LinkAssumption DEF HostState
    <3>3. h' \in HostState
      BY <1>a, <3>1, <3>2 DEF HostState
    <3>4. h'.out = h.out /\ h'.got = h.got
      BY <1>a, <3>1 DEF HostState
    <3>5. h2s' \in Seq(Char)
      BY <1>a, <1>4, <2>1, CharFacts DEF GetpktRetry
    <3> QED BY <1>a, <3>3, <3>4, <3>5 DEF HostSent
  <2>2. CASE ~(h.tries < MAX_TRIES)
    <3>1. h2s' = h2s \o <<Ch("-"), Ch("+")>> /\ GetpktReturn("giveup", None)
      BY <1>4, <2>2 DEF GetpktRetry
    <3>2. <<Ch("-"), Ch("+")>> \in Seq(Char)
      BY CharFacts
    <3> QED BY <1>2, <1>a, <3>1, <3>2
  <2> QED BY <2>1, <2>2
<1> QED BY <1>1, <1>2, <1>3, <1>4

-----------------------------------------------------------------------------
(* The invariant.                                                          *)

LEMMA InitLink == Init => LinkInv
<1> SUFFICES ASSUME Init PROVE LinkInv
  OBVIOUS
<1>1. h \in HostState /\ HostSent(h) /\ s \in ServerState
  BY NumberFacts DEF Init, HostState, HostSent, ServerState
<1>2. cmd \in Cmd /\ runs \in 0..MaxRuns /\ faults \in 0..MaxFaults
  BY LinkAssumption, NumberFacts DEF Init, Cmd
<1> QED BY <1>1, <1>2
     DEF Init, LinkInv, TypeOK, AcceptedIsCmd, HostState, ServerState, HostSent

LEMMA StepLink == LinkInv /\ [Next]_vars => LinkInv'
<1> SUFFICES ASSUME LinkInv, [Next]_vars PROVE LinkInv'
  OBVIOUS
<1>a. /\ h \in HostState /\ HostSent(h) /\ s \in ServerState /\ ServerSent(s)
      /\ h2s \in Seq(Char) /\ s2h \in Seq(Char) /\ sbuf \in Seq(Char)
      /\ cmd \in Cmd /\ runs \in 0..MaxRuns /\ faults \in 0..MaxFaults
  BY DEF LinkInv, TypeOK, AcceptedIsCmd, HostState, ServerState, HostSent, ServerSent
<1>b. SUFFICES /\ h' \in HostState /\ HostSent(h') /\ s' \in ServerState /\ ServerSent(s')
               /\ h2s' \in Seq(Char) /\ s2h' \in Seq(Char) /\ sbuf' \in Seq(Char)
               /\ cmd' \in Cmd /\ runs' \in 0..MaxRuns /\ faults' \in 0..MaxFaults
  BY DEF LinkInv, TypeOK, AcceptedIsCmd, HostState, ServerState, HostSent, ServerSent
<1>c. \A pc : HostReads(pc) => Head(s2h) \in Char /\ s2h' \in Seq(Char)
  BY <1>a DEF HostReads
<1>d. \A pc : ServerReads(pc) => Head(sbuf) \in Char /\ sbuf' \in Seq(Char)
  BY <1>a DEF ServerReads
<1> USE NumberFacts
<1>1. CASE HostCall
  <2>1. cmd' \in Cmd /\ runs' \in 0..MaxRuns
    BY <1>1, <1>a, LinkAssumption DEF HostCall, Cmd
  <2>2. h2s' \in Seq(Char)
    BY <1>1, <1>a, <2>1, CharFacts DEF HostCall
  <2>3. h' \in HostState /\ HostSent(h')
    BY <1>1, LinkAssumption DEF HostCall, HostState, HostSent
  <2> QED BY <1>1, <1>a, <2>1, <2>2, <2>3 DEF HostCall
<1>2. CASE HostAck
  <2>1. h' \in HostState /\ HostSent(h')
    BY <1>2, <1>a, HostMoves DEF HostAck
  <2> QED BY <1>2, <1>a, <1>c, <2>1 DEF HostAck
<1>3. CASE AckTimeout
  <2>1. CASE h.tcount < MaxTimeouts
    <3>1. h' = [h EXCEPT !.tcount = @ + 1] /\ h2s' = h2s \o Packet(cmd)
      BY <1>3, <2>1 DEF AckTimeout
    <3>2. h.tcount + 1 \in 0..MaxTimeouts
      BY <1>a, <2>1, LinkAssumption DEF HostState
    <3>3. h' \in HostState
      BY <1>a, <3>1, <3>2 DEF HostState
    <3>4. h'.out = h.out /\ h'.got = h.got
      BY <1>a, <3>1 DEF HostState
    <3>5. h2s' \in Seq(Char)
      BY <1>a, <3>1, CharFacts
    <3> QED BY <1>3, <1>a, <3>3, <3>4, <3>5 DEF AckTimeout, HostSent
  <2>2. CASE ~(h.tcount < MaxTimeouts)
    <3>1. h' \in HostState /\ HostSent(h')
      BY <1>3, <2>2, HostMoves DEF AckTimeout
    <3> QED BY <1>3, <1>a, <2>2, <3>1 DEF AckTimeout
  <2> QED BY <2>1, <2>2
<1>4. CASE HostScan
  <2>1. h' = h \/ h' = [h EXCEPT !.pc = "frame", !.acc = None]
    BY <1>4 DEF HostScan
  <2>2. h' \in HostState /\ h'.out = h.out /\ h'.got = h.got
    BY <1>a, <2>1 DEF HostState
  <2> QED BY <1>4, <1>a, <1>c, <2>2 DEF HostScan, HostSent
<1>5. CASE ScanTimeout \/ FrameTimeout
  <2>1. h' \in HostState /\ HostSent(h') /\ h2s' \in Seq(Char)
    BY <1>5, HostMoves DEF ScanTimeout, FrameTimeout
  <2> QED BY <1>5, <1>a, <2>1 DEF ScanTimeout, FrameTimeout
<1>6. CASE HostFrame
  <2>1. CASE GetpktRetry
    <3>1. h' \in HostState /\ HostSent(h') /\ h2s' \in Seq(Char)
      BY <2>1, HostMoves
    <3> QED BY <1>6, <1>a, <1>c, <3>1 DEF HostFrame
  <2>2. CASE h' = [h EXCEPT !.pc = "csum"] /\ UNCHANGED h2s
    <3>1. h' \in HostState /\ h'.out = h.out /\ h'.got = h.got
      BY <1>a, <2>2 DEF HostState
    <3> QED BY <1>6, <2>2, <1>a, <1>c, <3>1 DEF HostFrame, HostSent
  <2>3. CASE h' = [h EXCEPT !.acc = Collect(h.acc, Head(s2h))] /\ UNCHANGED h2s
    <3>1. h.acc \in 0..Bad
      BY <1>a DEF HostState
    <3>2. Collect(h.acc, Head(s2h)) \in 0..Bad
      BY <1>6, <1>c, <3>1, CollectType DEF HostFrame
    <3>3. h' \in HostState /\ h'.out = h.out /\ h'.got = h.got
      BY <1>a, <2>3, <3>2 DEF HostState
    <3> QED BY <1>6, <2>3, <1>a, <1>c, <3>3 DEF HostFrame, HostSent
  <2> QED BY <1>6, <2>1, <2>2, <2>3 DEF HostFrame
<1>7. CASE HostCsum
  <2>1. CASE SumRight(h.acc, Head(s2h)) /\ h2s' = Append(h2s, Ch("+")) /\ GetpktReturn("reply", h.acc)
    <3>1. h.acc \in Cmd
      BY <1>7, <1>c, <2>1, SumRightSent DEF HostCsum
    <3>2. h' \in HostState /\ HostSent(h')
      BY <2>1, <3>1, HostMoves
    <3>3. h2s' \in Seq(Char)
      BY <1>a, <2>1, CharFacts
    <3> QED BY <1>7, <1>a, <1>c, <3>2, <3>3 DEF HostCsum
  <2>2. CASE GetpktRetry
    <3>1. h' \in HostState /\ HostSent(h') /\ h2s' \in Seq(Char)
      BY <2>2, HostMoves
    <3> QED BY <1>7, <1>a, <1>c, <3>1 DEF HostCsum
  <2>3. CASE HostReturn("error", None) /\ UNCHANGED h2s
    <3>1. h' \in HostState /\ HostSent(h')
      BY <2>3, HostMoves
    <3> QED BY <1>7, <1>a, <1>c, <2>3, <3>1 DEF HostCsum
  <2> QED BY <1>7, <2>1, <2>2, <2>3 DEF HostCsum
<1>8. CASE CsumTimeout
  <2>1. h' \in HostState /\ HostSent(h')
    BY <1>8, HostMoves DEF CsumTimeout
  <2> QED BY <1>8, <1>a, <2>1 DEF CsumTimeout
<1>9. CASE ServerFill
  <2>1. PICK n \in 1..Len(h2s) : /\ sbuf' = SubSeq(h2s, 1, n)
                                 /\ h2s' = SubSeq(h2s, n + 1, Len(h2s))
    BY <1>9 DEF ServerFill
  <2>2. sbuf' \in Seq(Char) /\ h2s' \in Seq(Char)
    BY <1>a, <2>1
  <2> QED BY <1>9, <1>a, <2>2 DEF ServerFill
<1>10. CASE ServerScan
  <2>1. s' = s \/ s' = [pc |-> "body", acc |-> None]
    BY <1>10 DEF ServerScan
  <2>2. s' \in ServerState /\ ServerSent(s')
    BY <1>a, <2>1 DEF ServerState, ServerSent
  <2> QED BY <1>10, <1>a, <1>d, <2>2 DEF ServerScan
<1>11. CASE ServerBody
  <2>1. s.acc \in 0..Bad /\ s.pc = "body"
    BY <1>11, <1>a DEF ServerBody, ServerReads, ServerState
  <2>2. Collect(s.acc, Head(sbuf)) \in 0..Bad
    BY <1>11, <1>d, <2>1, CollectType DEF ServerBody
  <2>3. s' = [s EXCEPT !.pc = "csum"] \/ s' = [s EXCEPT !.acc = Collect(s.acc, Head(sbuf))]
    BY <1>11 DEF ServerBody
  <2>4. s' \in ServerState /\ s'.pc \in {"body", "csum"}
    BY <1>a, <2>1, <2>2, <2>3 DEF ServerState
  <2> QED BY <1>11, <1>a, <1>d, <2>4 DEF ServerBody, ServerSent
<1>12. CASE ServerCsum
  <2>1. CASE SumRight(s.acc, Head(sbuf)) /\ s2h' = Append(s2h, Ch("+")) /\ s' = [s EXCEPT !.pc = "exec"]
    <3>1. s.acc \in Cmd
      BY <1>12, <1>d, <2>1, SumRightSent DEF ServerCsum
    <3>2. s' \in ServerState /\ s'.acc = s.acc
      BY <1>a, <2>1 DEF ServerState
    <3>3. s2h' \in Seq(Char)
      BY <1>a, <2>1, CharFacts
    <3> QED BY <1>12, <1>a, <1>d, <3>1, <3>2, <3>3 DEF ServerCsum, ServerSent
  <2>2. CASE (s2h' = Append(s2h, Ch("-")) \/ s2h' = s2h) /\ s' = [pc |-> "scan", acc |-> None]
    <3>1. s' \in ServerState /\ ServerSent(s')
      BY <2>2 DEF ServerState, ServerSent
    <3>2. CASE s2h' = s2h
      BY <1>12, <1>a, <1>d, <3>1, <3>2 DEF ServerCsum
    <3>3. CASE s2h' = Append(s2h, Ch("-"))
      <4>1. s2h' \in Seq(Char)
        BY <1>a, <3>3, CharFacts
      <4> QED BY <1>12, <1>a, <1>d, <3>1, <4>1 DEF ServerCsum
    <3> QED BY <2>2, <3>2, <3>3
  <2> QED BY <1>12, <2>1, <2>2 DEF ServerCsum
<1>13. CASE ServerExec
  <2>1. s.acc \in Cmd
    BY <1>13, <1>a DEF ServerExec, ServerSent
  <2>2. s2h' \in Seq(Char)
    BY <1>13, <1>a, <2>1, CharFacts DEF ServerExec
  <2>3. s' \in ServerState /\ s'.acc = s.acc
    BY <1>13, <1>a DEF ServerExec, ServerState
  <2>4. runs' \in 0..MaxRuns
    BY <1>13, <1>a DEF ServerExec
  <2> QED BY <1>13, <1>a, <2>1, <2>2, <2>3, <2>4 DEF ServerExec, ServerSent
<1>14. CASE ServerAck
  <2>1. s.acc \in Cmd /\ h2s' \in Seq(Char)
    BY <1>14, <1>a DEF ServerAck, ServerSent
  <2>2. s2h' \in Seq(Char)
    <3>1. Packet(s.acc) \in Seq(Char)
      BY <2>1, CharFacts
    <3>2. s2h' = s2h \/ s2h' = s2h \o Packet(s.acc)
      BY <1>14 DEF ServerAck
    <3>3. CASE s2h' = s2h
      BY <1>a, <3>3
    <3>4. CASE s2h' = s2h \o Packet(s.acc)
      BY <1>a, <3>1, <3>4
    <3> QED BY <3>2, <3>3, <3>4
  <2>3. s' = s \/ s' = [pc |-> "scan", acc |-> None]
    BY <1>14 DEF ServerAck
  <2>4. s' \in ServerState /\ ServerSent(s')
    BY <1>a, <2>3 DEF ServerState, ServerSent
  <2> QED BY <1>14, <1>a, <2>1, <2>2, <2>4 DEF ServerAck
<1>15. CASE LineFault
  <2>1. ASSUME NEW q \in Seq(Char), NEW q2, q # << >>, Hit(q, q2)
        PROVE  q2 \in Seq(Char)
    <3>1. Tail(q) \in Seq(Char) /\ <<Ch("?")>> \in Seq(Char)
      BY <2>1, CharFacts
    <3>2. CASE q2 = Tail(q)
      BY <3>1, <3>2
    <3>3. CASE q2 = <<Ch("?")>> \o Tail(q)
      BY <3>1, <3>3
    <3> QED BY <2>1, <3>2, <3>3 DEF Hit
  <2>2. h2s' \in Seq(Char) /\ s2h' \in Seq(Char)
    BY <1>15, <1>a, <2>1 DEF LineFault
  <2>3. faults' \in 0..MaxFaults
    BY <1>15, <1>a, LinkAssumption DEF LineFault
  <2> QED BY <1>15, <1>a, <2>2, <2>3 DEF LineFault
<1>16. CASE UNCHANGED vars
  BY <1>16, <1>a DEF vars, HostSent, ServerSent
<1> QED
  BY <1>1, <1>2, <1>3, <1>4, <1>5, <1>6, <1>7, <1>8, <1>9, <1>10, <1>11, <1>12,
     <1>13, <1>14, <1>15, <1>16 DEF Next, HostStep, ServerStep

\* Every variable of the packet layer keeps its type: in particular the counts
\* of tries and timeouts never run past their limits (putpkt, getpkt).
THEOREM LinkTypeCorrect == Spec => []TypeOK
<1>1. LinkInv => TypeOK
  BY DEF LinkInv
<1> QED BY <1>1, InitLink, StepLink, PTL DEF Spec

-----------------------------------------------------------------------------
(* The line works: no character is lost or garbled, and no timeout         *)
(* overtakes one.  Then the two sides take turns, and at every turn it is  *)
(* known which characters are where.                                       *)

DataCh(k) == [c |-> "d", v |-> k]
SumCh(k) == [c |-> "x", v |-> k]

\* No command is under way; gdbserver may still have to read the last '+'.
Quiet ==
  /\ h.pc = "idle" /\ s2h = << >> /\ sbuf = << >>
  /\ \/ s.pc = "ack" /\ h2s = <<Ch("+")>>
     \/ s.pc = "scan" /\ h2s = << >>
  /\ runs \in {0, 1}
  /\ h.out = "reply" => h.got = cmd /\ runs = 1

\* GDB's command is on its way, perhaps behind the last '+'.
Going ==
  /\ h.pc = "ack" /\ s2h = << >> /\ runs = 0
  /\ \/ s.pc = "ack" /\ sbuf = << >> /\ h2s = <<Ch("+")>> \o Packet(cmd)
     \/ s.pc = "scan" /\ sbuf \o h2s = Packet(cmd)
     \/ s.pc = "body" /\ s.acc = None /\ sbuf \o h2s = <<DataCh(cmd), Ch("#"), SumCh(cmd)>>
     \/ s.pc = "body" /\ s.acc = cmd /\ sbuf \o h2s = <<Ch("#"), SumCh(cmd)>>
     \/ s.pc = "csum" /\ s.acc = cmd /\ sbuf \o h2s = <<SumCh(cmd)>>

\* gdbserver has the command, its '+' and then the reply are on their way.
Coming ==
  /\ sbuf = << >> /\ h2s = << >> /\ s.acc = cmd /\ ~h.gobble
  /\ \/ s.pc = "exec" /\ runs = 0 /\ h.pc = "ack" /\ s2h = <<Ch("+")>>
     \/ s.pc = "exec" /\ runs = 0 /\ h.pc = "scan" /\ s2h = << >>
     \/ s.pc = "ack" /\ runs = 1 /\ h.pc = "ack" /\ s2h = <<Ch("+")>> \o Packet(cmd)
     \/ s.pc = "ack" /\ runs = 1 /\ h.pc = "scan" /\ s2h = Packet(cmd)
     \/ /\ s.pc = "ack" /\ runs = 1 /\ h.pc = "frame"
        /\ h.acc = None /\ s2h = <<DataCh(cmd), Ch("#"), SumCh(cmd)>>
     \/ /\ s.pc = "ack" /\ runs = 1 /\ h.pc = "frame"
        /\ h.acc = cmd /\ s2h = <<Ch("#"), SumCh(cmd)>>
     \/ /\ s.pc = "ack" /\ runs = 1 /\ h.pc = "csum"
        /\ h.acc = cmd /\ s2h = <<SumCh(cmd)>>

Turns == Quiet \/ (Going /\ h.got = None /\ ~h.gobble) \/ (Coming /\ h.got = None)

TurnInv == LinkInv /\ Turns

\* Reading from the front of what is buffered reads from the front of what is
\* on its way.
LEMMA ConcatFacts ==
  ASSUME NEW p \in Seq(Char), NEW q \in Seq(Char)
  PROVE  /\ p = << >> => p \o q = q
         /\ p # << >> => Head(p \o q) = Head(p) /\ Tail(p \o q) = Tail(p) \o q
         /\ p \o q = << >> => p = << >> /\ q = << >>
         /\ \A n \in 1..Len(q) : SubSeq(q, 1, n) \o SubSeq(q, n + 1, Len(q)) = q
<1>1. p = << >> => p \o q = q
  OBVIOUS
<1>2. ASSUME p # << >>
      PROVE  Head(p \o q) = Head(p) /\ Tail(p \o q) = Tail(p) \o q
  <2>1. Head(p \o q) = Head(p)
    BY <1>2
  <2>2. Tail(p \o q) \in Seq(Char) /\ Tail(p) \o q \in Seq(Char)
    BY <1>2
  <2>3. Len(Tail(p \o q)) = Len(Tail(p) \o q)
    BY <1>2
  <2>4. \A i \in 1..Len(Tail(p) \o q) : Tail(p \o q)[i] = (Tail(p) \o q)[i]
    BY <1>2
  <2> QED BY <2>1, <2>2, <2>3, <2>4
<1>3. p \o q = << >> => p = << >> /\ q = << >>
  OBVIOUS
<1>4. ASSUME NEW n \in 1..Len(q)
      PROVE  SubSeq(q, 1, n) \o SubSeq(q, n + 1, Len(q)) = q
  <2>1. SubSeq(q, 1, n) \o SubSeq(q, n + 1, Len(q)) = SubSeq(q, 1, Len(q))
    <3>1. 1 \in 1..(Len(q) + 1) /\ n \in (1 - 1)..Len(q) /\ Len(q) \in n..Len(q)
      OBVIOUS
    <3> QED BY <3>1, ConcatAdjacentSubSeq
  <2> QED BY <2>1, SubSeqFull
<1> QED BY <1>1, <1>2, <1>3, <1>4

\* The characters of a packet, one after the other.
LEMMA TupleFacts ==
  ASSUME NEW a, NEW b, NEW c, NEW d
  PROVE  /\ Head(<<a, b, c, d>>) = a /\ Tail(<<a, b, c, d>>) = <<b, c, d>>
         /\ Head(<<a, b, c>>) = a /\ Tail(<<a, b, c>>) = <<b, c>>
         /\ Head(<<a, b>>) = a /\ Tail(<<a, b>>) = <<b>>
         /\ Head(<<a>>) = a /\ Tail(<<a>>) = << >>
         /\ <<a, b, c, d>> # << >> /\ <<a, b, c>> # << >> /\ <<a, b>> # << >> /\ <<a>> # << >>
<1>1. /\ Head(<<a, b, c, d>>) = a /\ Tail(<<a, b, c, d>>) = <<b, c, d>>
      /\ Head(<<a, b, c>>) = a /\ Tail(<<a, b, c>>) = <<b, c>>
  OBVIOUS
<1>2. /\ Head(<<a, b>>) = a /\ Tail(<<a, b>>) = <<b>>
      /\ Head(<<a>>) = a /\ Tail(<<a>>) = << >>
  OBVIOUS
<1>3. <<a, b, c, d>> # << >> /\ <<a, b, c>> # << >> /\ <<a, b>> # << >> /\ <<a>> # << >>
  OBVIOUS
<1> QED BY <1>1, <1>2, <1>3

LEMMA PacketFacts ==
  ASSUME NEW k \in Cmd
  PROVE  /\ Packet(k) \in Seq(Char) /\ Packet(k) # << >>
         /\ Head(Packet(k)) = Ch("$")
         /\ Tail(Packet(k)) = <<DataCh(k), Ch("#"), SumCh(k)>>
         /\ <<Ch("+")>> \o Packet(k) # << >>
         /\ Head(<<Ch("+")>> \o Packet(k)) = Ch("+")
         /\ Tail(<<Ch("+")>> \o Packet(k)) = Packet(k)
         /\ << >> \o Packet(k) = Packet(k)
<1>1. Packet(k) = <<Ch("$"), DataCh(k), Ch("#"), SumCh(k)>>
  BY DEF Packet, DataCh, SumCh
<1>2. Packet(k) \in Seq(Char) /\ <<Ch("+")>> \in Seq(Char)
  BY CharFacts
<1>3. <<Ch("+")>> # << >> /\ Head(<<Ch("+")>>) = Ch("+") /\ Tail(<<Ch("+")>>) = << >>
  BY TupleFacts
<1>4. << >> \o Packet(k) = Packet(k) /\ << >> \in Seq(Char)
  BY <1>2, ConcatFacts
<1>5. /\ Head(<<Ch("+")>> \o Packet(k)) = Ch("+")
      /\ Tail(<<Ch("+")>> \o Packet(k)) = << >> \o Packet(k)
      /\ <<Ch("+")>> \o Packet(k) # << >>
  BY <1>2, <1>3, ConcatFacts
<1>6. /\ Packet(k) # << >> /\ Head(Packet(k)) = Ch("$")
      /\ Tail(Packet(k)) = <<DataCh(k), Ch("#"), SumCh(k)>>
  BY <1>1, TupleFacts
<1> QED BY <1>2, <1>4, <1>5, <1>6

LEMMA ChFacts ==
  /\ Ch("$").c = "$" /\ Ch("#").c = "#" /\ Ch("+").c = "+"
  /\ \A k \in Cmd : /\ DataCh(k).c = "d" /\ DataCh(k).v = k /\ SumCh(k).c = "x" /\ SumCh(k).v = k
                    /\ Collect(None, DataCh(k)) = k
BY DEF Ch, DataCh, SumCh, Collect

\* The first message character decides nothing: a step of gdbserver that takes
\* a character from its buffer takes it from the front of what is on its way.
LEMMA ServerTakes ==
  ASSUME LinkInv, NEW pc, ServerReads(pc)
  PROVE  /\ Head(sbuf) = Head(sbuf \o h2s)
         /\ sbuf' \o h2s = Tail(sbuf \o h2s)
         /\ sbuf \o h2s # << >>
BY ConcatFacts DEF LinkInv, TypeOK, ServerReads

\* Every step keeps the turns, and is a step of the procedure call or invisible.
LEMMA StepTurns ==
  ASSUME MaxFaults = 0, ~Slow, TurnInv, [Next]_vars
  PROVE  Turns' /\ [Calls!Next]_(Calls!vars)
<1> USE DEF TurnInv, LinkInv
<1>a. /\ h \in HostState /\ s \in ServerState /\ cmd \in Cmd
      /\ h2s \in Seq(Char) /\ s2h \in Seq(Char) /\ sbuf \in Seq(Char)
  BY DEF TypeOK, HostState, ServerState
<1>b. UNCHANGED <<h, cmd, runs>> => [Calls!Next]_(Calls!vars)
  BY DEF Calls!vars
<1>c. (h.pc # "idle" <=> h'.pc # "idle") /\ h'.got = h.got /\ UNCHANGED <<cmd, runs>>
        => [Calls!Next]_(Calls!vars)
  BY DEF Calls!vars
<1>d. ASSUME TimedOut
      PROVE  h.pc = "idle"
  <2>1. s2h = << >> /\ ServerBlocked
    BY <1>d DEF TimedOut
  <2>2. ASSUME Going PROVE FALSE
    <3>1. h2s = << >> /\ (s.pc = "ack" \/ sbuf = << >>)
      BY <2>1 DEF ServerBlocked
    <3>2. s.pc # "ack"
      BY <1>a, <2>2, <3>1, PacketFacts DEF Going
    <3>3. sbuf \o h2s = << >>
      BY <1>a, <3>1, <3>2, ConcatFacts
    <3> QED BY <1>a, <2>2, <3>2, <3>3, PacketFacts, TupleFacts DEF Going
  <2>3. ASSUME Coming PROVE FALSE
    <3>1. s.pc # "exec"
      BY <2>1 DEF ServerBlocked
    <3> QED BY <1>a, <2>1, <2>3, <3>1, PacketFacts, TupleFacts DEF Coming
  <2> QED BY <2>2, <2>3 DEF Turns, Quiet
<1>1. CASE HostCall
  <2>1. Quiet
    BY <1>1 DEF HostCall, Turns, Going, Coming
  <2>2. /\ h'.pc = "ack" /\ h'.got = None /\ ~h'.gobble /\ runs' = 0
        /\ cmd' = (cmd % NCmds) + 1 /\ h2s' = h2s \o Packet(cmd')
        /\ UNCHANGED <<s, s2h, sbuf>>
    BY <1>1 DEF HostCall
  <2>3. cmd' \in Cmd
    BY <1>a, <2>2, LinkAssumption DEF Cmd
  <2>4. ASSUME s.pc = "ack" /\ h2s = <<Ch("+")>>
        PROVE  Turns'
    BY <2>1, <2>2, <2>4 DEF Quiet, Going, Turns
  <2>5. ASSUME s.pc = "scan" /\ h2s = << >>
        PROVE  Turns'
    <3>1. h2s' = Packet(cmd')
      BY <2>2, <2>3, <2>5, PacketFacts
    <3>2. sbuf' \o h2s' = Packet(cmd')
      BY <2>1, <2>2, <2>3, <3>1, PacketFacts DEF Quiet
    <3> QED BY <2>1, <2>2, <2>5, <3>2 DEF Quiet, Going, Turns
  <2>6. Calls!Call
    BY <1>1, <2>2 DEF HostCall, Calls!Call, None
  <2> QED BY <2>1, <2>4, <2>5, <2>6 DEF Quiet, Calls!Next
<1>2. CASE HostAck
  <2>1. h.pc = "ack" /\ s2h # << >> /\ s2h' = Tail(s2h) /\ UNCHANGED <<s, h2s, sbuf, cmd, runs>>
    BY <1>2 DEF HostAck, HostReads
  <2>2. Coming /\ h.got = None
    BY <2>1 DEF Turns, Quiet, Going
  <2>3. s2h = <<Ch("+")>> \/ s2h = <<Ch("+")>> \o Packet(cmd)
    BY <2>1, <2>2 DEF Coming
  <2>4. Head(s2h) = Ch("+") /\ Tail(<<Ch("+")>>) = << >>
    BY <1>a, <2>3, PacketFacts, TupleFacts
  <2>5. GetpktStart(FALSE)
    BY <1>2, <2>4, ChFacts DEF HostAck
  <2>6. h'.pc = "scan" /\ h'.got = None /\ ~h'.gobble
    BY <1>a, <2>2, <2>5 DEF GetpktStart, HostState
  <2>7. Coming'
    <3>1. CASE s.pc = "exec" /\ runs = 0 /\ s2h = <<Ch("+")>>
      BY <2>1, <2>2, <2>4, <2>6, <3>1 DEF Coming
    <3>2. CASE s.pc = "ack" /\ runs = 1 /\ s2h = <<Ch("+")>> \o Packet(cmd)
      <4>1. s2h' = Packet(cmd)
        BY <1>a, <2>1, <3>2, PacketFacts
      <4> QED BY <2>1, <2>2, <2>6, <3>2, <4>1 DEF Coming
    <3> QED BY <2>1, <2>2, <3>1, <3>2 DEF Coming
  <2> QED BY <1>c, <2>1, <2>2, <2>6, <2>7 DEF Turns
<1>3. CASE AckTimeout \/ ScanTimeout \/ FrameTimeout \/ CsumTimeout
  BY <1>3, <1>d DEF AckTimeout, ScanTimeout, FrameTimeout, CsumTimeout
<1>4. CASE HostScan
  <2>1. h.pc = "scan" /\ s2h # << >> /\ s2h' = Tail(s2h) /\ UNCHANGED <<s, h2s, sbuf, cmd, runs>>
    BY <1>4 DEF HostScan, HostReads
  <2>2. Coming /\ h.got = None /\ s.pc = "ack" /\ runs = 1 /\ s2h = Packet(cmd)
    BY <2>1 DEF Turns, Quiet, Going, Coming
  <2>3. Head(s2h).c = "$" /\ s2h' = <<DataCh(cmd), Ch("#"), SumCh(cmd)>>
    BY <1>a, <2>1, <2>2, PacketFacts, ChFacts
  <2>4. h'.pc = "frame" /\ h'.acc = None /\ h'.got = None /\ ~h'.gobble
    BY <1>a, <1>4, <2>2, <2>3 DEF HostScan, HostState, Coming
  <2>5. Coming'
    BY <2>1, <2>2, <2>3, <2>4 DEF Coming
  <2> QED BY <1>c, <2>1, <2>2, <2>4, <2>5 DEF Turns
<1>5. CASE HostFrame
  <2>1. h.pc = "frame" /\ s2h' = Tail(s2h) /\ UNCHANGED <<s, sbuf, cmd, runs>>
    BY <1>5 DEF HostFrame, HostReads
  <2>2. Coming /\ h.got = None /\ s.pc = "ack" /\ runs = 1
    BY <2>1 DEF Turns, Quiet, Going, Coming
  <2>3. CASE h.acc = None /\ s2h = <<DataCh(cmd), Ch("#"), SumCh(cmd)>>
    <3>1. Head(s2h) = DataCh(cmd) /\ s2h' = <<Ch("#"), SumCh(cmd)>>
      BY <2>1, <2>3, TupleFacts
    <3>2. h' = [h EXCEPT !.acc = Collect(h.acc, Head(s2h))] /\ UNCHANGED h2s
      BY <1>a, <1>5, <3>1, ChFacts DEF HostFrame
    <3>3. h'.pc = "frame" /\ h'.acc = cmd /\ h'.got = None /\ ~h'.gobble
      BY <1>a, <2>1, <2>2, <2>3, <3>1, <3>2, ChFacts DEF HostState, Coming
    <3>4. Coming'
      BY <2>1, <2>2, <3>1, <3>2, <3>3 DEF Coming
    <3> QED BY <1>c, <2>1, <2>2, <3>3, <3>4 DEF Turns
  <2>4. CASE h.acc = cmd /\ s2h = <<Ch("#"), SumCh(cmd)>>
    <3>1. Head(s2h) = Ch("#") /\ s2h' = <<SumCh(cmd)>>
      BY <2>1, <2>4, TupleFacts
    <3>2. h' = [h EXCEPT !.pc = "csum"] /\ UNCHANGED h2s
      BY <1>5, <3>1, ChFacts DEF HostFrame
    <3>3. h'.pc = "csum" /\ h'.acc = cmd /\ h'.got = None /\ ~h'.gobble
      BY <1>a, <2>1, <2>2, <2>4, <3>2 DEF HostState, Coming
    <3>4. Coming'
      BY <2>1, <2>2, <3>1, <3>2, <3>3 DEF Coming
    <3> QED BY <1>c, <2>1, <2>2, <3>3, <3>4 DEF Turns
  <2> QED BY <2>1, <2>2, <2>3, <2>4 DEF Coming
<1>6. CASE HostCsum
  <2>1. h.pc = "csum" /\ s2h' = Tail(s2h) /\ UNCHANGED <<s, sbuf, cmd, runs>>
    BY <1>6 DEF HostCsum, HostReads
  <2>2. Coming /\ h.got = None /\ s.pc = "ack" /\ runs = 1 /\ h.acc = cmd /\ s2h = <<SumCh(cmd)>>
    BY <2>1 DEF Turns, Quiet, Going, Coming
  <2>3. Head(s2h) = SumCh(cmd) /\ s2h' = << >>
    BY <2>1, <2>2, TupleFacts
  <2>4. h2s' = Append(h2s, Ch("+")) /\ GetpktReturn("reply", cmd)
    BY <1>a, <1>6, <2>2, <2>3, ChFacts DEF HostCsum, SumWrong, NoDigit
  <2>5. h2s' = <<Ch("+")>>
    BY <2>2, <2>4 DEF Coming
  <2>6. h'.pc = "idle" /\ h'.got = cmd
    BY <1>a, <2>2, <2>4 DEF GetpktReturn, HostReturn, HostState, Coming
  <2>7. Quiet'
    BY <2>1, <2>2, <2>3, <2>5, <2>6 DEF Coming, Quiet
  <2>8. Calls!Return
    BY <2>1, <2>2, <2>6 DEF Calls!Return
  <2> QED BY <2>7, <2>8 DEF Turns, Calls!Next
<1>7. CASE ServerFill
  <2>1. /\ s.pc \in {"scan", "body", "csum"} /\ sbuf = << >> /\ UNCHANGED <<h, s, s2h, cmd, runs>>
        /\ \E n \in 1..Len(h2s) : /\ sbuf' = SubSeq(h2s, 1, n)
                                  /\ h2s' = SubSeq(h2s, n + 1, Len(h2s))
    BY <1>7 DEF ServerFill
  <2>2. h2s # << >>
    BY <2>1
  <2>3. Going /\ h.got = None /\ ~h.gobble
    BY <2>1, <2>2 DEF Turns, Quiet, Coming
  <2>4. sbuf' \o h2s' = sbuf \o h2s
    BY <1>a, <2>1, ConcatFacts
  <2>5. Going'
    BY <2>1, <2>3, <2>4 DEF Going
  <2> QED BY <1>b, <2>1, <2>3, <2>5 DEF Turns
<1>8. CASE ServerScan
  <2>1. s.pc = "scan" /\ ServerReads("scan") /\ UNCHANGED <<h, h2s, s2h, cmd, runs>> /\ sbuf # << >>
    BY <1>8 DEF ServerScan, ServerReads
  <2>2. Going /\ h.got = None /\ ~h.gobble /\ sbuf \o h2s = Packet(cmd)
    BY <2>1 DEF Turns, Quiet, Going, Coming
  <2>3. Head(sbuf) = Ch("$") /\ sbuf' \o h2s' = <<DataCh(cmd), Ch("#"), SumCh(cmd)>>
    BY <1>a, <2>1, <2>2, ServerTakes, PacketFacts
  <2>4. s' = [pc |-> "body", acc |-> None]
    BY <1>8, <2>3, ChFacts DEF ServerScan
  <2>5. Going'
    BY <2>1, <2>2, <2>3, <2>4 DEF Going
  <2> QED BY <1>b, <2>1, <2>2, <2>5 DEF Turns
<1>9. CASE ServerBody
  <2>1. s.pc = "body" /\ ServerReads("body") /\ UNCHANGED <<h, h2s, s2h, cmd, runs>>
    BY <1>9 DEF ServerBody, ServerReads
  <2>2. Going /\ h.got = None /\ ~h.gobble
    BY <2>1 DEF Turns, Quiet, Coming
  <2>3. CASE s.acc = None /\ sbuf \o h2s = <<DataCh(cmd), Ch("#"), SumCh(cmd)>>
    <3>1. Head(sbuf) = DataCh(cmd) /\ sbuf' \o h2s' = <<Ch("#"), SumCh(cmd)>>
      BY <2>1, <2>3, ServerTakes, TupleFacts
    <3>2. s' = [s EXCEPT !.acc = cmd]
      BY <1>a, <1>9, <2>3, <3>1, ChFacts DEF ServerBody
    <3>3. s'.pc = "body" /\ s'.acc = cmd
      BY <1>a, <2>1, <3>2 DEF ServerState
    <3>4. Going'
      BY <2>1, <2>2, <3>1, <3>3 DEF Going
    <3> QED BY <1>b, <2>1, <2>2, <3>4 DEF Turns
  <2>4. CASE s.acc = cmd /\ sbuf \o h2s = <<Ch("#"), SumCh(cmd)>>
    <3>1. Head(sbuf) = Ch("#") /\ sbuf' \o h2s' = <<SumCh(cmd)>>
      BY <2>1, <2>4, ServerTakes, TupleFacts
    <3>2. s' = [s EXCEPT !.pc = "csum"]
      BY <1>9, <3>1, ChFacts DEF ServerBody
    <3>3. s'.pc = "csum" /\ s'.acc = cmd
      BY <1>a, <2>4, <3>2 DEF ServerState
    <3>4. Going'
      BY <2>1, <2>2, <3>1, <3>3 DEF Going
    <3> QED BY <1>b, <2>1, <2>2, <3>4 DEF Turns
  <2> QED BY <2>1, <2>2, <2>3, <2>4 DEF Going
<1>10. CASE ServerCsum
  <2>1. s.pc = "csum" /\ ServerReads("csum") /\ UNCHANGED <<h, h2s, cmd, runs>>
    BY <1>10 DEF ServerCsum, ServerReads
  <2>2. /\ Going /\ h.got = None /\ ~h.gobble /\ s.acc = cmd /\ sbuf \o h2s = <<SumCh(cmd)>>
        /\ s2h = << >> /\ runs = 0 /\ h.pc = "ack"
    BY <2>1 DEF Turns, Quiet, Coming, Going
  <2>3. Head(sbuf) = SumCh(cmd) /\ sbuf' \o h2s' = << >>
    BY <2>1, <2>2, ServerTakes, TupleFacts
  <2>4. sbuf' = << >> /\ h2s' = << >>
    <3>1. sbuf' \in Seq(Char) /\ h2s' \in Seq(Char)
      BY <1>a, <2>1 DEF ServerReads
    <3> QED BY <2>3, <3>1, ConcatFacts
  <2>5. s2h' = Append(s2h, Ch("+")) /\ s' = [s EXCEPT !.pc = "exec"]
    BY <1>a, <1>10, <2>2, <2>3, ChFacts DEF ServerCsum, SumWrong, NoDigit
  <2>6. s2h' = <<Ch("+")>> /\ s'.pc = "exec" /\ s'.acc = cmd
    BY <1>a, <2>2, <2>5 DEF ServerState
  <2>7. Coming'
    BY <2>1, <2>2, <2>4, <2>6 DEF Coming
  <2> QED BY <1>b, <2>1, <2>2, <2>7 DEF Turns
<1>11. CASE ServerExec
  <2>1. s.pc = "exec" /\ s2h' = s2h \o Packet(s.acc) /\ UNCHANGED <<h, h2s, sbuf, cmd>>
    BY <1>11 DEF ServerExec
  <2>2. Coming /\ h.got = None /\ s.acc = cmd /\ runs = 0
    BY <2>1 DEF Turns, Quiet, Going, Coming
  <2>3. runs' = 1
    BY <1>11, <2>2, NumberFacts DEF ServerExec
  <2>4. s'.pc = "ack" /\ s'.acc = cmd
    BY <1>a, <1>11, <2>2 DEF ServerExec, ServerState
  <2>5. ASSUME h.pc = "ack" /\ s2h = <<Ch("+")>>
        PROVE  Coming'
    BY <2>1, <2>2, <2>3, <2>4, <2>5 DEF Coming
  <2>6. ASSUME h.pc = "scan" /\ s2h = << >>
        PROVE  Coming'
    <3>1. s2h' = Packet(cmd)
      BY <1>a, <2>1, <2>2, <2>6, PacketFacts
    <3> QED BY <2>1, <2>2, <2>3, <2>4, <2>6, <3>1 DEF Coming
  <2>7. Coming' /\ h.pc # "idle"
    BY <2>1, <2>2, <2>5, <2>6 DEF Coming
  <2>8. Calls!Execute
    BY <2>1, <2>2, <2>3, <2>7 DEF Calls!Execute
  <2> QED BY <2>1, <2>2, <2>7, <2>8 DEF Turns, Calls!Next
<1>12. CASE ServerAck
  <2>1. s.pc = "ack" /\ h2s # << >> /\ h2s' = Tail(h2s) /\ UNCHANGED <<h, sbuf, cmd, runs>>
    BY <1>12 DEF ServerAck
  <2>2. Quiet \/ (Going /\ h.got = None /\ ~h.gobble)
    BY <2>1 DEF Turns, Coming
  <2>3. h2s = <<Ch("+")>> \/ h2s = <<Ch("+")>> \o Packet(cmd)
    BY <2>1, <2>2 DEF Quiet, Going
  <2>4. Head(h2s).c = "+"
    BY <1>a, <2>3, PacketFacts, TupleFacts, ChFacts
  <2>5. s' = [pc |-> "scan", acc |-> None] /\ UNCHANGED s2h
    BY <1>12, <2>4 DEF ServerAck
  <2>6. CASE Quiet
    <3>1. h2s' = << >>
      BY <2>1, <2>6, TupleFacts DEF Quiet
    <3> QED BY <1>b, <2>1, <2>5, <2>6, <3>1 DEF Quiet, Turns
  <2>7. CASE Going /\ h.got = None /\ ~h.gobble
    <3>1. h2s' = Packet(cmd) /\ sbuf' = << >>
      BY <1>a, <2>1, <2>7, PacketFacts DEF Going
    <3>2. sbuf' \o h2s' = Packet(cmd')
      BY <1>a, <2>1, <3>1, PacketFacts
    <3> QED BY <1>b, <2>1, <2>5, <2>7, <3>2 DEF Going, Turns
  <2> QED BY <2>2, <2>6, <2>7
<1>13. CASE LineFault
  BY <1>13 DEF LineFault, TypeOK
<1>14. CASE UNCHANGED vars
  BY <1>14, <1>b DEF vars, Turns, Quiet, Going, Coming
<1> QED
  BY <1>1, <1>2, <1>3, <1>4, <1>5, <1>6, <1>7, <1>8, <1>9, <1>10, <1>11, <1>12, <1>13, <1>14
  DEF Next, HostStep, ServerStep

LEMMA InitTurns == Init => TurnInv
<1> SUFFICES ASSUME Init PROVE Turns
  BY InitLink DEF TurnInv
<1> QED BY DEF Init, Turns, Quiet

LEMMA StepTurnInv ==
  ASSUME MaxFaults = 0, ~Slow
  PROVE  TurnInv /\ [Next]_vars => TurnInv'
BY StepLink, StepTurns DEF TurnInv

\* On a line that works, two loops of characters implement a procedure call:
\* each command is carried out once, before its reply comes back and before
\* the next command is sent (the safety part of RemoteCall; remote_send,
\* putpkt and getpkt of remote.c and of gdbserver's remote-utils.c).
THEOREM LinkImplementsCalls ==
  ASSUME MaxFaults = 0, ~Slow
  PROVE  Spec => Calls!Init /\ [][Calls!Next]_(Calls!vars)
<1>1. Init => Calls!Init
  BY DEF Init, Calls!Init, None
<1>2. TurnInv /\ [Next]_vars => [Calls!Next]_(Calls!vars)
  BY StepTurns
<1> QED BY <1>1, <1>2, InitTurns, StepTurnInv, PTL DEF Spec

\* Hence a packet that a command returns with is the reply to that command,
\* which gdbserver has carried out.
THEOREM RepliesMatch ==
  ASSUME MaxFaults = 0, ~Slow
  PROVE  Spec => []ReplyMatches
<1>1. TurnInv => ReplyMatches
  BY DEF TurnInv, Turns, Quiet, Going, Coming, ReplyMatches
<1> QED BY <1>1, InitTurns, StepTurnInv, PTL DEF Spec

\* And a command is carried out at most once, and only while GDB waits for it.
THEOREM CommandsRunOnce ==
  ASSUME MaxFaults = 0, ~Slow
  PROVE  Spec => []ExecutedOnce
<1>1. TurnInv => ExecutedOnce
  <2> SUFFICES ASSUME TurnInv PROVE ExecutedOnce
    OBVIOUS
  <2>1. runs \in 0..MaxRuns
    BY DEF TurnInv, LinkInv, TypeOK
  <2> QED BY <2>1 DEF TurnInv, Turns, Quiet, Going, Coming, ExecutedOnce
<1> QED BY <1>1, InitTurns, StepTurnInv, PTL DEF Spec

=============================================================================
