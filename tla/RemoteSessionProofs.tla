------------------------- MODULE RemoteSessionProofs -------------------------
(***************************************************************************)
(* Proofs about RemoteSession: both programs keep to their types in every  *)
(* world, and in a calm one GDB and gdbserver stay in step, for any number *)
(* of threads, retries, resumptions and sessions.                          *)
(*                                                                         *)
(* What is in step is described by the phase that the current packet of    *)
(* GDB is in: on its way, answered, obeyed without an answer, left without *)
(* one, or obeyed by a target that runs.                                   *)
(***************************************************************************)
EXTENDS RemoteSession, SequenceTheorems, TLAPS

-----------------------------------------------------------------------------
(* The types, in every world.                                              *)

CmdNames == {"!", "?", "Hg", "Hc", "g", "c", "k", "R", "T", "D", "qC", "qOffsets"}

\* What GDB does when a command is acknowledged fits the command, and the threads it names are
\* ones that GDB knows of.
GoodCmd(p) ==
  /\ p.then = "reply" => p.cmd \in {"!", "?", "Hg", "Hc", "g", "T", "D", "qC", "qOffsets"}
  /\ p.then = "wait" => p.cmd \in {"?", "c"}
  /\ p.then = "none" => p.cmd \in {"k", "R"}
  /\ p.then = "close" => p.cmd = "k"
  /\ p.cmd = "Hg" => p.arg \in Threads \cup {MAGIC_NULL_PID}
  /\ p.cmd = "Hc" => p.arg \in Threads \cup {MAGIC_NULL_PID, 0, AllThreads}
  /\ p.cmd = "T" => p.arg \in Threads

Cmds ==
  {p \in [type : {"packet"}, cmd : CmdNames, arg : Int, then : {"reply", "wait", "none", "close"}] :
     GoodCmd(p)}
Chars == {Plus, Minus, Break, Junk}
Items == Cmds \cup Chars
Whats == {"stop", "exit", "ok", "error", "empty", "regs"}
Replies == [type : {"packet"}, to : CmdNames, what : Whats, arg : Threads \cup {0}]
Answers == Replies \cup {Plus}

Gdbs ==
  [pc : {"closed", "prompt", "ack", "gobble", "reply", "wait", "query"}, todo : Seq(Cmds),
   cur : Cmds \cup {NoCmd}, tcount : 0..MAX_TCOUNT, tries : 0..(MAX_TRIES - 1),
   style : {"plain", "extended"}, general : Recorded, cont : Recorded,
   inferior : Threads \cup {MAGIC_NULL_PID}, known : SUBSET Threads, interrupted : BOOLEAN,
   crossed : BOOLEAN, resumes : 0..MaxResumes]
Servers ==
  [pc : {"listen", "getpkt", "resumed", "mywait", "ack", "gone"}, ext : BOOLEAN, general : Threads \cup {0},
   cont : Threads \cup {0, AllThreads}, from_wait : Threads, old_from_wait : Threads \cup {0},
   status : {"T", "W"}, alive : SUBSET Threads, regs : Threads, sigint : BOOLEAN,
   missed : Nat, buf : Seq(Items), reply : Replies \cup {NoReply}, resumes : Nat]

\* A command is under way unless GDB is at its prompt or closed, and a reply while gdbserver puts
\* one.
TypeInv ==
  /\ g \in Gdbs /\ (g.pc \notin {"closed", "prompt"} => g.cur \in Cmds)
  /\ s \in Servers /\ (s.pc = "ack" => s.reply \in Replies)
  /\ h2s \in Seq(Items) /\ s2h \in Seq(Answers)
  /\ world \in [kind : Worlds, left : 0..MaxUser]

-----------------------------------------------------------------------------
(* In step, in a calm world.                                               *)

\* A child that has exited is started again, or ends gdbserver, before it reads another packet.
StatusOK ==
  /\ (s.ext # TRUE /\ s.pc \in {"getpkt", "resumed", "mywait", "listen"}) => s.status = "T"
  /\ (s.ext # TRUE /\ s.pc = "ack" /\ s.status = "W") => s.reply.what = "exit" /\ s.reply.to = "c"
  /\ s.pc = "listen" => s.ext # TRUE /\ s.resumes = 0

\* What gdbserver has still to read.
Line == s.buf \o h2s
AllRead == s.buf = <<>> /\ h2s = <<>>
Quiet(q) == \A i \in 1..Len(q) : q[i].type # "packet"
EndsIn(q, p) ==
  /\ Len(q) > 0 /\ q[Len(q)] = p
  /\ \A i \in 1..(Len(q) - 1) : q[i].type # "packet"

\* r is what GDB expects as the answer to p.
IsAnswer(r, p) ==
  /\ r.to = p.cmd
  /\ p.then \in {"reply", "wait"}
  /\ p.then = "wait" => r.what \in {"stop", "exit"}
  /\ p.cmd = "g" => r.what = "regs"

\* gdbserver waits for a '+' after which it goes on.
Resumable == s.pc = "ack" /\ s.buf = <<>> /\ (s.status = "T" \/ s.ext)

AtPrompt ==
  /\ g.pc = "prompt" /\ g.todo = <<>> /\ g.cur = NoCmd /\ s2h = <<>>
  /\ \/ s.pc = "getpkt" /\ Quiet(Line)
     \/ Resumable /\ h2s = <<Plus>>
OnItsWay ==
  /\ g.pc = "ack" /\ s2h = <<>>
  /\ \/ s.pc = "getpkt" /\ EndsIn(Line, g.cur)
     \/ Resumable /\ h2s = <<Plus, g.cur>>
Answered ==
  /\ s.pc = "ack" /\ AllRead /\ IsAnswer(s.reply, g.cur)
  /\ \/ g.pc = "ack" /\ s2h = <<Plus, s.reply>>
     \/ g.pc = "reply" /\ g.cur.then = "reply" /\ s2h = <<s.reply>>
     \/ g.pc \in {"wait", "query"} /\ g.cur.then = "wait" /\ s2h = <<s.reply>>
Obeyed ==
  /\ g.pc = "ack" /\ s2h = <<Plus>> /\ AllRead
  /\ \/ g.cur.cmd = "Hg" /\ s.pc = "getpkt"
     \/ g.cur.then = "none" /\ s.pc = "getpkt"
     \/ g.cur.cmd = "c" /\ s.pc \in {"getpkt", "resumed", "mywait"}
     \/ g.cur.then = "close" /\ s.pc = "gone"
Unanswered ==
  /\ g.pc = "reply" /\ g.cur.cmd = "Hg" /\ s.pc = "getpkt" /\ s2h = <<>> /\ Quiet(Line)
Running ==
  /\ g.pc \in {"wait", "query"} /\ g.cur.cmd = "c" /\ s2h = <<>> /\ Quiet(Line)
  /\ s.pc = "getpkt" \/ (s.pc \in {"resumed", "mywait"} /\ s.buf = <<>>)

\* The packets that gdbserver has not yet carried out.
Ahead == IF OnItsWay THEN <<g.cur>> \o g.todo ELSE g.todo
EndsWith(q, cmd) == Len(q) > 0 /\ q[Len(q)].cmd = cmd

\* The kind of session that gdbserver is in; GDB's is g.style.
Mode(st) == IF st.ext = TRUE THEN "extended" ELSE "plain"

\* The packets q suit the session: 'c' and '!' are the last of their command, what has no answer
\* in a plain session is not sent in one, and a session becomes extended with its '!'; GDB has
\* counted the resumption that is still to come.
Suits(q, style, mode) ==
  /\ \A i \in 1..Len(q) :
       /\ q[i].cmd \in {"c", "!"} => i = Len(q)
       /\ q[i].cmd = "!" => style = "extended"
       /\ q[i].then = "none" => mode = "extended"
       /\ q[i].then = "close" => style = "plain"
  /\ style = "plain" => mode = "plain"
  /\ (style = "extended" /\ mode = "plain") => EndsWith(q, "!")
Counted(q, done, all) == done + (IF EndsWith(q, "c") THEN 1 ELSE 0) = all

\* Both sides have the same cont_thread, but for an 'Hc' that is on its way or being answered.
Agreed(mine, its) == mine # NotSent /\ its = OnWire(mine)
ContOK ==
  /\ g.cur.cmd # "Hc" => Agreed(g.cont, s.cont)
  /\ (g.cur.cmd = "Hc" /\ Answered) => s.cont = OnWire(g.cur.arg)

Session ==
  /\ g.crossed = FALSE
  /\ AtPrompt \/ OnItsWay \/ Answered \/ Obeyed \/ Unanswered \/ Running
  /\ g.cur.cmd = "c" => g.todo = <<>>
  /\ Suits(Ahead, g.style, Mode(s)) /\ Counted(Ahead, s.resumes, g.resumes)
  /\ ContOK

\* Nothing is on its way to a GDB that has closed its connection.
CalmInv == IF g.pc = "closed" THEN s2h = <<>> /\ g.crossed = FALSE ELSE Session

SessionInv == TypeInv /\ StatusOK /\ (Calm => CalmInv)

-----------------------------------------------------------------------------
(* Types.                                                                  *)

LEMMA CharTypes ==
  /\ Plus \in Items /\ Minus \in Items /\ Break \in Items /\ Junk \in Items /\ Plus \in Answers
  /\ Plus.type = "+" /\ Minus.type = "-" /\ Break.type = "^C" /\ Junk.type = "junk"
  BY DEF Items, Chars, Answers, Plus, Minus, Break, Junk, Char

\* What is sent is a command or a character, and only a command is a packet.
LEMMA ItemKind ==
  ASSUME NEW x \in Items
  PROVE  x.type = "packet" <=> x \in Cmds
<1>1. ASSUME x \in Cmds PROVE x.type = "packet"
  BY <1>1 DEF Cmds
<1>2. ASSUME x \in Chars PROVE x.type # "packet"
  BY <1>2, CharTypes DEF Chars
<1> QED BY <1>1, <1>2 DEF Items

LEMMA AnswerKind ==
  ASSUME NEW r \in Answers
  PROVE  r = Plus \/ (r # Plus /\ r \in Replies)
<1>1. ASSUME r \in Replies PROVE r # Plus
  BY <1>1, CharTypes DEF Replies
<1> QED BY <1>1 DEF Answers

\* The fields of a command.
LEMMA CmdFields ==
  ASSUME NEW p \in Cmds
  PROVE  /\ p.type = "packet" /\ p.cmd \in CmdNames /\ p.arg \in Int
         /\ p.then \in {"reply", "wait", "none", "close"} /\ GoodCmd(p) /\ p # NoCmd
  BY DEF Cmds, NoCmd, Cmd, CmdNames

\* The commands that GDB sends.
LEMMA CmdType ==
  ASSUME NEW cmd \in CmdNames, NEW arg \in Int, NEW then \in {"reply", "wait", "none", "close"},
         GoodCmd(Cmd(cmd, arg, then))
  PROVE  Cmd(cmd, arg, then) \in Cmds
  BY DEF Cmds, Cmd

LEMMA CmdIs ==
  ASSUME NEW cmd, NEW arg, NEW then
  PROVE  /\ Cmd(cmd, arg, then).cmd = cmd /\ Cmd(cmd, arg, then).arg = arg
         /\ Cmd(cmd, arg, then).then = then
  BY DEF Cmd

\* An outcome of a step of GDB.
Outcome(o) ==
  /\ o = [g |-> o.g, out |-> o.out]
  /\ o.g \in Gdbs /\ (o.g.pc \notin {"closed", "prompt"} => o.g.cur \in Cmds)
  /\ o.out \in Seq(Items)

LEMMA ClosedType ==
  Closed \in Gdbs /\ Closed.pc = "closed" /\ Closed.crossed = FALSE /\ Outcome([g |-> Closed, out |-> <<>>])
<1>3. Closed.crossed = FALSE
  BY DEF Closed
<1>1. Closed \in Gdbs /\ Closed.pc = "closed"
  <2>1. 0 \in 0..MAX_TCOUNT /\ 0 \in 0..(MAX_TRIES - 1) /\ 0 \in 0..MaxResumes
    BY SessionAssumption
  <2>2. <<>> \in Seq(Cmds)
    OBVIOUS
  <2> QED BY <2>1, <2>2 DEF Closed, Gdbs, Recorded, NotSent
<1>2. <<>> \in Seq(Items)
  OBVIOUS
<1> QED BY <1>1, <1>2, <1>3 DEF Outcome

\* Counters that begin at 0.
LEMMA Zeros == 0 \in 0..MAX_TCOUNT /\ 0 \in 0..(MAX_TRIES - 1) /\ 0 \in 0..MaxResumes
  BY SessionAssumption

LEMMA GoType ==
  ASSUME NEW st \in Gdbs
  PROVE  Outcome(Go(st))
<1>1. CASE st.todo = <<>>
  <2> DEFINE n == [st EXCEPT !.pc = "prompt", !.cur = NoCmd, !.tcount = 0, !.tries = 0]
  <2>1. Go(st) = [g |-> n, out |-> <<>>]
    BY <1>1 DEF Go
  <2>2. n \in Gdbs /\ n.pc = "prompt"
    BY Zeros DEF Gdbs
  <2>3. <<>> \in Seq(Items)
    OBVIOUS
  <2> HIDE DEF n
  <2> QED BY <2>1, <2>2, <2>3 DEF Outcome
<1>2. CASE st.todo # <<>>
  <2> DEFINE p == Head(st.todo)
             q == Tail(st.todo)
             n == [st EXCEPT !.pc = "ack", !.cur = p, !.todo = q, !.tcount = 0, !.tries = 0]
  <2>1. Go(st) = [g |-> n, out |-> <<p>>]
    BY <1>2 DEF Go
  <2>2. p \in Cmds /\ q \in Seq(Cmds)
    <3>1. st.todo \in Seq(Cmds)
      BY DEF Gdbs
    <3> QED BY <1>2, <3>1
  <2> HIDE DEF p, q
  <2>3. n \in Gdbs /\ n.cur = p
    BY <2>2, Zeros DEF Gdbs
  <2>4. <<p>> \in Seq(Items)
    BY <2>2 DEF Items
  <2> HIDE DEF n
  <2> QED BY <2>1, <2>2, <2>3, <2>4 DEF Outcome
<1> QED BY <1>1, <1>2

LEMMA SentType ==
  ASSUME NEW st \in Gdbs, st.cur \in Cmds
  PROVE  Outcome(Sent(st))
<1>0. <<>> \in Seq(Items)
  OBVIOUS
<1>1. CASE st.cur.then = "reply"
  <2> DEFINE n == [st EXCEPT !.pc = "reply", !.tcount = 0, !.tries = 0]
  <2>1. n \in Gdbs /\ n.cur = st.cur
    BY Zeros DEF Gdbs
  <2>2. Sent(st) = [g |-> n, out |-> <<>>]
    BY <1>1 DEF Sent
  <2> HIDE DEF n
  <2> QED BY <1>0, <2>1, <2>2 DEF Outcome
<1>2. CASE st.cur.then = "wait"
  <2> DEFINE n == [st EXCEPT !.pc = "wait", !.tcount = 0, !.tries = 0, !.interrupted = FALSE]
  <2>1. n \in Gdbs /\ n.cur = st.cur
    BY Zeros DEF Gdbs
  <2>2. Sent(st) = [g |-> n, out |-> <<>>]
    BY <1>2 DEF Sent
  <2> HIDE DEF n
  <2> QED BY <1>0, <2>1, <2>2 DEF Outcome
<1>3. CASE st.cur.then = "close"
  BY <1>3, ClosedType DEF Sent
<1>4. CASE st.cur.then = "none"
  <2>1. Sent(st) = Go(st)
    BY <1>4 DEF Sent
  <2> QED BY <2>1, GoType
<1> QED BY <1>1, <1>2, <1>3, <1>4, CmdFields

\* What GDB does next.
LEMMA BecomesType ==
  ASSUME TypeInv, NEW o, Outcome(o), Becomes(o)
  PROVE  TypeInv'
<1>1. h2s' \in Seq(Items)
  <2>1. h2s \in Seq(Items) /\ o.out \in Seq(Items) /\ <<>> \in Seq(Items)
    BY DEF TypeInv, Outcome
  <2>2. h2s \o o.out \in Seq(Items)
    BY <2>1, ConcatProperties
  <2> QED BY <2>1, <2>2 DEF Becomes, Onto
<1>2. s2h' \in Seq(Answers)
  <2>1. s2h \in Seq(Answers) /\ <<>> \in Seq(Answers)
    BY DEF TypeInv
  <2>2. s2h # <<>> => Tail(s2h) \in Seq(Answers)
    BY <2>1
  <2> QED BY <2>1, <2>2 DEF Becomes
<1> QED BY <1>1, <1>2 DEF Becomes, Outcome, TypeInv

\* An outcome preceded by characters.
LEMMA OutcomeOut ==
  ASSUME NEW o, Outcome(o), NEW q \in Seq(Items)
  PROVE  Outcome([o EXCEPT !.out = q \o @])
<1>1. q \o o.out \in Seq(Items)
  BY ConcatProperties DEF Outcome
<1>0. \A a, b, c : [[g |-> a, out |-> b] EXCEPT !.out = c] = [g |-> a, out |-> c]
  OBVIOUS
<1>2. [o EXCEPT !.out = q \o @] = [g |-> o.g, out |-> q \o o.out]
  <2>1. o = [g |-> o.g, out |-> o.out]
    BY DEF Outcome
  <2>2. [[g |-> o.g, out |-> o.out] EXCEPT !.out = q \o o.out] = [g |-> o.g, out |-> q \o o.out]
    BY <1>0
  <2> QED BY <2>1, <2>2
<1> DEFINE w == q \o o.out
<1> HIDE DEF w
<1>3. Outcome([g |-> o.g, out |-> w])
  BY <1>1 DEF Outcome, w
<1> QED BY <1>2, <1>3 DEF w

\* What GDB does with a reply.
LEMMA TakeReplyType ==
  ASSUME NEW st \in Gdbs, st.cur \in Cmds, NEW what
  PROVE  TakeReply(st, what) \in Gdbs
<1>1. GoodCmd(st.cur)
  BY CmdFields
<1>2. st.cur.cmd = "Hg" => [st EXCEPT !.general = st.cur.arg] \in Gdbs
  BY <1>1 DEF Gdbs, GoodCmd, Recorded
<1>3. st.cur.cmd = "Hc" => [st EXCEPT !.cont = st.cur.arg] \in Gdbs
  BY <1>1 DEF Gdbs, GoodCmd, Recorded
<1>4. st.cur.cmd = "T" => [st EXCEPT !.inferior = st.cur.arg] \in Gdbs
  BY <1>1 DEF Gdbs, GoodCmd
<1> QED BY <1>2, <1>3, <1>4 DEF TakeReply

LEMMA AfterReplyType ==
  ASSUME NEW st \in Gdbs, st.cur \in Cmds, NEW what
  PROVE  Outcome(AfterReply(st, what))
<1>1. CASE st.cur.cmd = "g" /\ what # "regs"
  <2> DEFINE n == [st EXCEPT !.tries = 0]
  <2>1. n \in Gdbs /\ n.cur = st.cur
    BY Zeros DEF Gdbs
  <2>2. AfterReply(st, what) = [g |-> n, out |-> <<>>]
    BY <1>1 DEF AfterReply
  <2>3. <<>> \in Seq(Items)
    OBVIOUS
  <2> HIDE DEF n
  <2> QED BY <2>1, <2>2, <2>3 DEF Outcome
<1>2. CASE st.cur.cmd = "D"
  BY <1>2, ClosedType DEF AfterReply
<1>3. CASE ~(st.cur.cmd = "g" /\ what # "regs") /\ st.cur.cmd # "D"
  <2>1. AfterReply(st, what) = Go(TakeReply(st, what))
    BY <1>3 DEF AfterReply
  <2> QED BY <2>1, TakeReplyType, GoType
<1> QED BY <1>1, <1>2, <1>3

LEMMA StoppedType ==
  ASSUME NEW st \in Gdbs, NEW t \in Threads \cup {0}
  PROVE  Stopped(st, t) \in Gdbs
<1>1. t # 0 => [st EXCEPT !.general = t, !.known = @ \cup {t}, !.inferior = t] \in Gdbs
  BY DEF Gdbs, Recorded
<1> QED BY <1>1 DEF Stopped

LEMMA ExitedType ==
  ASSUME NEW st \in Gdbs
  PROVE  Outcome(Exited(st))
  BY GoType, ClosedType DEF Exited

\* The steps of GDB.
LEMMA AckType ==
  ASSUME TypeInv, GdbAck
  PROVE  TypeInv'
<1> DEFINE n == [g EXCEPT !.pc = "gobble", !.tries = 0]
<1>1. n \in Gdbs /\ n.cur = g.cur
  BY Zeros DEF Gdbs, TypeInv
<1>2. g \in Gdbs /\ g.cur \in Cmds
  BY DEF GdbAck, TypeInv
<1>3. <<>> \in Seq(Items)
  OBVIOUS
<1>4. Head(s2h) # Plus => Becomes([g |-> n, out |-> <<>>])
  BY DEF GdbAck
<1>5. Head(s2h) = Plus => Becomes(Sent(g))
  BY DEF GdbAck
<1> HIDE DEF n
<1>6. Outcome([g |-> n, out |-> <<>>])
  BY <1>1, <1>2, <1>3 DEF Outcome
<1> QED BY <1>2, <1>4, <1>5, <1>6, SentType, BecomesType

\* A string of characters is written.
LEMMA WritesType == <<>> \in Seq(Items) /\ <<Plus>> \in Seq(Items) /\ <<Minus>> \in Seq(Items)
                    /\ <<Minus, Plus>> \in Seq(Items) /\ <<Break>> \in Seq(Items)
                    /\ <<Junk>> \in Seq(Items)
  BY CharTypes

LEMMA AckTimeoutType ==
  ASSUME TypeInv, GdbAckTimeout
  PROVE  TypeInv'
<1> DEFINE n == [g EXCEPT !.tcount = @ + 1]
<1>1. g \in Gdbs /\ g.cur \in Cmds
  BY DEF GdbAckTimeout, TypeInv
<1>2. CASE g.tcount < MAX_TCOUNT
  <2>1. g.tcount + 1 \in 0..MAX_TCOUNT
    BY <1>1, <1>2, SessionAssumption DEF Gdbs
  <2>2. n \in Gdbs /\ n.cur = g.cur
    BY <1>1, <2>1 DEF Gdbs
  <2>3. Becomes([g |-> n, out |-> <<g.cur>>])
    BY <1>2 DEF GdbAckTimeout
  <2>4. <<g.cur>> \in Seq(Items)
    BY <1>1 DEF Items
  <2> HIDE DEF n
  <2> QED BY <1>1, <2>2, <2>3, <2>4, BecomesType DEF Outcome
<1>3. CASE ~(g.tcount < MAX_TCOUNT)
  <2>1. Becomes(Sent(g))
    BY <1>3 DEF GdbAckTimeout
  <2> QED BY <1>1, <2>1, SentType, BecomesType
<1> QED BY <1>2, <1>3

LEMMA GobbleType ==
  ASSUME TypeInv, GdbGobble \/ GdbGobbleTimeout
  PROVE  TypeInv'
<1> DEFINE n == [g EXCEPT !.pc = "ack", !.tries = 0]
           m == [g EXCEPT !.tries = @ + 1]
<1>1. g \in Gdbs /\ g.cur \in Cmds
  BY DEF GdbGobble, GdbGobbleTimeout, TypeInv
<1>2. n \in Gdbs /\ n.cur = g.cur
  BY <1>1, Zeros DEF Gdbs
<1>3. g.tries + 1 < MAX_TRIES => m \in Gdbs /\ m.cur = g.cur
  <2>1. g.tries + 1 < MAX_TRIES => g.tries + 1 \in 0..(MAX_TRIES - 1)
    BY <1>1, SessionAssumption DEF Gdbs
  <2> QED BY <1>1, <2>1 DEF Gdbs
<1>4. \/ Becomes([g |-> g, out |-> <<>>])
      \/ Becomes([g |-> n, out |-> <<Plus>>])
      \/ g.tries + 1 < MAX_TRIES /\ Becomes([g |-> m, out |-> <<Minus>>])
      \/ Becomes([g |-> n, out |-> <<Minus, Plus>>])
  BY DEF GdbGobble, GdbGobbleTimeout
<1> HIDE DEF n, m
<1>5. /\ Outcome([g |-> g, out |-> <<>>]) /\ Outcome([g |-> n, out |-> <<Plus>>])
      /\ g.tries + 1 < MAX_TRIES => Outcome([g |-> m, out |-> <<Minus>>])
      /\ Outcome([g |-> n, out |-> <<Minus, Plus>>])
  BY <1>1, <1>2, <1>3, WritesType DEF Outcome
<1> QED BY <1>4, <1>5, BecomesType

\* A reply is taken from the line.
LEMMA TakenType ==
  ASSUME TypeInv, s2h # <<>>, Head(s2h) # Plus
  PROVE  Head(s2h) \in Replies
<1>1. Head(s2h) \in Answers
  BY DEF TypeInv
<1> QED BY <1>1, AnswerKind

LEMMA ReplyType ==
  ASSUME TypeInv, GdbReply
  PROVE  TypeInv'
<1> DEFINE r == Head(s2h)
           n == [g EXCEPT !.crossed = @ \/ r.to # g.cur.cmd]
           o == AfterReply(n, r.what)
<1>1. g \in Gdbs /\ g.cur \in Cmds
  BY DEF GdbReply, TypeInv
<1>2. n \in Gdbs /\ n.cur = g.cur
  BY <1>1 DEF Gdbs
<1>3. \/ Becomes([g |-> g, out |-> <<>>])
      \/ Becomes(Acked(o))
  BY DEF GdbReply
<1>4. Outcome([g |-> g, out |-> <<>>])
  BY <1>1, WritesType DEF Outcome
<1>5. Outcome(Acked(o))
  <2> HIDE DEF n
  <2>1. Outcome(o)
    BY <1>1, <1>2, AfterReplyType
  <2> HIDE DEF o
  <2> QED BY <2>1, WritesType, OutcomeOut DEF Acked
<1> HIDE DEF n, o
<1> QED BY <1>3, <1>4, <1>5, BecomesType

LEMMA ReplyTimeoutType ==
  ASSUME TypeInv, GdbReplyTimeout
  PROVE  TypeInv'
<1> DEFINE m == [g EXCEPT !.tries = @ + 1]
           o == AfterReply(g, "timeout")
<1>1. g \in Gdbs /\ g.cur \in Cmds
  BY DEF GdbReplyTimeout, TypeInv
<1>2. g.tries + 1 < MAX_TRIES => m \in Gdbs /\ m.cur = g.cur
  <2>1. g.tries + 1 < MAX_TRIES => g.tries + 1 \in 0..(MAX_TRIES - 1)
    BY <1>1, SessionAssumption DEF Gdbs
  <2> QED BY <1>1, <2>1 DEF Gdbs
<1>3. \/ g.tries + 1 < MAX_TRIES /\ Becomes([g |-> m, out |-> <<Minus>>])
      \/ Becomes([o EXCEPT !.out = <<Minus, Plus>> \o @])
  BY DEF GdbReplyTimeout
<1> HIDE DEF m
<1>4. g.tries + 1 < MAX_TRIES => Outcome([g |-> m, out |-> <<Minus>>])
  BY <1>1, <1>2, WritesType DEF Outcome
<1>5. Outcome(o)
  BY <1>1, AfterReplyType
<1> HIDE DEF o
<1>6. Outcome([o EXCEPT !.out = <<Minus, Plus>> \o @])
  BY <1>5, WritesType, OutcomeOut
<1> QED BY <1>3, <1>4, <1>6, BecomesType

LEMMA WaitType ==
  ASSUME TypeInv, GdbWait
  PROVE  TypeInv'
<1> DEFINE r == Head(s2h)
           n == [g EXCEPT !.crossed = @ \/ r.to # g.cur.cmd]
           m == [n EXCEPT !.interrupted = FALSE]
<1>1. g \in Gdbs /\ g.cur \in Cmds
  BY DEF GdbWait, TypeInv
<1>2. n \in Gdbs /\ n.cur = g.cur
  BY <1>1 DEF Gdbs
<1>3. m \in Gdbs /\ m.cur = g.cur
  BY <1>1 DEF Gdbs
<1>4. \/ Becomes([g |-> g, out |-> <<>>])
      \/ r # Plus /\ Becomes(Acked(Go(Stopped(n, r.arg))))
      \/ Becomes(Acked(Exited(n)))
      \/ Becomes(Acked([g |-> m, out |-> <<>>]))
  BY DEF GdbWait
<1>5. Outcome([g |-> g, out |-> <<>>])
  BY <1>1, WritesType DEF Outcome
<1>6. r # Plus => r.arg \in Threads \cup {0}
  BY TakenType DEF GdbWait, Replies
<1> HIDE DEF n, m, r
<1>7. r # Plus => Outcome(Go(Stopped(n, r.arg)))
  BY <1>2, <1>6, StoppedType, GoType
<1>8. Outcome(Exited(n))
  BY <1>2, ExitedType
<1>9. Outcome([g |-> m, out |-> <<>>])
  BY <1>1, <1>3, WritesType DEF Outcome
<1>10. ASSUME NEW o, Outcome(o) PROVE Outcome(Acked(o))
  BY <1>10, WritesType, OutcomeOut DEF Acked
<1> QED BY <1>4, <1>5, <1>7, <1>8, <1>9, <1>10, BecomesType

LEMMA EofType ==
  ASSUME TypeInv, GdbEof
  PROVE  TypeInv'
<1> DEFINE n == [g EXCEPT !.todo = <<>>]
           m == IF g.cur.then = "close" THEN Closed ELSE Go(n).g
<1>1. n \in Gdbs
  <2>1. <<>> \in Seq(Cmds)
    OBVIOUS
  <2> QED BY <2>1 DEF TypeInv, Gdbs
<1>2. Becomes([g |-> m, out |-> <<>>])
  BY DEF GdbEof
<1> HIDE DEF n
<1>3. Outcome(Go(n)) /\ Outcome([g |-> Closed, out |-> <<>>])
  BY <1>1, GoType, ClosedType
<1>4. Outcome([g |-> m, out |-> <<>>])
  BY <1>3, WritesType DEF Outcome
<1> HIDE DEF m
<1> QED BY <1>2, <1>4, BecomesType

\* What the user does.
LEMMA ActsType ==
  ASSUME TypeInv, Acts
  PROVE  world' \in [kind : Worlds, left : 0..MaxUser] /\ world'.kind = world.kind
<1>1. MaxUser \in Nat /\ world \in [kind : Worlds, left : 0..MaxUser]
  BY SessionAssumption DEF TypeInv
<1>2. world.left > 0 => world.left - 1 \in 0..MaxUser
  BY <1>1
<1> QED BY <1>1, <1>2 DEF Acts

LEMMA InterruptType ==
  ASSUME TypeInv, Interrupt
  PROVE  TypeInv'
<1> DEFINE n == [g EXCEPT !.pc = "query"]
           m == [g EXCEPT !.interrupted = TRUE]
<1>1. g \in Gdbs /\ g.cur \in Cmds /\ h2s \in Seq(Items)
  BY DEF Interrupt, TypeInv
<1>2. n \in Gdbs /\ n.cur = g.cur /\ m \in Gdbs /\ m.cur = g.cur
  BY <1>1 DEF Gdbs
<1>3. g' = n \/ g' = m
  BY DEF Interrupt
<1>4. h2s' \in Seq(Items)
  BY <1>1, CharTypes DEF Interrupt
<1>5. s' = s /\ s2h' = s2h /\ Acts
  BY DEF Interrupt
<1> HIDE DEF n, m
<1> QED BY <1>1, <1>2, <1>3, <1>4, <1>5, ActsType DEF TypeInv

LEMMA AnswerType ==
  ASSUME TypeInv, Answer
  PROVE  TypeInv'
<1> DEFINE n == [g EXCEPT !.pc = "wait", !.interrupted = FALSE]
           m == [g EXCEPT !.todo = <<>>]
<1>1. g \in Gdbs /\ g.cur \in Cmds /\ s2h \in Seq(Answers) /\ <<>> \in Seq(Answers)
  BY DEF Answer, TypeInv
<1>2. n \in Gdbs /\ n.cur = g.cur
  BY <1>1 DEF Gdbs
<1>3. m \in Gdbs
  <2>1. <<>> \in Seq(Cmds)
    OBVIOUS
  <2> QED BY <1>1, <2>1 DEF Gdbs
<1>4. g' = n \/ g' = Closed \/ g' = Go(m).g
  BY DEF Answer
<1>5. s' = s /\ h2s' = h2s /\ Acts /\ s2h' \in {s2h, <<>>}
  BY DEF Answer
<1> HIDE DEF n, m
<1>6. g' \in Gdbs /\ (g'.pc \notin {"closed", "prompt"} => g'.cur \in Cmds)
  BY <1>1, <1>2, <1>3, <1>4, GoType, ClosedType DEF Outcome
<1> QED BY <1>1, <1>5, <1>6, ActsType DEF TypeInv

\* A list of packets is sent.
LEMMA StartType ==
  ASSUME TypeInv, NEW st \in Gdbs, NEW todo \in Seq(Cmds), Start(st, todo)
  PROVE  TypeInv'
<1> DEFINE n == [st EXCEPT !.todo = todo, !.interrupted = FALSE]
           o == Go(n)
<1>1. n \in Gdbs
  BY DEF Gdbs
<1>2. g' = o.g /\ h2s' = Onto(o.out) /\ Acts /\ s' = s /\ s2h' = s2h
  BY DEF Start
<1> HIDE DEF n
<1>3. Outcome(o)
  BY <1>1, GoType
<1> HIDE DEF o
<1>4. h2s' \in Seq(Items)
  <2>1. h2s \in Seq(Items) /\ o.out \in Seq(Items)
    BY <1>3 DEF TypeInv, Outcome
  <2>2. h2s \o o.out \in Seq(Items)
    BY <2>1, ConcatProperties
  <2> QED BY <1>2, <2>2, WritesType DEF Onto
<1> QED BY <1>2, <1>3, <1>4, ActsType DEF TypeInv, Outcome

\* The commands that have no thread.
LEMMA PlainCmds ==
  /\ Cmd("qC", 0, "reply") \in Cmds /\ Cmd("qOffsets", 0, "reply") \in Cmds
  /\ Cmd("?", 0, "wait") \in Cmds /\ Cmd("?", 0, "reply") \in Cmds /\ Cmd("!", 0, "reply") \in Cmds
  /\ Cmd("c", 0, "wait") \in Cmds /\ Cmd("g", 0, "reply") \in Cmds /\ Cmd("D", 0, "reply") \in Cmds
  /\ Cmd("k", 0, "close") \in Cmds /\ Cmd("k", 0, "none") \in Cmds /\ Cmd("R", 0, "none") \in Cmds
  BY DEF Cmds, Cmd, GoodCmd, CmdNames

LEMMA ThreadCmds ==
  /\ \A t \in Threads \cup {MAGIC_NULL_PID} : Cmd("Hg", t, "reply") \in Cmds
  /\ \A t \in Threads \cup {MAGIC_NULL_PID, 0, AllThreads} : Cmd("Hc", t, "reply") \in Cmds
  /\ \A t \in Threads : Cmd("T", t, "reply") \in Cmds
<1>1. Threads \subseteq Int /\ {MAGIC_NULL_PID, 0, AllThreads} \subseteq Int
  BY SessionAssumption DEF MAGIC_NULL_PID, AllThreads
<1> QED BY <1>1 DEF Cmds, Cmd, GoodCmd, CmdNames

LEMMA SetThreadType ==
  /\ \A c, t : t \in Threads \cup {MAGIC_NULL_PID} => SetThread("Hg", c, t) \in Seq(Cmds)
  /\ \A c, t : t \in Threads \cup {MAGIC_NULL_PID, 0, AllThreads} => SetThread("Hc", c, t) \in Seq(Cmds)
<1>1. \A p \in Cmds : <<p>> \in Seq(Cmds) /\ <<>> \in Seq(Cmds)
  OBVIOUS
<1> QED BY <1>1, ThreadCmds DEF SetThread

LEMMA OpenType ==
  ASSUME NEW style \in {"plain", "extended"}
  PROVE  /\ OpenState(style) \in Gdbs /\ OpenState(style).cont = NotSent
         /\ OpenState(style).style = style /\ OpenState(style).resumes = 0
         /\ OpenState(style).crossed = FALSE
<1>1. \A n \in Gdbs : [n EXCEPT !.pc = "prompt", !.style = style] \in Gdbs
  BY DEF Gdbs
<1>2. /\ OpenState(style).cont = NotSent
      /\ OpenState(style).style = style /\ OpenState(style).resumes = 0
      /\ OpenState(style).crossed = FALSE
  BY DEF OpenState, Closed
<1> QED BY <1>1, <1>2, ClosedType DEF OpenState

\* The packets of a new connection.
Opening(style) ==
  <<Cmd("Hc", AllThreads, "reply")>>
  \o <<Cmd("qC", 0, "reply"), Cmd("qOffsets", 0, "reply"), Cmd("?", 0, "wait")>>
  \o IF style = "extended" THEN <<Cmd("!", 0, "reply")>> ELSE <<>>

LEMMA OpeningType ==
  ASSUME NEW style \in {"plain", "extended"}
  PROVE  Opening(style) \in Seq(Cmds)
<1>1. Cmd("Hc", AllThreads, "reply") \in Cmds
  BY ThreadCmds
<1>2. \A a, b, c \in Cmds : <<a, b, c>> \in Seq(Cmds)
  OBVIOUS
<1>3. <<Cmd("qC", 0, "reply"), Cmd("qOffsets", 0, "reply"), Cmd("?", 0, "wait")>> \in Seq(Cmds)
  BY <1>1, <1>2, PlainCmds
<1>4. \A a \in Cmds : <<a>> \in Seq(Cmds) /\ <<>> \in Seq(Cmds)
  OBVIOUS
<1>5. (IF style = "extended" THEN <<Cmd("!", 0, "reply")>> ELSE <<>>) \in Seq(Cmds)
  BY <1>4, PlainCmds
<1>6. <<Cmd("Hc", AllThreads, "reply")>> \in Seq(Cmds)
  BY <1>1, <1>4
<1> QED BY <1>3, <1>5, <1>6, ConcatProperties DEF Opening

\* Connecting: the packets of the connection are sent, and gdbserver reads.
LEMMA Connecting ==
  ASSUME TypeInv, NEW style \in {"plain", "extended"}, Connect(style),
         NEW n, n = [OpenState(style) EXCEPT !.todo = Opening(style)]
  PROVE  /\ n \in Gdbs /\ n.todo = Opening(style) /\ n.style = style /\ n.resumes = 0
         /\ n.crossed = FALSE
         /\ g' = Go(n).g /\ h2s' = <<Plus>> \o Go(n).out
<1>1. n \in Gdbs /\ n.todo = Opening(style) /\ n.style = style /\ n.resumes = 0 /\ n.crossed = FALSE
  <2> DEFINE q == Opening(style)
  <2>1. q \in Seq(Cmds)
    BY OpeningType
  <2> HIDE DEF q
  <2>2. n = [OpenState(style) EXCEPT !.todo = q]
    BY DEF q
  <2>4. \A m \in Gdbs, x \in Seq(Cmds) :
          /\ [m EXCEPT !.todo = x] \in Gdbs /\ [m EXCEPT !.todo = x].todo = x
          /\ [m EXCEPT !.todo = x].style = m.style /\ [m EXCEPT !.todo = x].resumes = m.resumes
          /\ [m EXCEPT !.todo = x].crossed = m.crossed
    BY DEF Gdbs
  <2> DEFINE m0 == OpenState(style)
             n0 == [m0 EXCEPT !.todo = q]
  <2>5. m0 \in Gdbs /\ m0.style = style /\ m0.resumes = 0 /\ m0.crossed = FALSE
    BY OpenType
  <2> HIDE DEF m0
  <2>6. n0 \in Gdbs /\ n0.todo = q /\ n0.style = style /\ n0.resumes = 0 /\ n0.crossed = FALSE
    BY ONLY <2>1, <2>4, <2>5
  <2> HIDE DEF n0
  <2>7. n = n0
    BY <2>2 DEF n0, m0
  <2>3. n \in Gdbs /\ n.todo = q /\ n.style = style /\ n.resumes = 0 /\ n.crossed = FALSE
    BY ONLY <2>6, <2>7
  <2> QED BY <2>3 DEF q
<1>2. SetThread("Hc", OpenState(style).cont, AllThreads) = <<Cmd("Hc", AllThreads, "reply")>>
  BY OpenType DEF SetThread, AllThreads, NotSent
<1>3. SetThread("Hc", OpenState(style).cont, AllThreads)
        \o <<Cmd("qC", 0, "reply"), Cmd("qOffsets", 0, "reply"), Cmd("?", 0, "wait")>>
        \o (IF style = "extended" THEN <<Cmd("!", 0, "reply")>> ELSE <<>>) = Opening(style)
  BY <1>2 DEF Opening
<1>4. g' = Go(n).g /\ h2s' = <<Plus>> \o Go(n).out
  BY <1>3 DEF Connect
<1> QED BY <1>1, <1>4

LEMMA ConnectType ==
  ASSUME TypeInv, NEW style \in {"plain", "extended"}, Connect(style)
  PROVE  TypeInv'
<1> DEFINE n == [OpenState(style) EXCEPT !.todo = Opening(style)]
           o == Go(n)
<1>1. n \in Gdbs /\ g' = o.g /\ h2s' = <<Plus>> \o o.out
  BY Connecting
<1> HIDE DEF n
<1>2. Outcome(o)
  BY <1>1, GoType
<1> HIDE DEF o
<1>3. h2s' \in Seq(Items)
  BY <1>1, <1>2, WritesType, ConcatProperties DEF Outcome
<1>4. s' = [s EXCEPT !.pc = "getpkt", !.buf = <<>>] /\ s \in Servers /\ Acts /\ s2h' = s2h
  BY DEF Connect, TypeInv
<1>5. s' \in Servers /\ s'.pc = "getpkt"
  BY <1>4, WritesType DEF Servers
<1> QED BY <1>1, <1>2, <1>3, <1>4, <1>5, ActsType DEF TypeInv, Outcome

\* The packets of a command of the user suit the session they are sent in.
LEMMA SuitsLast ==
  ASSUME NEW q \in Seq(Cmds), NEW w \in Seq(Cmds), NEW style \in {"plain", "extended"},
         Len(w) = Len(q) + 1, \A i \in 1..Len(q) : w[i] = q[i],
         \A i \in 1..Len(q) : /\ q[i].cmd \notin {"c", "!"} /\ q[i].then # "close"
                              /\ q[i].then = "none" => style = "extended",
         w[Len(w)].cmd # "!", w[Len(w)].then = "close" => style = "plain",
         w[Len(w)].then = "none" => style = "extended"
  PROVE  /\ Suits(w, style, style)
         /\ EndsWith(w, "c") <=> w[Len(w)].cmd = "c"
<1>1. \A i \in 1..Len(w) : i = Len(w) \/ (i \in 1..Len(q) /\ i # Len(w))
  OBVIOUS
<1>2. \A i \in 1..Len(w) :
       /\ w[i].cmd \in {"c", "!"} => i = Len(w)
       /\ w[i].cmd = "!" => style = "extended"
       /\ w[i].then = "none" => style = "extended"
       /\ w[i].then = "close" => style = "plain"
  BY <1>1
<1>3. EndsWith(w, "c") <=> w[Len(w)].cmd = "c"
  BY DEF EndsWith
<1> QED BY <1>2, <1>3 DEF Suits

LEMMA SuitsOne ==
  ASSUME NEW p \in Cmds, NEW style \in {"plain", "extended"}, p.cmd # "!",
         p.then = "close" => style = "plain", p.then = "none" => style = "extended"
  PROVE  <<p>> \in Seq(Cmds) /\ Suits(<<p>>, style, style)
         /\ (EndsWith(<<p>>, "c") <=> p.cmd = "c")
<1>1. <<p>> \in Seq(Cmds) /\ Len(<<p>>) = 1 /\ <<p>>[1] = p
  OBVIOUS
<1>2. <<>> \in Seq(Cmds) /\ Len(<<>>) = 0
  OBVIOUS
<1> DEFINE w == <<p>>
           e == <<>>
<1>3. w \in Seq(Cmds) /\ Len(w) = 1 /\ w[1] = p /\ e \in Seq(Cmds) /\ Len(e) = 0
  BY <1>1, <1>2
<1> HIDE DEF w, e
<1>4. /\ \A i \in 1..Len(e) : w[i] = e[i]
      /\ \A i \in 1..Len(e) : /\ e[i].cmd \notin {"c", "!"} /\ e[i].then # "close"
                              /\ e[i].then = "none" => style = "extended"
  BY <1>3
<1>5. /\ Len(w) = Len(e) + 1 /\ w[Len(w)] = p /\ w[Len(w)].cmd # "!"
      /\ w[Len(w)].then = "close" => style = "plain"
      /\ w[Len(w)].then = "none" => style = "extended"
  BY <1>3
<1>6. w \in Seq(Cmds) /\ Suits(w, style, style) /\ (EndsWith(w, "c") <=> p.cmd = "c")
  BY <1>3, <1>4, <1>5, SuitsLast
<1> QED BY <1>6 DEF w

\* The packet of set_thread and another one.
LEMMA SuitsTwo ==
  ASSUME NEW cmd \in {"Hg", "Hc"}, NEW c, NEW t \in Threads \cup {MAGIC_NULL_PID, 0},
         cmd = "Hg" => t \in Threads \cup {MAGIC_NULL_PID},
         NEW p \in Cmds, p.cmd # "!", p.then \notin {"none", "close"},
         NEW style \in {"plain", "extended"}
  PROVE  /\ Append(SetThread(cmd, c, t), p) \in Seq(Cmds)
         /\ Suits(Append(SetThread(cmd, c, t), p), style, style)
         /\ EndsWith(Append(SetThread(cmd, c, t), p), "c") <=> p.cmd = "c"
<1> DEFINE q == SetThread(cmd, c, t)
           w == Append(q, p)
<1>1. q \in Seq(Cmds)
  BY SetThreadType
<1>2. \A i \in 1..Len(q) : q[i].cmd \notin {"c", "!"} /\ q[i].then = "reply"
  BY DEF SetThread, Cmd
<1> HIDE DEF q
<1>3. w \in Seq(Cmds) /\ Len(w) = Len(q) + 1 /\ w[Len(w)] = p /\ \A i \in 1..Len(q) : w[i] = q[i]
  BY <1>1
<1> HIDE DEF w
<1>4. \A i \in 1..Len(q) : /\ q[i].cmd \notin {"c", "!"} /\ q[i].then # "close"
                           /\ q[i].then = "none" => style = "extended"
  BY <1>2
<1>5. w \in Seq(Cmds) /\ Suits(w, style, style) /\ (EndsWith(w, "c") <=> p.cmd = "c")
  BY <1>1, <1>3, <1>4, SuitsLast
<1> QED BY <1>5 DEF w, q

LEMMA SuitsRun ==
  ASSUME NEW c
  PROVE  LET w == <<Cmd("R", 0, "none"), Cmd("?", 0, "reply")>> \o SetThread("Hc", c, 0)
                  \o <<Cmd("c", 0, "wait")>>
         IN  w \in Seq(Cmds) /\ Suits(w, "extended", "extended") /\ EndsWith(w, "c")
<1> DEFINE a == <<Cmd("R", 0, "none"), Cmd("?", 0, "reply")>>
           h == SetThread("Hc", c, 0)
           q == a \o h
           p == Cmd("c", 0, "wait")
           w == q \o <<p>>
<1>1. p \in Cmds /\ p.cmd = "c" /\ p.then = "wait"
  BY PlainCmds, CmdIs
<1>2. a \in Seq(Cmds) /\ \A i \in 1..Len(a) : a[i].cmd \notin {"c", "!"} /\ a[i].then # "close"
  <2>1. \A x, y \in Cmds : <<x, y>> \in Seq(Cmds) /\ Len(<<x, y>>) = 2 /\ <<x, y>>[1] = x /\ <<x, y>>[2] = y
    OBVIOUS
  <2>2. a \in Seq(Cmds) /\ Len(a) = 2 /\ a[1] = Cmd("R", 0, "none") /\ a[2] = Cmd("?", 0, "reply")
    BY <2>1, PlainCmds
  <2> HIDE DEF a
  <2>3. \A i \in 1..Len(a) : i = 1 \/ i = 2
    BY <2>2
  <2> QED BY <2>2, <2>3, CmdIs
<1>3. h \in Seq(Cmds) /\ \A i \in 1..Len(h) : h[i].cmd \notin {"c", "!"} /\ h[i].then # "close"
  <2>1. h \in Seq(Cmds)
    BY SetThreadType
  <2> QED BY <2>1 DEF SetThread, Cmd
<1> HIDE DEF a, h, p
<1>4. /\ q \in Seq(Cmds) /\ Len(q) = Len(a) + Len(h)
      /\ \A i \in 1..Len(q) : q[i] = IF i <= Len(a) THEN a[i] ELSE h[i - Len(a)]
  BY <1>2, <1>3, ConcatProperties
<1> HIDE DEF q
<1>5. \A i \in 1..Len(q) : q[i].cmd \notin {"c", "!"} /\ q[i].then # "close"
  <2> TAKE i \in 1..Len(q)
  <2>1. i <= Len(a) => i \in 1..Len(a)
    BY <1>2
  <2>2. ~(i <= Len(a)) => i - Len(a) \in 1..Len(h)
    BY <1>2, <1>3, <1>4
  <2> QED BY <1>2, <1>3, <1>4, <2>1, <2>2
<1>6. /\ w \in Seq(Cmds) /\ Len(w) = Len(q) + 1 /\ w[Len(w)] = p
      /\ \A i \in 1..Len(q) : w[i] = q[i]
  <2>1. <<p>> \in Seq(Cmds) /\ Len(<<p>>) = 1 /\ <<p>>[1] = p
    BY <1>1
  <2> QED BY <1>4, <2>1, ConcatProperties
<1> HIDE DEF w
<1>7. Suits(w, "extended", "extended") /\ (EndsWith(w, "c") <=> p.cmd = "c")
  BY <1>1, <1>4, <1>5, <1>6, SuitsLast
<1>8. w \in Seq(Cmds) /\ Suits(w, "extended", "extended") /\ EndsWith(w, "c")
  BY <1>1, <1>6, <1>7
<1> QED BY <1>8 DEF w, q, a, h, p

\* A command of the user is a list of packets that suits the session, with a resumption that GDB
\* counts when its last packet is 'c'.
LEMMA Commands ==
  ASSUME TypeInv, Continue \/ Thread \/ Fetch \/ Kill \/ Run \/ Detach
  PROVE  /\ g.pc = "prompt"
         /\ \E st \in Gdbs, todo \in Seq(Cmds) :
              /\ Start(st, todo)
              /\ st.style = g.style /\ st.cont = g.cont /\ st.crossed = g.crossed
              /\ st.resumes = g.resumes + (IF EndsWith(todo, "c") THEN 1 ELSE 0)
              /\ Suits(todo, g.style, g.style)
<1>0. /\ g \in Gdbs /\ g.style \in {"plain", "extended"} /\ g.resumes \in Nat /\ g.resumes + 0 = g.resumes
      /\ g.inferior \in Threads \cup {MAGIC_NULL_PID} /\ g.known \subseteq Threads
  BY SessionAssumption DEF TypeInv, Gdbs
<1> DEFINE n == [g EXCEPT !.resumes = @ + 1]
<1>1. g.resumes < MaxResumes => /\ n \in Gdbs /\ n.style = g.style /\ n.cont = g.cont
                                /\ n.crossed = g.crossed /\ n.resumes = g.resumes + 1
  <2>1. g.resumes < MaxResumes => g.resumes + 1 \in 0..MaxResumes
    BY <1>0, SessionAssumption
  <2> QED BY <1>0, <2>1 DEF Gdbs
<1> HIDE DEF n
<1>2. CASE Continue
  <2>1. PICK th \in {0, g.inferior} : Start(n, Append(SetThread("Hc", g.cont, th), Cmd("c", 0, "wait")))
    BY <1>2 DEF Continue, n
  <2>2. g.pc = "prompt" /\ g.resumes < MaxResumes
    BY <1>2 DEF Continue
  <2>3. Cmd("c", 0, "wait") \in Cmds /\ Cmd("c", 0, "wait").cmd = "c" /\ Cmd("c", 0, "wait").then = "wait"
    BY PlainCmds, CmdIs
  <2> DEFINE q == Append(SetThread("Hc", g.cont, th), Cmd("c", 0, "wait"))
  <2>4. q \in Seq(Cmds) /\ Suits(q, g.style, g.style) /\ EndsWith(q, "c")
    BY <1>0, <2>1, <2>3, SuitsTwo
  <2>5. Start(n, q)
    BY <2>1
  <2> HIDE DEF q
  <2> QED BY <1>1, <2>2, <2>4, <2>5
<1>3. CASE Thread
  <2>1. PICK t \in g.known \ {g.inferior} : Start(g, <<Cmd("T", t, "reply")>>)
    BY <1>3 DEF Thread
  <2> DEFINE p == Cmd("T", t, "reply")
  <2>2. p \in Cmds /\ p.cmd = "T" /\ p.then = "reply"
    BY <1>0, <2>1, ThreadCmds, CmdIs
  <2>3. Start(g, <<p>>)
    BY <2>1
  <2> HIDE DEF p
  <2>4. g.pc = "prompt"
    BY <1>3 DEF Thread
  <2>5. <<p>> \in Seq(Cmds) /\ Suits(<<p>>, g.style, g.style) /\ ~EndsWith(<<p>>, "c")
    BY <1>0, <2>2, SuitsOne
  <2> QED BY <1>0, <2>3, <2>4, <2>5
<1>4. CASE Fetch
  <2> DEFINE p == Cmd("g", 0, "reply")
             q == Append(SetThread("Hg", g.general, g.inferior), p)
  <2>1. p \in Cmds /\ p.cmd = "g" /\ p.then = "reply"
    BY PlainCmds, CmdIs
  <2>2. Start(g, q) /\ g.pc = "prompt"
    BY <1>4 DEF Fetch
  <2> HIDE DEF p
  <2>3. q \in Seq(Cmds) /\ Suits(q, g.style, g.style) /\ ~EndsWith(q, "c")
    BY <1>0, <2>1, SuitsTwo
  <2> HIDE DEF q
  <2> QED BY <1>0, <2>2, <2>3
<1>5. CASE Kill
  <2> DEFINE p == Cmd("k", 0, IF g.style = "plain" THEN "close" ELSE "none")
  <2>1. p \in Cmds /\ p.cmd = "k" /\ p.then = IF g.style = "plain" THEN "close" ELSE "none"
    BY PlainCmds, CmdIs
  <2>2. Start(g, <<p>>) /\ g.pc = "prompt"
    BY <1>5 DEF Kill
  <2> HIDE DEF p
  <2>3. <<p>> \in Seq(Cmds) /\ Suits(<<p>>, g.style, g.style) /\ ~EndsWith(<<p>>, "c")
    BY <1>0, <2>1, SuitsOne
  <2> QED BY <1>0, <2>2, <2>3
<1>6. CASE Run
  <2> DEFINE q == <<Cmd("R", 0, "none"), Cmd("?", 0, "reply")>> \o SetThread("Hc", g.cont, 0)
                  \o <<Cmd("c", 0, "wait")>>
  <2>1. q \in Seq(Cmds) /\ Suits(q, "extended", "extended") /\ EndsWith(q, "c")
    BY SuitsRun
  <2>2. Start(n, q) /\ g.pc = "prompt" /\ g.style = "extended" /\ g.resumes < MaxResumes
    BY <1>6 DEF Run, n
  <2> HIDE DEF q
  <2>3. Suits(q, g.style, g.style)
    BY <2>1, <2>2
  <2> QED BY <1>1, <2>1, <2>2, <2>3
<1>7. CASE Detach
  <2> DEFINE p == Cmd("D", 0, "reply")
  <2>1. p \in Cmds /\ p.cmd = "D" /\ p.then = "reply"
    BY PlainCmds, CmdIs
  <2>2. Start(g, <<p>>) /\ g.pc = "prompt"
    BY <1>7 DEF Detach
  <2> HIDE DEF p
  <2>3. <<p>> \in Seq(Cmds) /\ Suits(<<p>>, g.style, g.style) /\ ~EndsWith(<<p>>, "c")
    BY <1>0, <2>1, SuitsOne
  <2> QED BY <1>0, <2>2, <2>3
<1> QED BY <1>2, <1>3, <1>4, <1>5, <1>6, <1>7

LEMMA UserType ==
  ASSUME TypeInv, User
  PROVE  TypeInv'
<1>1. Styles \subseteq {"plain", "extended"}
  BY SessionAssumption
<1>2. Continue \/ Thread \/ Fetch \/ Kill \/ Run \/ Detach => TypeInv'
  BY Commands, StartType
<1> QED BY <1>1, <1>2, InterruptType, AnswerType, ConnectType DEF User

-----------------------------------------------------------------------------
(* What gdbserver does with a packet.                                      *)

\* n is st but for what the reply, the stop and the threads concern.
Same(n, st) ==
  n.ext = st.ext /\ n.cont = st.cont /\ n.buf = st.buf /\ n.resumes = st.resumes
\* n is st but for those and what has been read.
Kept(n, st) == n.ext = st.ext /\ n.cont = st.cont /\ n.resumes = st.resumes

LEMMA Names ==
  /\ "stop" \in Whats /\ "exit" \in Whats /\ "ok" \in Whats /\ "error" \in Whats
  /\ "empty" \in Whats /\ "regs" \in Whats
  /\ "!" \in CmdNames /\ "?" \in CmdNames /\ "Hg" \in CmdNames /\ "Hc" \in CmdNames
  /\ "g" \in CmdNames /\ "c" \in CmdNames /\ "T" \in CmdNames
  BY DEF Whats, CmdNames

LEMMA PutReplyIs ==
  ASSUME NEW st \in Servers, NEW cmd \in CmdNames, NEW arg \in Threads \cup {0}, NEW what \in Whats
  PROVE  LET n == PutReply(st, cmd, what, arg) IN
         /\ n \in Servers /\ n.reply \in Replies /\ n.pc = "ack" /\ Same(n, st)
         /\ n.status = st.status /\ n.reply.to = cmd /\ n.reply.what = what
<1> DEFINE r == Reply(cmd, what, arg)
           n == [st EXCEPT !.pc = "ack", !.reply = r]
<1>1. r \in Replies /\ r.to = cmd /\ r.what = what
  BY DEF Reply, Replies, Whats
<1>2. PutReply(st, cmd, what, arg) = n
  BY DEF PutReply
<1> HIDE DEF r
<1>3. /\ n \in Servers /\ n.reply = r /\ n.pc = "ack" /\ Same(n, st) /\ n.status = st.status
  BY <1>1 DEF Servers, Same
<1> HIDE DEF n
<1> QED BY <1>1, <1>2, <1>3

LEMMA PutResumeReplyIs ==
  ASSUME NEW st \in Servers, NEW cmd \in CmdNames
  PROVE  LET n == PutResumeReply(st, cmd) IN
         /\ n \in Servers /\ n.reply \in Replies /\ n.pc = "ack" /\ Same(n, st)
         /\ n.status = st.status /\ n.reply.to = cmd /\ n.reply.what \in {"stop", "exit"}
         /\ st.status = "W" => n.reply.what = "exit"
<1> DEFINE m == [st EXCEPT !.old_from_wait = st.from_wait]
           w == IF st.status = "T" THEN "stop" ELSE "exit"
           v == "stop"
           n == PutResumeReply(st, cmd)
<1>1. m \in Servers /\ Same(m, st) /\ m.status = st.status /\ st.from_wait \in Threads \cup {0}
  BY DEF Servers, Same
<1>2. \/ n = PutReply(m, cmd, v, st.from_wait) /\ st.status = "T"
      \/ n = PutReply(st, cmd, w, 0)
  BY DEF PutResumeReply
<1>3. w \in {"stop", "exit"} /\ w \in Whats /\ (st.status = "W" => w = "exit") /\ v \in Whats /\ v = "stop"
  BY Names
<1> HIDE DEF m, w, v, n
<1>4. CASE n = PutReply(m, cmd, v, st.from_wait) /\ st.status = "T"
  <2>1. /\ n \in Servers /\ n.reply \in Replies /\ n.pc = "ack" /\ Same(n, m)
        /\ n.status = m.status /\ n.reply.to = cmd /\ n.reply.what = v
    BY <1>1, <1>3, <1>4, PutReplyIs
  <2>2. Same(n, st) /\ n.status = st.status /\ st.status # "W"
    BY <1>1, <1>4, <2>1 DEF Same
  <2> QED BY <1>3, <2>1, <2>2 DEF n
<1>5. CASE n = PutReply(st, cmd, w, 0)
  <2>1. /\ n \in Servers /\ n.reply \in Replies /\ n.pc = "ack" /\ Same(n, st)
        /\ n.status = st.status /\ n.reply.to = cmd /\ n.reply.what = w
    BY <1>3, <1>5, PutReplyIs
  <2> QED BY <1>3, <2>1 DEF n
<1> QED BY <1>2, <1>4, <1>5

\* A thread that gdbserver is told to use.
LEMMA RegsType ==
  ASSUME NEW st \in Servers, Fetchable(st)
  PROVE  RegsOf(st) \in Threads
  BY DEF Fetchable, RegsOf, Servers

LEMMA StartChildIs ==
  ASSUME NEW st \in Servers, NEW t \in Threads
  PROVE  LET n == StartChild(st, t) IN
         n \in Servers /\ n.pc = "getpkt" /\ Same(n, st) /\ (st.status = "T" => n.status = "T")
<1> DEFINE m == [st EXCEPT !.pc = "getpkt", !.alive = {t}, !.from_wait = t, !.sigint = FALSE]
<1>1. m \in Servers /\ m.pc = "getpkt" /\ Same(m, st) /\ m.status = st.status
  BY DEF Servers, Same
<1> DEFINE n == StartChild(st, t)
<1>2. n = IF Fetchable(m) THEN [m EXCEPT !.status = "T", !.regs = RegsOf(m)] ELSE m
  BY DEF StartChild
<1> HIDE DEF m, n
<1>3. CASE Fetchable(m)
  <2> DEFINE x == RegsOf(m)
  <2>1. x \in Threads
    BY <1>1, <1>3, RegsType
  <2>2. n = [m EXCEPT !.status = "T", !.regs = x]
    BY <1>2, <1>3
  <2> HIDE DEF x
  <2>3. n \in Servers /\ n.pc = "getpkt" /\ Same(n, st) /\ n.status = "T"
    BY <1>1, <2>1, <2>2 DEF Servers, Same
  <2> QED BY <2>3 DEF n
<1>4. CASE ~Fetchable(m)
  <2>1. n \in Servers /\ n.pc = "getpkt" /\ Same(n, st) /\ n.status = st.status
    BY <1>1, <1>2, <1>4
  <2> QED BY <2>1 DEF n
<1> QED BY <1>3, <1>4

LEMMA WireType ==
  /\ \A t \in Threads \cup {MAGIC_NULL_PID} : OnWire(t) \in Threads \cup {0}
  /\ \A t \in Threads \cup {MAGIC_NULL_PID, 0, AllThreads} : OnWire(t) \in Threads \cup {0, AllThreads}
  BY DEF OnWire

\* The state n in which packet p leaves a gdbserver that was in state st.
Leaves(n, st, p) ==
  /\ n \in Servers /\ (n.pc = "ack" => n.reply \in Replies)
  /\ n.pc \in {"ack", "getpkt", "resumed", "gone"}
  /\ n.ext = IF p.cmd = "!" THEN TRUE ELSE st.ext
  /\ n.buf = IF n.pc = "gone" THEN <<>> ELSE st.buf
  /\ n.resumes = IF p.cmd = "c" THEN st.resumes + 1 ELSE st.resumes
  /\ n.cont = IF p.cmd = "Hc" THEN OnWire(p.arg) ELSE st.cont
  /\ n.ext # TRUE => n.status = st.status
  /\ n.pc = "ack" => /\ n.reply.to = p.cmd /\ p.cmd \notin {"c", "k"} /\ (p.cmd = "R" => st.ext # TRUE)
                     /\ p.cmd = "g" => n.reply.what = "regs"
                     /\ p.cmd = "?" => n.reply.what \in {"stop", "exit"}
  /\ n.pc = "getpkt" => p.cmd \in {"Hg", "c"} \/ (p.cmd \in {"k", "R"} /\ st.ext = TRUE)
  /\ n.pc = "resumed" => p.cmd = "c"
  /\ n.pc = "gone" => p.cmd = "k" /\ st.ext # TRUE

\* A packet that gets a reply: m is st with what the packet has changed.
LEMMA LeavesAReply ==
  ASSUME NEW st \in Servers, NEW m \in Servers, NEW p \in Cmds, NEW what \in Whats,
         NEW arg \in Threads \cup {0},
         p.cmd \notin {"c", "k"}, p.cmd = "R" => st.ext # TRUE,
         p.cmd = "g" => what = "regs", p.cmd \notin {"?", "!"},
         m.ext = st.ext, m.buf = st.buf, m.resumes = st.resumes, m.status = st.status,
         m.cont = IF p.cmd = "Hc" THEN OnWire(p.arg) ELSE st.cont
  PROVE  Leaves(PutReply(m, p.cmd, what, arg), st, p)
<1> DEFINE n == PutReply(m, p.cmd, what, arg)
<1>0. p.cmd \in CmdNames
  BY CmdFields
<1>1. /\ n \in Servers /\ n.reply \in Replies /\ n.pc = "ack" /\ Same(n, m)
      /\ n.status = m.status /\ n.reply.to = p.cmd /\ n.reply.what = what
  BY ONLY <1>0, m \in Servers, what \in Whats, arg \in Threads \cup {0}, PutReplyIs
<1> HIDE DEF n
<1>2. Leaves(n, st, p)
  BY <1>1 DEF Leaves, Same
<1> QED BY <1>2 DEF n

LEMMA LeavesAStop ==
  ASSUME NEW st \in Servers, NEW m \in Servers, NEW p \in Cmds, p.cmd \in {"?", "!"},
         m.ext = IF p.cmd = "!" THEN TRUE ELSE st.ext,
         m.buf = st.buf, m.resumes = st.resumes, m.status = st.status, m.cont = st.cont
  PROVE  Leaves(PutResumeReply(m, p.cmd), st, p)
<1> DEFINE n == PutResumeReply(m, p.cmd)
<1>1. /\ n \in Servers /\ n.reply \in Replies /\ n.pc = "ack" /\ Same(n, m)
      /\ n.status = m.status /\ n.reply.to = p.cmd /\ n.reply.what \in {"stop", "exit"}
  BY PutResumeReplyIs, CmdFields
<1> HIDE DEF n
<1>2. Leaves(n, st, p)
  BY <1>1 DEF Leaves, Same
<1> QED BY <1>2 DEF n

\* The states in which a packet leaves gdbserver.
LEMMA Executes ==
  ASSUME NEW st \in Servers, NEW p \in Cmds, st.pc = "getpkt", NEW n \in Execute(st, p)
  PROVE  Leaves(n, st, p)
<1>0. p.cmd \in CmdNames /\ GoodCmd(p) /\ 0 \in Threads \cup {0}
  BY CmdFields
<1>1. CASE p.cmd = "!"
  <2> DEFINE m == [st EXCEPT !.ext = TRUE]
  <2>1. /\ m \in Servers /\ m.ext = TRUE /\ m.cont = st.cont /\ m.buf = st.buf
        /\ m.resumes = st.resumes /\ m.status = st.status
    BY DEF Servers
  <2>2. n = PutResumeReply(m, p.cmd)
    BY <1>1 DEF Execute
  <2> HIDE DEF m
  <2> QED BY <1>1, <2>1, <2>2, LeavesAStop
<1>2. CASE p.cmd = "?"
  <2>1. n = PutResumeReply(st, p.cmd)
    BY <1>2 DEF Execute
  <2> QED BY <1>2, <2>1, LeavesAStop
<1>3. CASE p.cmd = "Hg"
  <2> DEFINE t == OnWire(p.arg)
             m == [st EXCEPT !.general = t]
  <2>1. t \in Threads \cup {0}
    BY <1>0, <1>3, WireType DEF GoodCmd
  <2>2. n = IF Fetchable(m) THEN PutReply([m EXCEPT !.regs = RegsOf(m)], "Hg", "ok", 0) ELSE m
    BY <1>3 DEF Execute
  <2> HIDE DEF t
  <2>3. m \in Servers /\ Same(m, st) /\ m.status = st.status /\ m.pc = "getpkt"
    BY <2>1 DEF Servers, Same
  <2> HIDE DEF m
  <2>4. CASE Fetchable(m)
    <3> DEFINE x == RegsOf(m)
               k == [m EXCEPT !.regs = x]
    <3>1. x \in Threads
      BY <2>3, <2>4, RegsType
    <3>2. n = PutReply(k, p.cmd, "ok", 0)
      BY <1>3, <2>2, <2>4
    <3> HIDE DEF x
    <3>3. k \in Servers /\ Same(k, m) /\ k.status = m.status
      BY <2>3, <3>1 DEF Servers, Same
    <3> HIDE DEF k
    <3>4. /\ k.ext = st.ext /\ k.buf = st.buf /\ k.resumes = st.resumes /\ k.status = st.status
          /\ k.cont = st.cont
      BY <2>3, <3>3 DEF Same
    <3> QED BY <1>0, <1>3, <3>2, <3>3, <3>4, LeavesAReply, Names
  <2>5. CASE ~Fetchable(m)
    <3>1. n = m
      BY <2>2, <2>5
    <3> QED BY <1>3, <2>3, <3>1 DEF Same, Leaves
  <2> QED BY <2>4, <2>5
<1>4. CASE p.cmd = "Hc"
  <2> DEFINE t == OnWire(p.arg)
             m == [st EXCEPT !.cont = t]
  <2>1. t \in Threads \cup {0, AllThreads}
    BY <1>0, <1>4, WireType DEF GoodCmd
  <2>2. n = PutReply(m, p.cmd, "ok", 0)
    BY <1>4 DEF Execute
  <2>t. t = OnWire(p.arg)
    OBVIOUS
  <2> HIDE DEF t
  <2>3. /\ m \in Servers /\ m.cont = t /\ m.status = st.status /\ m.ext = st.ext /\ m.buf = st.buf
        /\ m.resumes = st.resumes
    BY <2>1 DEF Servers
  <2> HIDE DEF m
  <2> QED BY <1>0, <1>4, <2>2, <2>t, <2>3, LeavesAReply, Names
<1>5. CASE p.cmd = "g"
  <2>1. n = PutReply(st, p.cmd, "regs", st.regs) /\ st.regs \in Threads \cup {0}
    BY <1>5 DEF Execute, Servers
  <2> QED BY <1>5, <2>1, LeavesAReply, Names
<1>6. CASE p.cmd = "c"
  <2>1. \/ n = [st EXCEPT !.pc = "resumed", !.resumes = @ + 1]
        \/ n = [st EXCEPT !.resumes = @ + 1]
    BY <1>6 DEF Execute
  <2>2. st.resumes + 1 \in Nat
    BY DEF Servers
  <2>3. /\ n \in Servers /\ n.ext = st.ext /\ n.cont = st.cont /\ n.buf = st.buf /\ n.status = st.status
        /\ n.resumes = st.resumes + 1 /\ n.pc \in {"resumed", "getpkt"}
    BY <2>1, <2>2 DEF Servers
  <2> QED BY <1>6, <2>3 DEF Leaves
<1>7. CASE p.cmd = "k" /\ st.ext # TRUE
  <2>1. n = [st EXCEPT !.pc = "gone", !.buf = <<>>]
    BY <1>7 DEF Execute, Servers
  <2>2. /\ n \in Servers /\ n.ext = st.ext /\ n.cont = st.cont /\ n.buf = <<>> /\ n.status = st.status
        /\ n.resumes = st.resumes /\ n.pc = "gone"
    BY <2>1, WritesType DEF Servers
  <2> QED BY <1>7, <2>2 DEF Leaves
<1>8. CASE p.cmd \in {"k", "R"} /\ st.ext = TRUE
  <2>1. PICK t \in Threads : n = StartChild(st, t)
    BY <1>8 DEF Execute
  <2>2. n \in Servers /\ n.pc = "getpkt" /\ Same(n, st)
    BY <2>1, StartChildIs
  <2> QED BY <1>8, <2>2 DEF Same, Leaves
<1>9. CASE p.cmd = "T"
  <2> DEFINE w == IF p.arg \in st.alive THEN "ok" ELSE "error"
  <2>1. n = PutReply(st, p.cmd, w, 0) /\ w \in Whats
    BY <1>9, Names DEF Execute
  <2> HIDE DEF w
  <2> QED BY <1>0, <1>9, <2>1, LeavesAReply
<1>10. CASE p.cmd \in {"D", "qC", "qOffsets"} \/ (p.cmd = "R" /\ st.ext # TRUE)
  <2>1. n = PutReply(st, p.cmd, "empty", 0)
    BY <1>10 DEF Execute, Servers
  <2> QED BY <1>0, <1>10, <2>1, LeavesAReply, Names
<1> QED BY <1>0, <1>1, <1>2, <1>3, <1>4, <1>5, <1>6, <1>7, <1>8, <1>9, <1>10 DEF CmdNames

\* What a read takes from the line, in the order it was sent.
LEMMA ReadsIs ==
  ASSUME TypeInv, NEW r \in Reads
  PROVE  /\ r.buf \in Seq(Items) /\ r.buf # <<>> /\ r.line \in Seq(Items)
         /\ Head(r.buf) \in Items /\ Tail(r.buf) \in Seq(Items)
         /\ r.buf \o r.line = Line
<1>1. s.buf \in Seq(Items) /\ h2s \in Seq(Items)
  BY DEF TypeInv, Servers
<1>2. CASE s.buf # <<>>
  <2>1. r = [buf |-> s.buf, line |-> h2s]
    BY <1>2 DEF Reads
  <2> QED BY <1>1, <1>2, <2>1 DEF Line
<1>3. CASE s.buf = <<>>
  <2>1. PICK k \in 1..Len(h2s) : r = [buf |-> SubSeq(h2s, 1, k), line |-> SubSeq(h2s, k + 1, Len(h2s))]
    BY <1>3 DEF Reads
  <2> DEFINE a == SubSeq(h2s, 1, k)
             b == SubSeq(h2s, k + 1, Len(h2s))
             c == a \o b
  <2>2. a \in Seq(Items) /\ Len(a) = k /\ \A i \in 1..k : a[i] = h2s[i]
    BY <1>1, <2>1
  <2>3. b \in Seq(Items) /\ Len(b) = Len(h2s) - k /\ \A i \in 1..(Len(h2s) - k) : b[i] = h2s[k + i]
    BY <1>1, <2>1
  <2>4. r.buf = a /\ r.line = b
    BY <2>1
  <2> HIDE DEF a, b
  <2>5. c \in Seq(Items) /\ Len(c) = Len(h2s)
    <3>1. c \in Seq(Items) /\ Len(c) = Len(a) + Len(b)
      BY <2>2, <2>3, ConcatProperties
    <3>2. k + (Len(h2s) - k) = Len(h2s)
      BY <1>1, <2>1
    <3> QED BY <2>2, <2>3, <3>1, <3>2
  <2>6. \A i \in 1..Len(h2s) : c[i] = h2s[i]
    <3> TAKE i \in 1..Len(h2s)
    <3>1. c[i] = IF i <= Len(a) THEN a[i] ELSE b[i - Len(a)]
      BY <1>1, <2>1, <2>2, <2>3, ConcatProperties
    <3>2. i <= k => a[i] = h2s[i]
      BY <2>2
    <3>3. ~(i <= k) => i - k \in 1..(Len(h2s) - k) /\ k + (i - k) = i
      BY <1>1, <2>1
    <3> QED BY <2>2, <2>3, <3>1, <3>2, <3>3
  <2> HIDE DEF c
  <2>7. c = h2s
    BY <1>1, <2>5, <2>6
  <2>8. Line = h2s
    BY <1>1, <1>3 DEF Line
  <2>9. a # <<>> /\ Head(a) \in Items /\ Tail(a) \in Seq(Items)
    BY <2>1, <2>2
  <2> QED BY <2>2, <2>3, <2>4, <2>7, <2>8, <2>9 DEF c
<1> QED BY <1>2, <1>3

\* The first thing on the line, and the rest.
LEMMA HeadTail ==
  ASSUME NEW a \in Seq(Items), a # <<>>, NEW b \in Seq(Items)
  PROVE  /\ a \o b # <<>> /\ Head(a) = (a \o b)[1] /\ Tail(a) \o b = Tail(a \o b)
<1> DEFINE l == a \o b
<1>1. l \in Seq(Items) /\ Len(a) > 0 /\ Len(l) = Len(a) + Len(b) /\ Head(a) = a[1]
  BY ConcatProperties
<1>2. l[1] = a[1]
  BY <1>1, ConcatProperties
<1>0. \A i \in 1..Len(l) : l[i] = IF i <= Len(a) THEN a[i] ELSE b[i - Len(a)]
  BY <1>1, ConcatProperties
<1> HIDE DEF l
<1> DEFINE x == Tail(a)
           y == Tail(l)
           z == x \o b
<1>3. /\ x \in Seq(Items) /\ Len(x) = Len(a) - 1 /\ \A i \in 1..(Len(a) - 1) : x[i] = a[i + 1]
      /\ y \in Seq(Items) /\ Len(y) = Len(l) - 1 /\ \A i \in 1..(Len(l) - 1) : y[i] = l[i + 1]
  BY <1>1
<1> HIDE DEF x, y
<1>4. z \in Seq(Items) /\ Len(z) = Len(y)
  <2>1. z \in Seq(Items) /\ Len(z) = Len(x) + Len(b)
    BY <1>3, ConcatProperties
  <2>2. \A i, j \in Int : (i - 1) + j = (i + j) - 1
    OBVIOUS
  <2>3. Len(a) \in Int /\ Len(b) \in Int
    OBVIOUS
  <2> QED BY <1>1, <1>3, <2>1, <2>2, <2>3
<1>5. \A i \in 1..Len(y) : z[i] = y[i]
  <2> TAKE i \in 1..Len(y)
  <2>1. z[i] = IF i <= Len(x) THEN x[i] ELSE b[i - Len(x)]
    BY <1>1, <1>3, ConcatProperties
  <2>2. l[i + 1] = IF i + 1 <= Len(a) THEN a[i + 1] ELSE b[i + 1 - Len(a)]
    <3>1. i + 1 \in 1..Len(l)
      BY <1>1, <1>3
    <3> QED BY <1>0, <3>1
  <2>3. y[i] = l[i + 1]
    BY <1>3
  <2>4. i <= Len(x) => x[i] = a[i + 1] /\ i + 1 <= Len(a)
    BY <1>3
  <2>5. ~(i <= Len(x)) => ~(i + 1 <= Len(a)) /\ i - Len(x) = i + 1 - Len(a)
    BY <1>3
  <2> QED BY <2>1, <2>2, <2>3, <2>4, <2>5
<1> HIDE DEF z
<1>6. z = y
  BY <1>3, <1>4, <1>5, SeqEqual
<1>7. l # <<>>
  BY <1>1
<1> QED BY <1>1, <1>2, <1>6, <1>7 DEF l, x, y, z

\* What gdbserver says.
LEMMA SaysType ==
  ASSUME TypeInv, NEW out \in Seq(Answers), Says(out)
  PROVE  s2h' \in Seq(Answers) /\ (g.pc = "closed" => s2h' = <<>>) /\ (g.pc # "closed" => s2h' = s2h \o out)
<1>1. s2h \in Seq(Answers) /\ <<>> \in Seq(Answers)
  BY DEF TypeInv
<1>2. s2h \o out \in Seq(Answers)
  BY <1>1, ConcatProperties
<1> QED BY <1>1, <1>2 DEF Says

LEMMA OutType ==
  /\ <<>> \in Seq(Answers) /\ <<Plus>> \in Seq(Answers)
  /\ \A r \in Replies : <<r>> \in Seq(Answers) /\ <<Plus, r>> \in Seq(Answers)
  BY DEF Answers

\* gdbserver reads: a character is dropped, and a packet is carried out.
LEMMA Reading ==
  ASSUME TypeInv, SRead
  PROVE  /\ s.pc = "getpkt" /\ Line # <<>> /\ Line[1] \in Items /\ g' = g /\ world' = world
         /\ \/ /\ Line[1].type # "packet" /\ s' \in Servers /\ s'.pc = "getpkt" /\ Kept(s', s)
               /\ s'.status = s.status /\ h2s' \in Seq(Items)
               /\ Line' = Tail(Line) /\ s2h' = s2h
            \/ \E st \in Servers :
                 /\ st.pc = "getpkt" /\ Kept(st, s) /\ st.status = s.status
                 /\ Line[1] \in Cmds /\ Leaves(s', st, Line[1])
                 /\ h2s' \in Seq(Items) /\ (s'.pc # "gone" => Line' = Tail(Line)) /\ (s'.pc = "gone" => h2s' = <<>>)
                 /\ Says(IF s'.pc = "ack" THEN <<Plus, s'.reply>> ELSE <<Plus>>)
<1>0. s \in Servers /\ s.buf \in Seq(Items) /\ h2s \in Seq(Items) /\ Line \in Seq(Items)
  BY ConcatProperties DEF TypeInv, Servers, Line
<1>1. PICK r \in Reads :
        LET st == [s EXCEPT !.buf = Tail(r.buf)] IN
        IF Head(r.buf).type # "packet" THEN s' = st /\ h2s' = r.line /\ UNCHANGED s2h
        ELSE \E n \in Execute(st, Head(r.buf)) :
               /\ s' = n
               /\ h2s' = IF n.pc = "gone" THEN <<>> ELSE r.line
               /\ Says(IF n.pc = "ack" THEN <<Plus, n.reply>> ELSE <<Plus>>)
  BY DEF SRead
<1>2. /\ r.buf \in Seq(Items) /\ r.buf # <<>> /\ r.line \in Seq(Items)
      /\ Head(r.buf) \in Items /\ Tail(r.buf) \in Seq(Items)
      /\ r.buf \o r.line = Line
  BY ReadsIs
<1>3. Line # <<>> /\ Head(r.buf) = Line[1] /\ Tail(r.buf) \o r.line = Tail(Line)
  BY <1>0, <1>2, HeadTail
<1> DEFINE q == Tail(r.buf)
           p == Head(r.buf)
           st == [s EXCEPT !.buf = q]
<1>4. s.pc = "getpkt" /\ g' = g /\ world' = world
  BY DEF SRead
<1>5. q \in Seq(Items) /\ q \o r.line = Tail(Line) /\ p = Line[1] /\ p \in Items
  BY <1>2, <1>3
<1>6. \/ p.type # "packet" /\ s' = st /\ h2s' = r.line /\ s2h' = s2h
      \/ /\ p.type = "packet" /\ s' \in Execute(st, p) /\ h2s' = IF s'.pc = "gone" THEN <<>> ELSE r.line
         /\ Says(IF s'.pc = "ack" THEN <<Plus, s'.reply>> ELSE <<Plus>>)
  BY <1>1
<1> HIDE DEF q, p
<1>7. /\ st \in Servers /\ st.pc = "getpkt" /\ Kept(st, s) /\ st.status = s.status
      /\ st.buf = q
  BY <1>0, <1>4, <1>5 DEF Servers, Kept
<1> HIDE DEF st
<1>8. CASE p.type # "packet" /\ s' = st /\ h2s' = r.line /\ s2h' = s2h
  <2>1. Line' = q \o r.line
    BY <1>7, <1>8 DEF Line
  <2>2. s' \in Servers /\ s'.pc = "getpkt" /\ Kept(s', s) /\ s'.status = s.status
    BY <1>7, <1>8
  <2> QED BY <1>2, <1>3, <1>4, <1>5, <1>8, <2>1, <2>2
<1>9. CASE /\ p.type = "packet" /\ s' \in Execute(st, p) /\ h2s' = IF s'.pc = "gone" THEN <<>> ELSE r.line
           /\ Says(IF s'.pc = "ack" THEN <<Plus, s'.reply>> ELSE <<Plus>>)
  <2>1. p \in Cmds
    BY <1>5, <1>9, ItemKind
  <2>2. Leaves(s', st, p)
    BY <1>7, <1>9, <2>1, Executes
  <2>3. s'.pc # "gone" => s'.buf = q /\ h2s' = r.line
    BY <1>7, <1>9, <2>2 DEF Leaves
  <2>4. s'.pc # "gone" => Line' = Tail(Line)
    BY <1>5, <2>3 DEF Line
  <2>5. h2s' \in Seq(Items) /\ (s'.pc = "gone" => h2s' = <<>>)
    BY <1>2, <1>9, WritesType
  <2> QED BY <1>3, <1>4, <1>5, <1>7, <1>9, <2>1, <2>2, <2>4, <2>5
<1> QED BY <1>6, <1>8, <1>9

\* The child that stops, or exits: a reply to the 'c', or none when its registers cannot be had.
LEMMA Mywaiting ==
  ASSUME TypeInv, SMywait
  PROVE  /\ s.pc = "mywait" /\ s' \in Servers /\ Same(s', s) /\ g' = g /\ h2s' = h2s /\ world' = world
         /\ world.kind = "calm" => h2s = <<>>
         /\ \/ /\ s'.pc = "ack" /\ s'.reply \in Replies /\ s'.reply.to = "c"
               /\ s'.reply.what \in {"stop", "exit"} /\ (s'.status = "W" => s'.reply.what = "exit")
            \/ s'.pc = "getpkt" /\ s'.status = s.status
         /\ Says(IF s'.pc = "ack" THEN <<s'.reply>> ELSE <<>>)
<1> DEFINE cc == "c"
<1>0. s \in Servers /\ cc \in CmdNames /\ cc = "c"
  BY Names DEF TypeInv
<1> HIDE DEF cc
<1>d. Deaf \in Servers /\ Same(Deaf, s) /\ Deaf.status = s.status
  BY <1>0 DEF Deaf, Servers, Same
<1>1. /\ s.pc = "mywait" /\ g' = g /\ h2s' = h2s /\ world' = world /\ (world.kind = "calm" => h2s = <<>>)
      /\ Says(IF s'.pc = "ack" THEN <<s'.reply>> ELSE <<>>)
  BY DEF SMywait
<1>2. ASSUME NEW m \in Servers, Same(m, s), s' = PutResumeReply(m, cc)
      PROVE  /\ s' \in Servers /\ Same(s', s) /\ s'.pc = "ack" /\ s'.reply \in Replies
             /\ s'.reply.to = "c" /\ s'.reply.what \in {"stop", "exit"}
             /\ s'.status = "W" => s'.reply.what = "exit"
  <2>1. /\ s' \in Servers /\ s'.reply \in Replies /\ s'.pc = "ack" /\ Same(s', m)
        /\ s'.status = m.status /\ s'.reply.to = cc /\ s'.reply.what \in {"stop", "exit"}
        /\ m.status = "W" => s'.reply.what = "exit"
    BY <1>0, <1>2, PutResumeReplyIs
  <2> QED BY <1>0, <1>2, <2>1 DEF Same
<1>3. ASSUME NEW alive \in SUBSET Threads, NEW t \in alive,
             s' = LET n == [Deaf EXCEPT !.alive = alive, !.from_wait = t] IN
                  IF Fetchable(n)
                    THEN PutResumeReply([n EXCEPT !.status = "T", !.regs = RegsOf(n)], cc)
                    ELSE [n EXCEPT !.pc = "getpkt"]
      PROVE  \/ \E m \in Servers : Same(m, s) /\ s' = PutResumeReply(m, cc)
             \/ s' \in Servers /\ Same(s', s) /\ s'.pc = "getpkt" /\ s'.status = s.status
  <2> DEFINE n == [Deaf EXCEPT !.alive = alive, !.from_wait = t]
  <2>1. n \in Servers /\ Same(n, s) /\ n.status = s.status
    BY <1>d DEF Servers, Same
  <2>2. s' = IF Fetchable(n) THEN PutResumeReply([n EXCEPT !.status = "T", !.regs = RegsOf(n)], cc)
             ELSE [n EXCEPT !.pc = "getpkt"]
    BY <1>3
  <2> HIDE DEF n
  <2>3. CASE Fetchable(n)
    <3> DEFINE x == RegsOf(n)
               m == [n EXCEPT !.status = "T", !.regs = x]
    <3>1. x \in Threads
      BY <2>1, <2>3, RegsType
    <3>2. s' = PutResumeReply(m, cc)
      BY <2>2, <2>3
    <3> HIDE DEF x
    <3>3. m \in Servers /\ Same(m, s)
      BY <2>1, <3>1 DEF Servers, Same
    <3> HIDE DEF m
    <3> QED BY <3>2, <3>3
  <2>4. CASE ~Fetchable(n)
    <3>1. s' = [n EXCEPT !.pc = "getpkt"]
      BY <2>2, <2>4
    <3> QED BY <2>1, <3>1 DEF Servers, Same
  <2> QED BY <2>3, <2>4
<1>4. ASSUME s' = PutResumeReply([Deaf EXCEPT !.alive = {}, !.status = "W"], cc)
      PROVE  \E m \in Servers : Same(m, s) /\ s' = PutResumeReply(m, cc)
  <2> DEFINE m == [Deaf EXCEPT !.alive = {}, !.status = "W"]
  <2>1. m \in Servers /\ Same(m, s)
    BY <1>d DEF Servers, Same
  <2>2. s' = PutResumeReply(m, cc)
    BY <1>4
  <2> HIDE DEF m
  <2> QED BY <2>1, <2>2
<1>5. \/ \E alive \in SUBSET Threads : \E t \in alive :
           s' = LET n == [Deaf EXCEPT !.alive = alive, !.from_wait = t] IN
                IF Fetchable(n)
                  THEN PutResumeReply([n EXCEPT !.status = "T", !.regs = RegsOf(n)], cc)
                  ELSE [n EXCEPT !.pc = "getpkt"]
      \/ s' = PutResumeReply([Deaf EXCEPT !.alive = {}, !.status = "W"], cc)
  BY DEF SMywait, cc
<1>6. \/ \E m \in Servers : Same(m, s) /\ s' = PutResumeReply(m, cc)
      \/ s' \in Servers /\ Same(s', s) /\ s'.pc = "getpkt" /\ s'.status = s.status
  BY <1>3, <1>4, <1>5
<1> QED BY <1>1, <1>2, <1>6

\* After a reply gdbserver goes on, or is gone with a child that has exited.
LEMMA AfterPutIs ==
  ASSUME NEW st \in Servers, NEW n \in AfterPut(st)
  PROVE  /\ n \in Servers /\ Kept(n, st)
         /\ \/ n.pc = "getpkt" /\ n.buf = st.buf
            \/ n.pc = "gone" /\ n.buf = <<>> /\ st.status = "W" /\ st.ext # TRUE
         /\ (n.pc = "getpkt" /\ n.ext # TRUE) => n.status = "T"
<1>0. st.ext \in BOOLEAN /\ st.status \in {"T", "W"} /\ <<>> \in Seq(Items) /\ NoReply \in Replies \cup {NoReply}
  BY DEF Servers
<1>1. CASE st.status = "T"
  <2>1. n = [st EXCEPT !.pc = "getpkt", !.reply = NoReply]
    BY <1>1 DEF AfterPut
  <2> QED BY <1>1, <2>1 DEF Servers, Kept
<1>2. CASE st.status # "T" /\ st.ext = TRUE
  <2>1. PICK t \in Threads : n = [StartChild(st, t) EXCEPT !.reply = NoReply]
    BY <1>2 DEF AfterPut
  <2> DEFINE m == StartChild(st, t)
  <2>2. m \in Servers /\ m.pc = "getpkt" /\ Same(m, st)
    BY <2>1, StartChildIs
  <2>3. n = [m EXCEPT !.reply = NoReply]
    BY <2>1
  <2> HIDE DEF m
  <2>4. n \in Servers /\ n.pc = "getpkt" /\ n.ext = m.ext /\ n.cont = m.cont /\ n.resumes = m.resumes /\ n.buf = m.buf
    BY <1>0, <2>2, <2>3 DEF Servers
  <2> QED BY <1>2, <2>2, <2>4 DEF Same, Kept
<1>3. CASE st.status # "T" /\ st.ext # TRUE
  <2>1. n = [st EXCEPT !.pc = "gone", !.reply = NoReply, !.buf = <<>>]
    BY <1>0, <1>3 DEF AfterPut
  <2>2. /\ n \in Servers /\ n.pc = "gone" /\ n.ext = st.ext /\ n.cont = st.cont /\ n.resumes = st.resumes
        /\ n.buf = <<>>
    BY <1>0, <2>1 DEF Servers
  <2> QED BY <1>0, <1>3, <2>2 DEF Kept
<1> QED BY <1>1, <1>2, <1>3

\* A character is taken from the line, and what was a packet is one no more.
LEMMA CutType ==
  ASSUME h2s \in Seq(Items), h2s # <<>>,
         h2s' = (IF Head(h2s).type = "packet" THEN <<Junk>> ELSE <<>>) \o Tail(h2s)
  PROVE  h2s' \in Seq(Items) /\ (Head(h2s).type # "packet" => h2s' = Tail(h2s))
<1>1. Tail(h2s) \in Seq(Items)
  OBVIOUS
<1>2. <<Junk>> \o Tail(h2s) \in Seq(Items)
  BY <1>1, WritesType, ConcatProperties
<1>3. <<>> \o Tail(h2s) = Tail(h2s)
  BY <1>1, ConcatEmptySeq
<1> QED BY <1>1, <1>2, <1>3

\* Both programs keep to their types in every world, and gdbserver reads no packet for a child that
\* has exited.
LEMMA ReadType ==
  ASSUME TypeInv, StatusOK, SRead
  PROVE  TypeInv' /\ StatusOK'
<1>1. CASE s' \in Servers /\ s'.pc = "getpkt" /\ Kept(s', s) /\ s'.status = s.status /\ h2s' \in Seq(Items) /\ s2h' = s2h
  <2>1. g' = g /\ world' = world /\ s.pc = "getpkt"
    BY Reading
  <2> QED BY <1>1, <2>1 DEF TypeInv, StatusOK, Kept
<1>2. ASSUME NEW st \in Servers, NEW p, st.pc = "getpkt", Kept(st, s), st.status = s.status,
             Leaves(s', st, p), h2s' \in Seq(Items),
             Says(IF s'.pc = "ack" THEN <<Plus, s'.reply>> ELSE <<Plus>>)
      PROVE  TypeInv' /\ StatusOK'
  <2>1. g' = g /\ world' = world /\ s.pc = "getpkt"
    BY Reading
  <2>2. s' \in Servers /\ (s'.pc = "ack" => s'.reply \in Replies) /\ (s'.ext # TRUE => s'.status = s.status)
        /\ s'.pc # "listen" /\ (s'.ext # TRUE => s.ext # TRUE)
    BY <1>2 DEF Leaves, Kept
  <2>3. (IF s'.pc = "ack" THEN <<Plus, s'.reply>> ELSE <<Plus>>) \in Seq(Answers)
    BY <2>2, OutType
  <2>4. s2h' \in Seq(Answers)
    BY <1>2, <2>3, SaysType
  <2>5. s.ext # TRUE => s.status = "T"
    BY <2>1 DEF StatusOK
  <2>6. StatusOK'
    BY <2>2, <2>5 DEF StatusOK
  <2> QED BY <1>2, <2>1, <2>2, <2>4, <2>6 DEF TypeInv
<1> QED BY <1>1, <1>2, Reading

LEMMA MywaitType ==
  ASSUME TypeInv, StatusOK, SMywait
  PROVE  TypeInv' /\ StatusOK'
<1>1. /\ s.pc = "mywait" /\ s' \in Servers /\ Same(s', s) /\ g' = g /\ h2s' = h2s /\ world' = world
      /\ \/ /\ s'.pc = "ack" /\ s'.reply \in Replies /\ s'.reply.to = "c"
            /\ s'.status = "W" => s'.reply.what = "exit"
         \/ s'.pc = "getpkt" /\ s'.status = s.status
      /\ Says(IF s'.pc = "ack" THEN <<s'.reply>> ELSE <<>>)
  BY Mywaiting
<1>2. (IF s'.pc = "ack" THEN <<s'.reply>> ELSE <<>>) \in Seq(Answers)
  BY <1>1, OutType
<1>3. s2h' \in Seq(Answers)
  BY <1>1, <1>2, SaysType
<1>4. StatusOK'
  BY <1>1 DEF StatusOK, Same
<1> QED BY <1>1, <1>3, <1>4 DEF TypeInv

LEMMA InputType ==
  ASSUME TypeInv, StatusOK, SInput
  PROVE  TypeInv' /\ StatusOK' /\ Same(s', s) /\ s'.pc = s.pc
<1>1. /\ s \in Servers /\ h2s \in Seq(Items)
      /\ g' = g /\ s2h' = s2h /\ world' = world /\ s.pc = "mywait"
  BY DEF SInput, TypeInv
<1>2. h2s' \in Seq(Items) /\ Len(h2s') \in Nat
  <2>1. s.missed < Len(h2s) /\ s.missed \in Nat
    BY <1>1 DEF SInput, Servers
  <2>2. h2s # <<>>
    BY <1>1, <2>1
  <2>3. h2s' \in Seq(Items)
    BY <1>1, <2>2, CutType DEF SInput
  <2> QED BY <2>3
<1> DEFINE b == s.sigint \/ Head(h2s) = Break
<1>5. PICK k \in s.missed..Len(h2s') : s' = [s EXCEPT !.sigint = b, !.missed = k]
  BY <1>1 DEF SInput, Servers
<1>3. b \in BOOLEAN /\ k \in Nat /\ s' = [s EXCEPT !.sigint = b, !.missed = k]
  BY <1>1, <1>2, <1>5 DEF Servers
<1> HIDE DEF b
<1>4. s' \in Servers /\ Same(s', s) /\ s'.pc = s.pc /\ s'.status = s.status
  BY <1>1, <1>3 DEF Servers, Same
<1> QED BY <1>1, <1>2, <1>4 DEF TypeInv, StatusOK, Same

LEMMA EnableType ==
  ASSUME TypeInv, StatusOK, SEnableIO
  PROVE  TypeInv' /\ StatusOK' /\ Same(s', s)
<1>1. /\ s \in Servers /\ h2s \in Seq(Items) /\ s.pc = "resumed"
      /\ g' = g /\ h2s' = h2s /\ s2h' = s2h /\ world' = world
  BY DEF SEnableIO, TypeInv
<1>2. PICK k \in 0..Len(h2s) : s' = [s EXCEPT !.pc = "mywait", !.missed = k]
  BY DEF SEnableIO
<1>3. k \in Nat
  BY <1>1
<1>4. s' \in Servers /\ Same(s', s) /\ s'.pc = "mywait" /\ s'.status = s.status
  BY <1>1, <1>2, <1>3 DEF Servers, Same
<1> QED BY <1>1, <1>4 DEF TypeInv, StatusOK, Same

LEMMA PutType ==
  ASSUME TypeInv, StatusOK, SAck
  PROVE  TypeInv' /\ StatusOK'
<1>0. s \in Servers /\ h2s \in Seq(Items) /\ s.pc = "ack" /\ g' = g /\ world' = world /\ s.reply \in Replies
  BY DEF TypeInv, SAck
<1>1. CASE s' \in AfterPut(s) /\ h2s' \in Seq(Items) /\ s2h' = s2h
  <2>1. s' \in Servers /\ Kept(s', s) /\ s'.pc \in {"getpkt", "gone"}
        /\ ((s'.pc = "getpkt" /\ s'.ext # TRUE) => s'.status = "T")
    BY <1>0, <1>1, AfterPutIs
  <2>2. StatusOK'
    BY <2>1 DEF StatusOK
  <2> QED BY <1>0, <1>1, <2>1, <2>2 DEF TypeInv
<1>2. CASE /\ h2s # <<>> /\ h2s' = (IF Head(h2s).type = "packet" THEN <<Junk>> ELSE <<>>) \o Tail(h2s)
           /\ Says(<<s.reply>>) /\ s' = s
  <2>1. h2s' \in Seq(Items)
    BY <1>0, <1>2, CutType
  <2>2. s2h' \in Seq(Answers)
    BY <1>0, <1>2, OutType, SaysType
  <2>3. StatusOK'
    BY <1>2 DEF StatusOK
  <2> QED BY <1>0, <1>2, <2>1, <2>2, <2>3 DEF TypeInv
<1>3. h2s # <<>> => Tail(h2s) \in Seq(Items)
  BY <1>0
<1> QED BY <1>0, <1>1, <1>2, <1>3, WritesType DEF SAck

LEMMA FreshType ==
  ASSUME NEW t \in Threads
  PROVE  /\ FreshServer(t) \in Servers /\ FreshServer(t).pc = "listen" /\ FreshServer(t).ext = FALSE
         /\ FreshServer(t).resumes = 0 /\ FreshServer(t).status = "T"
  BY WritesType DEF FreshServer, Servers

LEMMA EndType ==
  ASSUME TypeInv, StatusOK, SEof \/ SStart
  PROVE  TypeInv' /\ StatusOK'
<1>1. CASE SEof
  <2> DEFINE w == IF s.ext THEN "gone" ELSE "listen"
  <2>1. s' = [s EXCEPT !.pc = w, !.resumes = 0] /\ s \in Servers /\ s.pc = "getpkt"
    BY <1>1 DEF SEof, TypeInv
  <2>2. w \in {"gone", "listen"} /\ (w = "listen" => s.ext # TRUE)
    OBVIOUS
  <2> HIDE DEF w
  <2>3. s' \in Servers /\ s'.pc = w /\ s'.resumes = 0 /\ s'.ext = s.ext /\ s'.status = s.status
    BY <2>1, <2>2 DEF Servers
  <2>4. g' = g /\ h2s' = h2s /\ s2h' = s2h /\ world' = world
    BY <1>1 DEF SEof
  <2>5. StatusOK'
    BY <2>1, <2>2, <2>3 DEF StatusOK
  <2> QED BY <2>2, <2>3, <2>4, <2>5 DEF TypeInv
<1>2. CASE SStart
  <2>1. PICK t \in Threads : s' = FreshServer(t)
    BY <1>2 DEF SStart
  <2>2. s' \in Servers /\ s'.pc = "listen" /\ s'.ext = FALSE /\ s'.resumes = 0 /\ s'.status = "T"
    BY <2>1, FreshType
  <2>3. g' = g /\ h2s' = h2s /\ s2h' = s2h /\ world' = world
    BY <1>2 DEF SStart
  <2> QED BY <2>2, <2>3 DEF TypeInv, StatusOK
<1> QED BY <1>1, <1>2

\* The programs and the line in every world.
LEMMA TypeNext ==
  ASSUME TypeInv, StatusOK, Next
  PROVE  TypeInv' /\ StatusOK' /\ world'.kind = world.kind
<1>1. CASE GdbStep
  <2>1. TypeInv'
    BY <1>1, AckType, AckTimeoutType, GobbleType, ReplyType, ReplyTimeoutType, WaitType, EofType DEF GdbStep
  <2>2. s' = s /\ world' = world
    BY <1>1 DEF GdbStep, GdbAck, GdbAckTimeout, GdbGobble, GdbGobbleTimeout, GdbReply, GdbReplyTimeout,
                GdbWait, GdbEof, Becomes
  <2> QED BY <2>1, <2>2 DEF StatusOK
<1>2. CASE User
  <2>1. TypeInv' /\ Styles \subseteq {"plain", "extended"}
    BY <1>2, UserType, SessionAssumption
  <2>2. Acts
    BY <1>2 DEF User, Interrupt, Answer, Connect, Continue, Thread, Fetch, Kill, Run, Detach, Start
  <2>3. CASE s' = s
    BY <2>1, <2>2, <2>3, ActsType DEF StatusOK
  <2>4. CASE s' = [s EXCEPT !.pc = "getpkt", !.buf = <<>>] /\ s.pc = "listen"
    <3>1. s'.pc = "getpkt" /\ s'.ext = s.ext /\ s'.status = s.status
      BY <2>4 DEF TypeInv, Servers
    <3>2. StatusOK'
      BY <2>4, <3>1 DEF StatusOK
    <3> QED BY <2>1, <2>2, <3>2, ActsType
  <2> QED BY <1>2, <2>3, <2>4
          DEF User, Interrupt, Answer, Connect, Continue, Thread, Fetch, Kill, Run, Detach, Start
<1>3. CASE ServerStep
  <2>1. TypeInv' /\ StatusOK'
    BY <1>3, ReadType, EnableType, MywaitType, InputType, PutType, EndType DEF ServerStep
  <2>2. world' = world
    BY <1>3 DEF ServerStep, SRead, SEnableIO, SMywait, SInput, SAck, SEof, SStart
  <2> QED BY <2>1, <2>2
<1> QED BY <1>1, <1>2, <1>3 DEF Next

-----------------------------------------------------------------------------
(* A calm world: what is on the line.                                      *)

LEMMA QuietConcat ==
  ASSUME NEW a \in Seq(Items), NEW b \in Seq(Items), Quiet(a), Quiet(b)
  PROVE  Quiet(a \o b)
<1> SUFFICES ASSUME NEW i \in 1..Len(a \o b) PROVE (a \o b)[i].type # "packet"
  BY DEF Quiet
<1>1. Len(a) \in Nat /\ Len(b) \in Nat /\ Len(a \o b) = Len(a) + Len(b)
  BY ConcatProperties
<1>2. (a \o b)[i] = IF i <= Len(a) THEN a[i] ELSE b[i - Len(a)]
  BY <1>1, ConcatProperties
<1>3. i <= Len(a) => i \in 1..Len(a)
  BY <1>1
<1>4. ~(i <= Len(a)) => i - Len(a) \in 1..Len(b)
  BY <1>1
<1> QED BY <1>2, <1>3, <1>4 DEF Quiet

LEMMA QuietTail ==
  ASSUME NEW l \in Seq(Items), l # <<>>, Quiet(l)
  PROVE  l[1].type # "packet" /\ Quiet(Tail(l))
<1>1. Len(l) \in Nat /\ Len(l) > 0 /\ Len(Tail(l)) = Len(l) - 1
  OBVIOUS
<1>2. \A i \in 1..Len(Tail(l)) : Tail(l)[i] = l[i + 1] /\ i + 1 \in 1..Len(l)
  BY <1>1
<1>3. 1 \in 1..Len(l)
  BY <1>1
<1> QED BY <1>2, <1>3 DEF Quiet

LEMMA EndsTail ==
  ASSUME NEW l \in Seq(Items), NEW p \in Cmds, EndsIn(l, p)
  PROVE  /\ l # <<>>
         /\ l[1].type # "packet" => EndsIn(Tail(l), p)
         /\ l[1].type = "packet" => l[1] = p /\ Tail(l) = <<>>
<1>0. Len(l) \in Nat /\ Len(l) > 0 /\ l # <<>> /\ l[Len(l)] = p
  BY DEF EndsIn
<1> DEFINE x == Tail(l)
<1>1. x \in Seq(Items) /\ Len(x) = Len(l) - 1 /\ \A i \in 1..(Len(l) - 1) : x[i] = l[i + 1]
  BY <1>0
<1> HIDE DEF x
<1>2. p.type = "packet"
  BY CmdFields
<1>3. ASSUME l[1].type # "packet" PROVE EndsIn(x, p)
  <2>1. Len(l) # 1
    BY <1>0, <1>2, <1>3
  <2>2. Len(x) > 0 /\ Len(x) \in 1..(Len(l) - 1) /\ Len(x) + 1 = Len(l)
    BY <1>0, <1>1, <2>1
  <2>3. x[Len(x)] = p
    BY <1>0, <1>1, <2>2
  <2>4. \A i \in 1..(Len(x) - 1) : i \in 1..(Len(l) - 1) /\ i + 1 \in 1..(Len(l) - 1)
    BY <1>0, <1>1
  <2>5. \A i \in 1..(Len(x) - 1) : x[i].type # "packet"
    BY <1>1, <2>4 DEF EndsIn
  <2> QED BY <2>2, <2>3, <2>5 DEF EndsIn
<1>4. ASSUME l[1].type = "packet" PROVE l[1] = p /\ x = <<>>
  <2>1. Len(l) = 1
    <3>0. \A k \in Nat : (k > 0 /\ k # 1) => 1 \in 1..(k - 1)
      OBVIOUS
    <3>1. Len(l) # 1 => 1 \in 1..(Len(l) - 1)
      BY <1>0, <3>0
    <3> QED BY <1>4, <3>1 DEF EndsIn
  <2> QED BY <1>0, <1>1, <2>1
<1> QED BY <1>0, <1>3, <1>4 DEF x

LEMMA EndsConcat ==
  ASSUME NEW q \in Seq(Items), NEW p \in Cmds, Quiet(q)
  PROVE  EndsIn(q \o <<p>>, p)
<1>1. <<p>> \in Seq(Items) /\ Len(<<p>>) = 1 /\ <<p>>[1] = p
  BY DEF Items
<1> DEFINE w == q \o <<p>>
<1>2. Len(w) = Len(q) + 1 /\ Len(q) \in Nat /\ \A i \in 1..(Len(q) + 1) : w[i] = IF i <= Len(q) THEN q[i] ELSE <<p>>[i - Len(q)]
  BY <1>1, ConcatProperties
<1> HIDE DEF w
<1>3. Len(w) > 0 /\ Len(w) \in 1..(Len(q) + 1) /\ ~(Len(w) <= Len(q)) /\ Len(w) - Len(q) = 1
  BY <1>2
<1>4. w[Len(w)] = p
  BY <1>1, <1>2, <1>3
<1>5. \A i \in 1..(Len(w) - 1) : i \in 1..Len(q) /\ i \in 1..(Len(q) + 1) /\ i <= Len(q)
  BY <1>2
<1>6. \A i \in 1..(Len(w) - 1) : w[i].type # "packet"
  BY <1>2, <1>5 DEF Quiet
<1> QED BY <1>3, <1>4, <1>6 DEF EndsIn, w

LEMMA QuietChars ==
  Quiet(<<>>) /\ Quiet(<<Plus>>) /\ Quiet(<<Minus>>) /\ Quiet(<<Minus, Plus>>) /\ Quiet(<<Break>>)
  BY CharTypes DEF Quiet

\* Sequences of one and two.
LEMMA Pair ==
  ASSUME NEW S, NEW a \in S, NEW b \in S
  PROVE  <<a>> \o <<b>> = <<a, b>> /\ Tail(<<a, b>>) = <<b>> /\ Tail(<<a>>) = <<>> /\ Head(<<a>>) = a
         /\ Head(<<a, b>>) = a /\ <<a>> # <<>> /\ <<a, b>> # <<>>
<1> DEFINE x == <<a>> \o <<b>>
           y == <<a, b>>
           z == Tail(<<a, b>>)
           w == <<b>>
<1>1. <<a>> \in Seq(S) /\ w \in Seq(S) /\ y \in Seq(S) /\ Len(y) = 2 /\ y[1] = a /\ y[2] = b /\ Len(<<a>>) = 1
      /\ Len(w) = 1 /\ <<a>>[1] = a /\ w[1] = b
  OBVIOUS
<1>2. x \in Seq(S) /\ Len(x) = 2 /\ x[1] = a /\ x[2] = b
  <2>1. x \in Seq(S) /\ Len(x) = 1 + 1 /\ \A i \in 1..(1 + 1) : x[i] = IF i <= 1 THEN <<a>>[i] ELSE w[i - 1]
    BY <1>1, ConcatProperties
  <2>2. 1 \in 1..(1 + 1) /\ 2 \in 1..(1 + 1) /\ 1 <= 1 /\ ~(2 <= 1) /\ 2 - 1 = 1 /\ 1 + 1 = 2
    OBVIOUS
  <2> QED BY <1>1, <2>1, <2>2
<1>3. z \in Seq(S) /\ Len(z) = 1 /\ z[1] = b
  BY <1>1
<1> HIDE DEF x, y, z, w
<1>4. x = y
  <2>1. \A i \in 1..Len(x) : x[i] = y[i]
    BY <1>1, <1>2
  <2> QED BY <1>1, <1>2, <2>1, SeqEqual
<1>5. z = w
  <2>1. \A i \in 1..Len(z) : z[i] = w[i]
    BY <1>1, <1>3
  <2> QED BY <1>1, <1>3, <2>1, SeqEqual
<1>6. Tail(<<a>>) = <<>> /\ Head(<<a>>) = a /\ Head(<<a, b>>) = a /\ <<a>> # <<>> /\ <<a, b>> # <<>>
  OBVIOUS
<1> QED BY <1>4, <1>5, <1>6 DEF x, y, z, w

\* A list of packets from its first one on.
LEMMA Unfold ==
  ASSUME NEW q \in Seq(Cmds), q # <<>>
  PROVE  <<Head(q)>> \o Tail(q) = q /\ Head(q) \in Cmds /\ Tail(q) \in Seq(Cmds)
<1> DEFINE h == Head(q)
           r == Tail(q)
           x == <<h>> \o r
<1>1. /\ h \in Cmds /\ r \in Seq(Cmds) /\ Len(q) \in Nat /\ Len(q) > 0 /\ Len(r) = Len(q) - 1 /\ q[1] = h
      /\ \A i \in 1..(Len(q) - 1) : r[i] = q[i + 1]
  OBVIOUS
<1> HIDE DEF h, r
<1>2. <<h>> \in Seq(Cmds) /\ Len(<<h>>) = 1 /\ <<h>>[1] = h
  BY <1>1
<1>3. x \in Seq(Cmds) /\ Len(x) = 1 + Len(r) /\ \A i \in 1..(1 + Len(r)) : x[i] = IF i <= 1 THEN <<h>>[i] ELSE r[i - 1]
  BY <1>1, <1>2, ConcatProperties
<1> HIDE DEF x
<1>4. Len(x) = Len(q)
  BY <1>1, <1>3
<1>5. \A i \in 1..Len(x) : x[i] = q[i]
  <2> TAKE i \in 1..Len(x)
  <2>1. i \in 1..(1 + Len(r))
    BY <1>3
  <2>2. i <= 1 => i = 1 /\ x[i] = q[1]
    BY <1>1, <1>2, <1>3, <2>1
  <2>3. ~(i <= 1) => i - 1 \in 1..(Len(q) - 1) /\ (i - 1) + 1 = i
    BY <1>1, <1>4
  <2>4. ~(i <= 1) => x[i] = q[i]
    BY <1>1, <1>3, <2>1, <2>3
  <2> QED BY <2>2, <2>4
<1>6. x = q
  BY <1>3, <1>4, <1>5, SeqEqual
<1> QED BY <1>1, <1>6 DEF x, h, r

\* What the packets after the first one suit.
LEMMA SuitsRest ==
  ASSUME NEW p \in Cmds, NEW q \in Seq(Cmds), NEW style \in {"plain", "extended"}, NEW mode \in {"plain", "extended"},
         NEW done \in Nat, NEW all \in Nat,
         Suits(<<p>> \o q, style, mode), Counted(<<p>> \o q, done, all)
  PROVE  /\ p.cmd \in {"c", "!"} => q = <<>>
         /\ p.cmd = "!" => style = "extended"
         /\ p.then = "none" => mode = "extended"
         /\ p.then = "close" => style = "plain"
         /\ style = "plain" => mode = "plain"
         /\ Suits(q, style, IF p.cmd = "!" THEN "extended" ELSE mode)
         /\ Counted(q, IF p.cmd = "c" THEN done + 1 ELSE done, all)
<1> DEFINE w == <<p>> \o q
<1>1. <<p>> \in Seq(Cmds) /\ Len(<<p>>) = 1 /\ <<p>>[1] = p
  OBVIOUS
<1>2. /\ w \in Seq(Cmds) /\ Len(w) = 1 + Len(q) /\ Len(q) \in Nat
      /\ \A i \in 1..(1 + Len(q)) : w[i] = IF i <= 1 THEN <<p>>[i] ELSE q[i - 1]
  BY <1>1, ConcatProperties
<1>3. Suits(w, style, mode) /\ Counted(w, done, all)
  OBVIOUS
<1> HIDE DEF w
<1>4. w[1] = p /\ 1 \in 1..Len(w)
  BY <1>1, <1>2
<1>5. \A i \in 1..Len(q) : w[i + 1] = q[i] /\ i + 1 \in 1..Len(w) /\ (i + 1 = Len(w) <=> i = Len(q))
  <2> TAKE i \in 1..Len(q)
  <2>1. i + 1 \in 1..(1 + Len(q)) /\ ~(i + 1 <= 1) /\ (i + 1) - 1 = i
    BY <1>2
  <2> QED BY <1>2, <2>1
<1>6. /\ p.cmd \in {"c", "!"} => q = <<>>
      /\ p.cmd = "!" => style = "extended"
      /\ p.then = "none" => mode = "extended"
      /\ p.then = "close" => style = "plain"
      /\ style = "plain" => mode = "plain"
  <2>1. p.cmd \in {"c", "!"} => Len(q) = 0
    BY <1>2, <1>3, <1>4 DEF Suits
  <2>2. p.cmd \in {"c", "!"} => q = <<>>
    BY <2>1
  <2>3. (p.cmd = "!" => style = "extended") /\ (p.then = "close" => style = "plain")
    BY <1>3, <1>4 DEF Suits
  <2>4. (p.then = "none" => mode = "extended") /\ (style = "plain" => mode = "plain")
    BY <1>3, <1>4 DEF Suits
  <2> QED BY <2>2, <2>3, <2>4
<1>7. ASSUME NEW c PROVE EndsWith(w, c) <=> (IF q = <<>> THEN p.cmd = c ELSE EndsWith(q, c))
  <2>1. CASE q = <<>>
    <3>1. Len(w) = 1
      BY <1>2, <2>1
    <3> QED BY <1>4, <2>1, <3>1 DEF EndsWith
  <2>2. CASE q # <<>>
    <3>1. Len(q) > 0 /\ Len(q) \in 1..Len(q) /\ Len(q) + 1 = Len(w) /\ Len(w) > 0
      BY <1>2, <2>2
    <3>2. w[Len(w)] = q[Len(q)]
      BY <1>5, <3>1
    <3> QED BY <2>2, <3>1, <3>2 DEF EndsWith
  <2> QED BY <2>1, <2>2
<1>8. ~EndsWith(<<>>, "c") /\ ~EndsWith(<<>>, "!")
  BY DEF EndsWith
<1> DEFINE e == IF p.cmd = "!" THEN "extended" ELSE mode
<1>9. (mode = "extended" => e = "extended") /\ (p.cmd # "!" => e = mode) /\ (p.cmd = "!" => e = "extended") /\ e \in {"plain", "extended"}
  OBVIOUS
<1> HIDE DEF e
<1>10. Suits(q, style, e)
  <2>1. \A i \in 1..Len(q) :
       /\ q[i].cmd \in {"c", "!"} => i = Len(q)
       /\ q[i].cmd = "!" => style = "extended"
       /\ q[i].then = "none" => e = "extended"
       /\ q[i].then = "close" => style = "plain"
    BY <1>3, <1>5, <1>9 DEF Suits
  <2>2. style = "plain" => e = "plain"
    BY <1>6, <1>9
  <2>3. (style = "extended" /\ e = "plain") => EndsWith(q, "!")
    <3>1. (style = "extended" /\ e = "plain") => EndsWith(w, "!") /\ p.cmd # "!"
      BY <1>3, <1>9 DEF Suits
    <3> QED BY <1>7, <3>1
  <2> QED BY <2>1, <2>2, <2>3 DEF Suits
<1>11. Counted(q, IF p.cmd = "c" THEN done + 1 ELSE done, all)
  <2>1. done + (IF EndsWith(w, "c") THEN 1 ELSE 0) = all
    BY <1>3 DEF Counted
  <2>2. CASE p.cmd = "c"
    <3>1. q = <<>> /\ EndsWith(w, "c") /\ ~EndsWith(q, "c")
      BY <1>6, <1>7, <1>8, <2>2
    <3> QED BY <2>1, <2>2, <3>1 DEF Counted
  <2>3. CASE p.cmd # "c"
    <3>1. EndsWith(w, "c") <=> EndsWith(q, "c")
      BY <1>7, <1>8, <2>3
    <3> QED BY <2>1, <2>3, <3>1 DEF Counted
  <2> QED BY <2>2, <2>3
<1> QED BY <1>6, <1>10, <1>11 DEF e

-----------------------------------------------------------------------------
(* A calm world: GDB.                                                      *)

LEMMA GoIs ==
  ASSUME NEW st \in Gdbs
  PROVE  /\ Go(st).g.style = st.style /\ Go(st).g.cont = st.cont /\ Go(st).g.crossed = st.crossed
         /\ Go(st).g.resumes = st.resumes
         /\ st.todo = <<>> => /\ Go(st).out = <<>> /\ Go(st).g.pc = "prompt" /\ Go(st).g.todo = <<>>
                              /\ Go(st).g.cur = NoCmd
         /\ st.todo # <<>> => /\ Go(st).out = <<Head(st.todo)>> /\ Go(st).g.pc = "ack"
                              /\ Go(st).g.todo = Tail(st.todo) /\ Go(st).g.cur = Head(st.todo)
<1>1. CASE st.todo = <<>>
  <2> DEFINE n == [st EXCEPT !.pc = "prompt", !.cur = NoCmd, !.tcount = 0, !.tries = 0]
  <2>1. /\ n.style = st.style /\ n.cont = st.cont /\ n.crossed = st.crossed /\ n.resumes = st.resumes
        /\ n.pc = "prompt" /\ n.todo = st.todo /\ n.cur = NoCmd
    BY DEF Gdbs
  <2>2. Go(st).g = n /\ Go(st).out = <<>>
    BY <1>1 DEF Go
  <2> HIDE DEF n
  <2> QED BY <1>1, <2>1, <2>2
<1>2. CASE st.todo # <<>>
  <2> DEFINE p == Head(st.todo)
             q == Tail(st.todo)
             n == [st EXCEPT !.pc = "ack", !.cur = p, !.todo = q, !.tcount = 0, !.tries = 0]
  <2>1. /\ n.style = st.style /\ n.cont = st.cont /\ n.crossed = st.crossed /\ n.resumes = st.resumes
        /\ n.pc = "ack" /\ n.todo = q /\ n.cur = p
    BY DEF Gdbs
  <2>2. Go(st).g = n /\ Go(st).out = <<p>>
    BY <1>2 DEF Go
  <2> HIDE DEF n
  <2> QED BY <1>2, <2>1, <2>2
<1> QED BY <1>1, <1>2

\* GDB goes on to its next packet, or to its prompt, when gdbserver reads and has nothing else to
\* read, or waits for the '+' that GDB has just written.
LEMMA Proceeds ==
  ASSUME TypeInv', NEW st \in Gdbs, st.crossed = FALSE, g' = Go(st).g, s2h' = <<>>,
         \/ s'.pc = "getpkt" /\ \E q \in Seq(Items) : Quiet(q) /\ Line' = q \o Go(st).out
         \/ Resumable' /\ h2s' = <<Plus>> \o Go(st).out,
         Suits(st.todo, st.style, Mode(s')), Counted(st.todo, s'.resumes, st.resumes),
         Agreed(st.cont, s'.cont) \/ (st.todo # <<>> /\ Head(st.todo).cmd = "Hc")
  PROVE  Session' /\ g'.pc # "closed"
<1>0. /\ g'.style = st.style /\ g'.cont = st.cont /\ g'.crossed = FALSE /\ g'.resumes = st.resumes
      /\ st.todo \in Seq(Cmds) /\ ~Answered'
  <2>1. s2h' = <<>> => ~Answered'
    <3>1. \A x, y : <<x>> # <<>> /\ <<x, y>> # <<>>
      OBVIOUS
    <3> QED BY <3>1 DEF Answered
  <2> QED BY <2>1, GoIs DEF Gdbs
<1>1. CASE st.todo = <<>>
  <2>1. Go(st).out = <<>> /\ g'.pc = "prompt" /\ g'.todo = <<>> /\ g'.cur = NoCmd
    BY <1>1, GoIs
  <2>2. (s'.pc = "getpkt" /\ Quiet(Line')) \/ (Resumable' /\ h2s' = <<Plus>>)
    BY <2>1, WritesType, ConcatEmptySeq
  <2>3. AtPrompt'
    BY <2>1, <2>2 DEF AtPrompt
  <2>4. Ahead' = st.todo
    BY <1>1, <2>1 DEF Ahead, OnItsWay
  <2>5. NoCmd.cmd = "none"
    BY CmdIs DEF NoCmd
  <2>6. ContOK'
    BY <1>0, <1>1, <2>1, <2>5 DEF ContOK
  <2> QED BY <1>0, <2>1, <2>3, <2>4, <2>5, <2>6 DEF Session
<1>2. CASE st.todo # <<>>
  <2> DEFINE p == Head(st.todo)
             r == Tail(st.todo)
  <2>1. Go(st).out = <<p>> /\ g'.pc = "ack" /\ g'.todo = r /\ g'.cur = p
    BY <1>2, GoIs
  <2>2. p \in Cmds /\ r \in Seq(Cmds) /\ <<p>> \o r = st.todo /\ p \in Items
    BY <1>0, <1>2, Unfold DEF Items
  <2> HIDE DEF p, r
  <2>3. <<Plus>> \o <<p>> = <<Plus, p>>
    BY <2>2, CharTypes, Pair
  <2>4. (s'.pc = "getpkt" /\ EndsIn(Line', p)) \/ (Resumable' /\ h2s' = <<Plus, p>>)
    BY <2>1, <2>2, <2>3, EndsConcat
  <2>5. OnItsWay'
    BY <2>1, <2>4 DEF OnItsWay
  <2>6. Ahead' = st.todo
    BY <2>1, <2>2, <2>5 DEF Ahead
  <2>7. p.cmd = "c" => r = <<>>
    <3> DEFINE e == Mode(s')
               d == s'.resumes
    <3>1. e \in {"plain", "extended"} /\ d \in Nat /\ st.resumes \in Nat /\ st.style \in {"plain", "extended"}
      BY SessionAssumption DEF TypeInv, Servers, Gdbs, Mode
    <3>2. Suits(<<p>> \o r, st.style, e) /\ Counted(<<p>> \o r, d, st.resumes)
      BY <2>2
    <3> HIDE DEF e, d
    <3> QED BY ONLY <2>2, <3>1, <3>2, SuitsRest
  <2>8. ContOK'
    BY <1>0, <1>2, <2>1 DEF ContOK, p
  <2> QED BY <1>0, <2>1, <2>5, <2>6, <2>7, <2>8 DEF Session
<1> QED BY <1>1, <1>2

\* n is st but for where GDB is and what it knows of threads.
Alike(n, st) ==
  /\ n.todo = st.todo /\ n.cur = st.cur /\ n.style = st.style /\ n.cont = st.cont
  /\ n.resumes = st.resumes /\ n.crossed = st.crossed

\* A step in which GDB stays with its packet, which gdbserver has carried out.
LEMMA Stays ==
  ASSUME Session, g.pc # "ack" \/ s2h # <<>>, g'.pc # "ack" \/ s2h' # <<>>,
         AtPrompt' \/ Answered' \/ Obeyed' \/ Unanswered' \/ Running',
         Alike(g', g), Kept(s', s),
         Answered' => Answered \/ g.cur.cmd # "Hc"
  PROVE  Session'
<1>1. Ahead = g.todo /\ Ahead' = g.todo
  BY DEF Ahead, OnItsWay, Alike
<1>2. Suits(Ahead', g'.style, Mode(s')) /\ Counted(Ahead', s'.resumes, g'.resumes)
  BY <1>1 DEF Session, Alike, Kept, Mode
<1>3. ContOK'
  BY DEF Session, ContOK, Alike, Kept
<1> QED BY <1>1, <1>2, <1>3 DEF Session, Alike

\* What gdbserver has still to read when GDB writes.
LEMMA LineGrows ==
  ASSUME TypeInv, NEW out \in Seq(Items), s' = s, h2s' = h2s \o out
  PROVE  Line \in Seq(Items) /\ Line' = Line \o out
<1>1. s.buf \in Seq(Items) /\ h2s \in Seq(Items)
  BY DEF TypeInv, Servers
<1>2. s.buf \o h2s \in Seq(Items)
  BY <1>1, ConcatProperties
<1>3. \A a, b, c \in Seq(Items) : (a \o b) \o c = a \o (b \o c)
  BY ConcatAssociative
<1> QED BY <1>1, <1>2, <1>3 DEF Line

LEMMA SentIs ==
  ASSUME NEW st \in Gdbs, st.cur \in Cmds
  PROVE  /\ st.cur.then \in {"reply", "wait"} =>
              Sent(st).out = <<>> /\ Sent(st).g.pc = st.cur.then /\ Alike(Sent(st).g, st)
         /\ st.cur.then = "close" => Sent(st).out = <<>> /\ Sent(st).g = Closed
         /\ st.cur.then = "none" => Sent(st) = Go(st)
<1>1. CASE st.cur.then = "reply"
  <2> DEFINE n == [st EXCEPT !.pc = "reply", !.tcount = 0, !.tries = 0]
  <2>1. n.pc = "reply" /\ Alike(n, st)
    BY DEF Gdbs, Alike
  <2>2. Sent(st).g = n /\ Sent(st).out = <<>>
    BY <1>1 DEF Sent
  <2> HIDE DEF n
  <2> QED BY <1>1, <2>1, <2>2
<1>2. CASE st.cur.then = "wait"
  <2> DEFINE n == [st EXCEPT !.pc = "wait", !.tcount = 0, !.tries = 0, !.interrupted = FALSE]
  <2>1. n.pc = "wait" /\ Alike(n, st)
    BY DEF Gdbs, Alike
  <2>2. Sent(st).g = n /\ Sent(st).out = <<>>
    BY <1>2 DEF Sent
  <2> HIDE DEF n
  <2> QED BY <1>2, <2>1, <2>2
<1>3. CASE st.cur.then = "close"
  BY <1>3 DEF Sent
<1>4. CASE st.cur.then = "none"
  BY <1>4 DEF Sent
<1> QED BY <1>1, <1>2, <1>3, <1>4, CmdFields

\* GDB takes the '+' of its packet.
LEMMA CalmAck ==
  ASSUME TypeInv, TypeInv', Session, GdbAck
  PROVE  CalmInv'
<1> DEFINE o == Sent(g)
<1>0. /\ g \in Gdbs /\ g.cur \in Cmds /\ g.pc = "ack" /\ s2h # <<>> /\ GoodCmd(g.cur)
      /\ g.cur.then \in {"reply", "wait", "none", "close"}
  BY CmdFields DEF GdbAck, TypeInv
<1>1. Answered \/ Obeyed
  BY <1>0 DEF Session, AtPrompt, OnItsWay, Unanswered, Running
<1>2. /\ Answered => s2h = <<Plus, s.reply>> /\ s.pc = "ack" /\ AllRead /\ s.reply \in Answers
      /\ Obeyed => s2h = <<Plus>> /\ AllRead
  BY <1>0 DEF Answered, Obeyed, TypeInv, Answers
<1>3. Head(s2h) = Plus
  BY <1>1, <1>2
<1>4. Becomes(o)
  BY <1>3 DEF GdbAck
<1>5. /\ g' = o.g /\ s' = s /\ h2s = <<>> /\ s.buf = <<>> /\ Kept(s', s)
      /\ s2h' = IF o.g.pc = "closed" THEN <<>> ELSE Tail(s2h)
  BY <1>0, <1>1, <1>2, <1>4 DEF Becomes, AllRead, Kept
<1>6. s.pc # "gone" => h2s' = o.out
  <2>1. Outcome(o)
    BY <1>0, SentType
  <2>2. <<>> \o o.out = o.out
    BY <2>1, ConcatEmptySeq DEF Outcome
  <2> QED BY <1>4, <1>5, <2>2 DEF Becomes, Onto
<1>7. CASE Answered
  <2>1. IsAnswer(s.reply, g.cur) /\ g.cur.then \in {"reply", "wait"}
    BY <1>7 DEF Answered, IsAnswer
  <2>2. o.out = <<>> /\ o.g.pc = g.cur.then /\ Alike(o.g, g)
    BY <1>0, <2>1, SentIs
  <2>3. s2h' = <<s.reply>>
    <3>1. Plus \in Answers
      BY CharTypes
    <3> QED BY <1>2, <1>5, <1>7, <2>1, <2>2, <3>1, Pair
  <2>4. AllRead' /\ s'.pc = "ack"
    BY <1>2, <1>5, <1>6, <1>7, <2>2 DEF AllRead
  <2>5. Answered'
    BY <1>5, <2>1, <2>2, <2>3, <2>4 DEF Answered, Alike
  <2>6. Session'
    BY <1>0, <1>5, <1>7, <2>1, <2>2, <2>5, Stays
  <2> QED BY <1>5, <2>1, <2>2, <2>6 DEF CalmInv
<1>8. CASE Obeyed
  <2>0. Plus \in Answers /\ Tail(<<Plus>>) = <<>>
    BY CharTypes, Pair
  <2>1. s2h' = <<>>
    BY <1>2, <1>5, <1>8, <2>0
  <2>2. CASE g.cur.cmd \in {"Hg", "c"} /\ s.pc \in {"getpkt", "resumed", "mywait"}
                 /\ (s.pc # "getpkt" => g.cur.cmd = "c")
    <3>1. g.cur.then = IF g.cur.cmd = "Hg" THEN "reply" ELSE "wait"
      BY <1>0, <2>2 DEF GoodCmd
    <3>2. o.out = <<>> /\ o.g.pc = g.cur.then /\ Alike(o.g, g)
      BY <1>0, <3>1, SentIs
    <3>3. Line' = <<>>
      BY <1>5, <1>6, <2>2, <3>2 DEF Line
    <3>4. Quiet(Line')
      BY <3>3, QuietChars
    <3>5. Unanswered' \/ Running'
      BY <1>5, <2>1, <2>2, <3>1, <3>2, <3>4 DEF Unanswered, Running, Alike
    <3>6. ~Answered'
      <4>1. \A x, y : <<x>> # <<>> /\ <<x, y>> # <<>>
        OBVIOUS
      <4> QED BY <2>1, <4>1 DEF Answered
    <3>7. Session'
      BY <1>0, <1>5, <3>1, <3>2, <3>5, <3>6, Stays
    <3> QED BY <1>5, <3>1, <3>2, <3>7 DEF CalmInv
  <2>3. CASE g.cur.then = "none" /\ s.pc = "getpkt"
    <3>1. o = Go(g)
      BY <1>0, <2>3, SentIs
    <3>2. Line' = <<>> \o Go(g).out
      BY <1>5, <1>6, <2>3, <3>1 DEF Line
    <3>3. Quiet(<<>>) /\ <<>> \in Seq(Items)
      BY QuietChars
    <3>4. Ahead = g.todo /\ g.crossed = FALSE
      BY <1>0 DEF Ahead, OnItsWay, Session
    <3>5. Agreed(g.cont, s.cont)
      BY <1>0, <2>3 DEF Session, ContOK, GoodCmd
    <3>6. Suits(g.todo, g.style, Mode(s)) /\ Counted(g.todo, s.resumes, g.resumes)
      BY <3>4 DEF Session
    <3>7. s'.pc = "getpkt" /\ \E q \in Seq(Items) : Quiet(q) /\ Line' = q \o Go(g).out
      BY <1>5, <2>3, <3>2, <3>3
    <3>8. Session' /\ g'.pc # "closed"
      BY <1>0, <1>5, <2>1, <3>1, <3>4, <3>5, <3>6, <3>7, Proceeds
    <3> QED BY <3>8 DEF CalmInv
  <2>4. CASE g.cur.then = "close"
    <3>1. g' = Closed
      BY <1>0, <1>5, <2>4, SentIs
    <3> QED BY <2>1, <3>1, ClosedType DEF CalmInv
  <2> QED BY <1>8, <2>2, <2>3, <2>4 DEF Obeyed
<1> QED BY <1>1, <1>7, <1>8

\* A '+' and then an outcome.
LEMMA AckedIs ==
  ASSUME NEW o, Outcome(o), NEW q \in Seq(Items)
  PROVE  [o EXCEPT !.out = q \o @].g = o.g /\ [o EXCEPT !.out = q \o @].out = q \o o.out
<1>1. \A a, b, c : [[g |-> a, out |-> b] EXCEPT !.out = c] = [g |-> a, out |-> c]
  OBVIOUS
<1>2. o = [g |-> o.g, out |-> o.out]
  BY DEF Outcome
<1>3. [[g |-> o.g, out |-> o.out] EXCEPT !.out = q \o o.out] = [g |-> o.g, out |-> q \o o.out]
  BY <1>1
<1> DEFINE x == [o EXCEPT !.out = q \o @]
<1>4. x = [g |-> o.g, out |-> q \o o.out]
  BY <1>2, <1>3
<1> HIDE DEF x
<1>5. x.g = o.g /\ x.out = q \o o.out
  BY <1>4
<1> QED BY <1>5 DEF x

LEMMA TakeReplyIs ==
  ASSUME NEW st \in Gdbs, st.cur \in Cmds, NEW what
  PROVE  LET m == TakeReply(st, what) IN
         /\ m.todo = st.todo /\ m.style = st.style /\ m.resumes = st.resumes /\ m.crossed = st.crossed
         /\ m.cont = IF st.cur.cmd = "Hc" THEN st.cur.arg ELSE st.cont
<1> DEFINE m == TakeReply(st, what)
           a == st.cur.arg
<1>1. \/ m = st /\ st.cur.cmd # "Hc"
      \/ m = [st EXCEPT !.general = a] /\ st.cur.cmd # "Hc"
      \/ m = [st EXCEPT !.cont = a] /\ st.cur.cmd = "Hc"
      \/ m = [st EXCEPT !.inferior = a] /\ st.cur.cmd # "Hc"
  BY DEF TakeReply
<1> HIDE DEF m
<1>2. /\ m.todo = st.todo /\ m.style = st.style /\ m.resumes = st.resumes /\ m.crossed = st.crossed
      /\ m.cont = IF st.cur.cmd = "Hc" THEN a ELSE st.cont
  BY <1>1 DEF Gdbs
<1> QED BY <1>2 DEF m

\* GDB has taken the answer, written its '+', and goes on.
LEMMA Acknowledges ==
  ASSUME TypeInv, TypeInv', Session, Answered, NEW st \in Gdbs, st.crossed = FALSE,
         g.pc \in {"reply", "wait"}, Becomes(Acked(Go(st))),
         st.todo = g.todo, st.style = g.style, st.resumes = g.resumes, Agreed(st.cont, s.cont),
         s.status = "T" \/ s.ext = TRUE
  PROVE  CalmInv'
<1> DEFINE o == Go(st)
<1>1. Outcome(o)
  BY GoType
<1>2. Acked(o).g = o.g /\ Acked(o).out = <<Plus>> \o o.out
  BY <1>1, WritesType, AckedIs DEF Acked
<1>3. s.pc = "ack" /\ AllRead /\ s2h = <<s.reply>> /\ s.reply \in Answers
  BY DEF Answered, TypeInv, Answers
<1>4. g' = o.g /\ s' = s /\ s2h' = <<>>
  <2>1. Tail(<<s.reply>>) = <<>>
    BY <1>3, Pair
  <2> QED BY <1>2, <1>3, <2>1 DEF Becomes
<1>5. h2s' = <<Plus>> \o o.out
  <2>1. <<Plus>> \o o.out \in Seq(Items)
    BY <1>1, WritesType, ConcatProperties DEF Outcome
  <2>2. <<>> \o (<<Plus>> \o o.out) = <<Plus>> \o o.out
    BY <2>1, ConcatEmptySeq
  <2> QED BY <1>2, <1>3, <2>2 DEF Becomes, Onto, AllRead
<1>6. Resumable'
  BY <1>3, <1>4 DEF Resumable, AllRead
<1>7. Ahead = g.todo
  BY DEF Ahead, OnItsWay
<1>8. Suits(st.todo, st.style, Mode(s')) /\ Counted(st.todo, s'.resumes, st.resumes)
  BY <1>4, <1>7 DEF Session
<1>9. Session' /\ g'.pc # "closed"
  BY <1>4, <1>5, <1>6, <1>8, Proceeds
<1> QED BY <1>9 DEF CalmInv

\* The answer is that of the packet: nothing is crossed.
LEMMA Uncrossed ==
  ASSUME TypeInv, Session, Answered, g.pc \in {"reply", "wait"}
  PROVE  /\ Head(s2h) = s.reply /\ s.reply \in Replies /\ s.reply # Plus /\ g.cur \in Cmds /\ g \in Gdbs
         /\ LET n == [g EXCEPT !.crossed = @ \/ s.reply.to # g.cur.cmd] IN
            n \in Gdbs /\ Alike(n, g) /\ n.crossed = FALSE
<1>1. /\ s2h = <<s.reply>> /\ s.reply \in Replies /\ s.reply.to = g.cur.cmd /\ g.cur \in Cmds /\ g \in Gdbs
      /\ g.crossed = FALSE /\ s.reply \in Answers
  BY DEF Answered, IsAnswer, TypeInv, Session, Answers
<1>2. s.reply # Plus
  BY <1>1, CharTypes DEF Replies
<1>3. Head(s2h) = s.reply
  BY <1>1, Pair
<1> DEFINE b == g.crossed \/ s.reply.to # g.cur.cmd
<1>4. b = FALSE
  BY <1>1
<1>5. [g EXCEPT !.crossed = @ \/ s.reply.to # g.cur.cmd] = [g EXCEPT !.crossed = b]
  OBVIOUS
<1> HIDE DEF b
<1> DEFINE n == [g EXCEPT !.crossed = b]
<1>6. n \in Gdbs /\ Alike(n, g) /\ n.crossed = FALSE
  BY <1>1, <1>4 DEF Gdbs, Alike
<1> QED BY <1>1, <1>2, <1>3, <1>5, <1>6

\* GDB takes the answer to a command.
LEMMA CalmReply ==
  ASSUME TypeInv, TypeInv', StatusOK, Session, GdbReply
  PROVE  CalmInv'
<1>0. g.pc = "reply" /\ s2h # <<>>
  BY DEF GdbReply
<1>1. Answered
  BY <1>0 DEF Session, AtPrompt, OnItsWay, Obeyed, Unanswered, Running
<1> DEFINE r == s.reply
           n == [g EXCEPT !.crossed = @ \/ r.to # g.cur.cmd]
           o == AfterReply(n, r.what)
<1>2. /\ Head(s2h) = r /\ r \in Replies /\ r # Plus /\ g.cur \in Cmds /\ g \in Gdbs
      /\ n \in Gdbs /\ Alike(n, g) /\ n.crossed = FALSE
  BY <1>0, <1>1, Uncrossed
<1>3. Becomes(Acked(o))
  BY <1>2 DEF GdbReply
<1>4. /\ IsAnswer(r, g.cur) /\ g.cur.then = "reply" /\ GoodCmd(g.cur) /\ s.pc = "ack"
  BY <1>0, <1>1, <1>2, CmdFields DEF Answered
<1>5. ~(n.cur.cmd = "g" /\ r.what # "regs") /\ n.cur = g.cur
  BY <1>2, <1>4 DEF IsAnswer, Alike
<1>6. s.status = "T" \/ s.ext = TRUE
  <2>1. s.status \in {"T", "W"}
    BY DEF TypeInv, Servers
  <2> QED BY <1>4, <2>1 DEF StatusOK, IsAnswer, GoodCmd
<1>7. CASE g.cur.cmd = "D"
  <2>1. o = [g |-> Closed, out |-> <<>>]
    BY <1>5, <1>7 DEF AfterReply
  <2>2. Acked(o).g = Closed
    BY <2>1, ClosedType, WritesType, AckedIs DEF Acked
  <2>3. g' = Closed /\ s2h' = <<>>
    BY <1>3, <2>2, ClosedType DEF Becomes
  <2> QED BY <2>3, ClosedType DEF CalmInv
<1>8. CASE g.cur.cmd # "D"
  <2> DEFINE m == TakeReply(n, r.what)
  <2>1. o = Go(m)
    BY <1>5, <1>8 DEF AfterReply
  <2> HIDE DEF n
  <2>2. m \in Gdbs
    BY <1>2, <1>5, TakeReplyType
  <2>3. /\ m.todo = n.todo /\ m.style = n.style /\ m.resumes = n.resumes /\ m.crossed = n.crossed
        /\ m.cont = IF n.cur.cmd = "Hc" THEN n.cur.arg ELSE n.cont
    BY <1>2, <1>5, TakeReplyIs
  <2> HIDE DEF m
  <2>4. Becomes(Acked(Go(m)))
    BY <1>3, <2>1
  <2>5. Agreed(m.cont, s.cont)
    <3>1. CASE g.cur.cmd = "Hc"
      <4>1. m.cont = g.cur.arg /\ s.cont = OnWire(g.cur.arg)
        BY <1>1, <1>5, <2>3, <3>1 DEF Session, ContOK
      <4>2. g.cur.arg \in Threads \cup {MAGIC_NULL_PID, 0, AllThreads}
        BY <1>4, <3>1 DEF GoodCmd
      <4>3. g.cur.arg # NotSent
        BY <4>2, SessionAssumption DEF NotSent, MAGIC_NULL_PID, AllThreads
      <4> QED BY <4>1, <4>3 DEF Agreed
    <3>2. CASE g.cur.cmd # "Hc"
      <4>1. m.cont = g.cont
        BY <1>2, <1>5, <2>3, <3>2 DEF Alike
      <4> QED BY <3>2, <4>1 DEF Session, ContOK
    <3> QED BY <3>1, <3>2
  <2>6. m.todo = g.todo /\ m.style = g.style /\ m.resumes = g.resumes /\ m.crossed = FALSE
    BY <1>2, <2>3 DEF Alike
  <2> QED BY <1>0, <1>1, <1>6, <2>2, <2>4, <2>5, <2>6, Acknowledges
<1> QED BY <1>7, <1>8

\* GDB takes the stop, or the exit, that it has waited for.
LEMMA CalmWait ==
  ASSUME TypeInv, TypeInv', StatusOK, Session, GdbWait
  PROVE  CalmInv'
<1>0. g.pc = "wait" /\ s2h # <<>>
  BY DEF GdbWait
<1>1. Answered
  BY <1>0 DEF Session, AtPrompt, OnItsWay, Obeyed, Unanswered, Running
<1> DEFINE r == s.reply
           n == [g EXCEPT !.crossed = @ \/ r.to # g.cur.cmd]
<1>2. /\ Head(s2h) = r /\ r \in Replies /\ r # Plus /\ g.cur \in Cmds /\ g \in Gdbs
      /\ n \in Gdbs /\ Alike(n, g) /\ n.crossed = FALSE
  BY <1>0, <1>1, Uncrossed
<1>3. /\ IsAnswer(r, g.cur) /\ g.cur.then = "wait" /\ GoodCmd(g.cur) /\ s.pc = "ack"
      /\ r.what \in {"stop", "exit"} /\ r.arg \in Threads \cup {0}
  BY <1>0, <1>1, <1>2, CmdFields DEF Answered, IsAnswer, Replies
<1>4. /\ r.what = "stop" => Becomes(Acked(Go(Stopped(n, r.arg))))
      /\ r.what = "exit" => Becomes(Acked(Exited(n)))
  BY <1>2, <1>3 DEF GdbWait
<1>5. Agreed(n.cont, s.cont)
  BY <1>2, <1>3 DEF Session, ContOK, GoodCmd, Alike
<1>6. s.status \in {"T", "W"} /\ g.style \in {"plain", "extended"}
  BY DEF TypeInv, Servers, Gdbs
<1> HIDE DEF n
<1>7. CASE r.what = "stop"
  <2> DEFINE m == Stopped(n, r.arg)
  <2>1. m \in Gdbs
    BY <1>2, <1>3, StoppedType
  <2>2. m.todo = n.todo /\ m.style = n.style /\ m.resumes = n.resumes /\ m.crossed = n.crossed /\ m.cont = n.cont
    BY <1>2 DEF Stopped, Gdbs
  <2>3. Becomes(Acked(Go(m)))
    BY <1>4, <1>7
  <2> HIDE DEF m
  <2>4. s.status = "T" \/ s.ext = TRUE
    BY <1>3, <1>6, <1>7 DEF StatusOK
  <2>5. m.todo = g.todo /\ m.style = g.style /\ m.resumes = g.resumes /\ m.crossed = FALSE /\ Agreed(m.cont, s.cont)
    BY <1>2, <1>5, <2>2 DEF Alike
  <2> QED BY <1>0, <1>1, <2>1, <2>3, <2>4, <2>5, Acknowledges
<1>8. CASE r.what = "exit" /\ g.style = "plain"
  <2>1. Exited(n) = [g |-> Closed, out |-> <<>>]
    BY <1>2, <1>8 DEF Exited, Alike
  <2>2. Acked(Exited(n)).g = Closed
    BY <2>1, ClosedType, WritesType, AckedIs DEF Acked
  <2>3. g' = Closed /\ s2h' = <<>>
    BY <1>4, <1>8, <2>2, ClosedType DEF Becomes
  <2> QED BY <2>3, ClosedType DEF CalmInv
<1>9. CASE r.what = "exit" /\ g.style = "extended"
  <2>1. Exited(n) = Go(n)
    BY <1>2, <1>9 DEF Exited, Alike
  <2>2. Becomes(Acked(Go(n)))
    BY <1>4, <1>9, <2>1
  <2>3. s.status = "T" \/ s.ext = TRUE
    <3>1. Ahead = g.todo
      BY <1>0 DEF Ahead, OnItsWay
    <3>2. s.ext # TRUE => EndsWith(g.todo, "!")
      BY <1>9, <3>1 DEF Session, Suits, Mode
    <3>3. g.cur.cmd = "c" => ~EndsWith(g.todo, "!")
      BY DEF Session, EndsWith
    <3> QED BY <1>3, <1>6, <3>2, <3>3 DEF StatusOK, IsAnswer
  <2>4. n.todo = g.todo /\ n.style = g.style /\ n.resumes = g.resumes
    BY <1>2 DEF Alike
  <2> QED BY <1>0, <1>1, <1>2, <1>5, <2>2, <2>3, <2>4, Acknowledges
<1> QED BY <1>3, <1>6, <1>7, <1>8, <1>9

\* Only the 'H' for a thread that has died is left without an answer.
LEMMA CalmReplyTimeout ==
  ASSUME TypeInv, TypeInv', Session, GdbReplyTimeout
  PROVE  CalmInv'
<1>0. g.pc = "reply" /\ s2h = <<>> /\ g \in Gdbs /\ g.cur \in Cmds
  BY DEF GdbReplyTimeout, Silence, TypeInv
<1>1. Unanswered
  <2>1. \A x : <<x>> # <<>>
    OBVIOUS
  <2> QED BY <1>0, <2>1 DEF Session, AtPrompt, OnItsWay, Answered, Obeyed, Running
<1>2. g.cur.cmd = "Hg" /\ s.pc = "getpkt" /\ Quiet(Line)
  BY <1>1 DEF Unanswered
<1> DEFINE m == [g EXCEPT !.tries = @ + 1]
           t == TakeReply(g, "timeout")
           o == Go(t)
<1>3. \/ Becomes([g |-> m, out |-> <<Minus>>])
      \/ Becomes([o EXCEPT !.out = <<Minus, Plus>> \o @])
  BY <1>2 DEF GdbReplyTimeout, AfterReply
<1>4. CASE Becomes([g |-> m, out |-> <<Minus>>])
  <2>1. Alike(m, g) /\ m.pc = "reply"
    BY <1>0 DEF Gdbs, Alike
  <2> HIDE DEF m
  <2>2. g' = m /\ s' = s /\ s2h' = <<>> /\ h2s' = h2s \o <<Minus>>
    BY <1>0, <1>2, <1>4 DEF Becomes, Onto
  <2>3. Line' = Line \o <<Minus>> /\ Line \in Seq(Items)
    BY <2>2, WritesType, LineGrows
  <2>4. Quiet(Line')
    BY <1>2, <2>3, WritesType, QuietChars, QuietConcat
  <2>5. Unanswered'
    BY <1>0, <1>2, <2>1, <2>2, <2>4 DEF Unanswered, Alike
  <2>6. Alike(g', g) /\ Kept(s', s) /\ g'.pc = "reply"
    BY <2>1, <2>2 DEF Kept
  <2>7. Session'
    BY <1>0, <1>2, <2>5, <2>6, Stays
  <2> QED BY <2>6, <2>7 DEF CalmInv
<1>5. CASE Becomes([o EXCEPT !.out = <<Minus, Plus>> \o @])
  <2>1. t \in Gdbs
    BY <1>0, TakeReplyType
  <2>2. t.todo = g.todo /\ t.style = g.style /\ t.resumes = g.resumes /\ t.crossed = g.crossed /\ t.cont = g.cont
    BY <1>0, <1>2, TakeReplyIs
  <2> HIDE DEF t
  <2>3. Outcome(o)
    BY <2>1, GoType
  <2> DEFINE x == <<Minus, Plus>> \o o.out
  <2>4. g' = o.g /\ s' = s /\ s2h' = <<>> /\ h2s' = h2s \o x
    <3>1. [o EXCEPT !.out = <<Minus, Plus>> \o @].g = o.g /\ [o EXCEPT !.out = <<Minus, Plus>> \o @].out = x
      BY <2>3, WritesType, AckedIs
    <3> QED BY <1>0, <1>2, <1>5, <3>1 DEF Becomes, Onto
  <2>5. x \in Seq(Items) /\ o.out \in Seq(Items)
    BY <2>3, WritesType, ConcatProperties DEF Outcome
  <2>6. Line' = Line \o x /\ Line \in Seq(Items)
    <3> HIDE DEF x
    <3> QED BY <2>4, <2>5, LineGrows
  <2> DEFINE q == Line \o <<Minus, Plus>>
  <2>7. q \in Seq(Items) /\ Quiet(q) /\ Line' = q \o o.out
    <3>1. \A a, b, c \in Seq(Items) : (a \o b) \o c = a \o (b \o c)
      BY ConcatAssociative
    <3>2. <<Minus, Plus>> \in Seq(Items) /\ Line \in Seq(Items) /\ Quiet(Line)
      BY <1>2, <2>6, WritesType
    <3>3. q \in Seq(Items)
      BY <3>2, ConcatProperties
    <3>4. Quiet(q)
      BY <3>2, QuietChars, QuietConcat
    <3>5. Line' = q \o o.out
      BY <2>5, <2>6, <3>1, <3>2
    <3> QED BY <3>3, <3>4, <3>5
  <2> HIDE DEF q
  <2>8. Ahead = g.todo /\ g.crossed = FALSE /\ Agreed(g.cont, s.cont)
    BY <1>0, <1>2 DEF Ahead, OnItsWay, Session, ContOK
  <2>9. Suits(t.todo, t.style, Mode(s')) /\ Counted(t.todo, s'.resumes, t.resumes) /\ Agreed(t.cont, s'.cont)
    BY <2>2, <2>4, <2>8 DEF Session
  <2>10. s'.pc = "getpkt" /\ \E y \in Seq(Items) : Quiet(y) /\ Line' = y \o Go(t).out
    BY <1>2, <2>4, <2>7
  <2>11. Session' /\ g'.pc # "closed"
    BY <2>1, <2>2, <2>4, <2>8, <2>9, <2>10, Proceeds
  <2> QED BY <2>11 DEF CalmInv
<1> QED BY <1>3, <1>4, <1>5

\* The rest of what GDB's functions handle does not come up: no packet is sent again or dropped, and
\* gdbserver is gone only when it was told to.
LEMMA CalmNever ==
  ASSUME TypeInv, Session, g.pc # "closed"
  PROVE  ~GdbAckTimeout /\ ~GdbGobble /\ ~GdbGobbleTimeout /\ ~GdbEof
<1>0. g \in Gdbs /\ s.buf \in Seq(Items) /\ \A x, y : <<x>> # <<>> /\ <<x, y>> # <<>>
  BY DEF TypeInv, Servers
<1>1. ~GdbAckTimeout
  <2> SUFFICES ASSUME GdbAckTimeout PROVE FALSE
    OBVIOUS
  <2>1. g.pc = "ack" /\ s2h = <<>> /\ Silence
    BY DEF GdbAckTimeout, Silence
  <2>2. OnItsWay
    BY <1>0, <2>1 DEF Session, AtPrompt, Answered, Obeyed, Unanswered, Running
  <2>3. (s.pc = "getpkt" /\ EndsIn(Line, g.cur)) \/ (s.pc = "ack" /\ h2s # <<>>)
    BY <1>0, <2>2 DEF OnItsWay, Resumable
  <2>4. h2s = <<>> /\ (s.pc = "getpkt" => s.buf = <<>>)
    BY <2>1, <2>3 DEF Silence
  <2>5. s.pc = "getpkt" => Len(Line) = 0
    BY <2>4 DEF Line
  <2> QED BY <2>3, <2>4, <2>5 DEF EndsIn
<1>2. g.pc # "gobble"
  BY DEF Session, AtPrompt, OnItsWay, Answered, Obeyed, Unanswered, Running
<1>3. s.pc = "gone" => s2h # <<>>
  BY <1>0 DEF Session, AtPrompt, OnItsWay, Answered, Obeyed, Unanswered, Running, Resumable
<1> QED BY <1>1, <1>2, <1>3 DEF GdbGobble, GdbGobbleTimeout, GdbEof

\* ^C.
LEMMA CalmInterrupt ==
  ASSUME TypeInv, TypeInv', Session, Calm, Interrupt
  PROVE  CalmInv'
<1>0. g.pc = "wait" /\ g \in Gdbs /\ s' = s /\ s2h' = s2h /\ Kept(s', s)
  BY DEF Interrupt, TypeInv, Kept
<1>1. Answered \/ Running
  BY <1>0 DEF Session, AtPrompt, OnItsWay, Obeyed, Unanswered
<1>2. CASE g' = [g EXCEPT !.pc = "query"] /\ h2s' = h2s
  <2>1. Alike(g', g) /\ g'.pc = "query"
    BY <1>0, <1>2 DEF Gdbs, Alike
  <2>2. Answered' <=> Answered
    BY <1>0, <1>2, <2>1 DEF Answered, AllRead, Alike
  <2>3. Running => Running'
    BY <1>0, <1>2, <2>1 DEF Running, Line, Alike
  <2>4. Session'
    BY <1>0, <1>1, <2>1, <2>2, <2>3, Stays
  <2> QED BY <2>1, <2>4 DEF CalmInv
<1>3. CASE /\ g' = [g EXCEPT !.interrupted = TRUE] /\ h2s' = Append(h2s, Break)
           /\ s2h = <<>>
  <2>1. Alike(g', g) /\ g'.pc = "wait"
    BY <1>0, <1>3 DEF Gdbs, Alike
  <2>2. h2s' = h2s \o <<Break>>
    <3>1. h2s \in Seq(Items) /\ Break \in Items
      BY CharTypes DEF TypeInv
    <3> QED BY <1>3, <3>1, AppendIsConcat
  <2>3. \A x, y : <<x>> # <<>> /\ <<x, y>> # <<>>
    OBVIOUS
  <2>4. ~Answered /\ ~Answered' /\ Running
    BY <1>0, <1>1, <1>3, <2>3 DEF Answered
  <2>5. Line' = Line \o <<Break>> /\ Line \in Seq(Items) /\ Quiet(Line)
    BY <1>0, <2>2, <2>4, WritesType, LineGrows DEF Running
  <2>6. Quiet(Line')
    BY <2>5, WritesType, QuietChars, QuietConcat
  <2>7. Running'
    BY <1>0, <1>3, <2>1, <2>4, <2>6 DEF Running, Alike
  <2>8. Session'
    BY <1>0, <2>1, <2>4, <2>7, Stays
  <2> QED BY <2>1, <2>8 DEF CalmInv
<1> QED BY <1>2, <1>3 DEF Interrupt, Calm

LEMMA CalmAnswer ==
  ASSUME TypeInv, TypeInv', Session, Calm, Answer
  PROVE  CalmInv'
<1>0. g.pc = "query" /\ g \in Gdbs /\ s' = s /\ h2s' = h2s /\ Kept(s', s)
  BY DEF Answer, TypeInv, Kept
<1>1. Answered \/ Running
  BY <1>0 DEF Session, AtPrompt, OnItsWay, Obeyed, Unanswered
<1>2. CASE g' = [g EXCEPT !.pc = "wait", !.interrupted = FALSE] /\ s2h' = s2h
  <2>1. Alike(g', g) /\ g'.pc = "wait"
    BY <1>0, <1>2 DEF Gdbs, Alike
  <2>2. Answered' <=> Answered
    BY <1>0, <1>2, <2>1 DEF Answered, AllRead, Alike
  <2>3. Running => Running'
    BY <1>0, <1>2, <2>1 DEF Running, Line, Alike
  <2>4. Session'
    BY <1>0, <1>1, <2>1, <2>2, <2>3, Stays
  <2> QED BY <2>1, <2>4 DEF CalmInv
<1>3. CASE g' = Closed /\ s2h' = <<>>
  BY <1>3, ClosedType DEF CalmInv
<1> QED BY <1>2, <1>3 DEF Answer, Calm

\* The packets of a new connection.
LEMMA OpeningSuits ==
  ASSUME NEW style \in {"plain", "extended"}
  PROVE  /\ Suits(Opening(style), style, "plain") /\ Counted(Opening(style), 0, 0)
         /\ Opening(style) # <<>> /\ Head(Opening(style)).cmd = "Hc"
<1> DEFINE a == <<Cmd("Hc", AllThreads, "reply")>>
           b == <<Cmd("qC", 0, "reply"), Cmd("qOffsets", 0, "reply"), Cmd("?", 0, "wait")>>
           c == IF style = "extended" THEN <<Cmd("!", 0, "reply")>> ELSE <<>>
           d == a \o b
           e == d \o c
<1>1. a \in Seq(Cmds) /\ Len(a) = 1 /\ a[1].cmd = "Hc" /\ a[1].then = "reply"
  <2>1. Cmd("Hc", AllThreads, "reply") \in Cmds
    BY ThreadCmds
  <2> QED BY <2>1, CmdIs
<1>2. /\ b \in Seq(Cmds) /\ Len(b) = 3 /\ b[1].cmd = "qC" /\ b[2].cmd = "qOffsets" /\ b[3].cmd = "?"
      /\ b[1].then = "reply" /\ b[2].then = "reply" /\ b[3].then = "wait"
  <2>1. \A x, y, z \in Cmds : /\ <<x, y, z>> \in Seq(Cmds) /\ Len(<<x, y, z>>) = 3
                              /\ <<x, y, z>>[1] = x /\ <<x, y, z>>[2] = y /\ <<x, y, z>>[3] = z
    OBVIOUS
  <2> QED BY <2>1, PlainCmds, CmdIs
<1>3. /\ c \in Seq(Cmds) /\ (style = "extended" => Len(c) = 1 /\ c[1].cmd = "!" /\ c[1].then = "reply")
      /\ style = "plain" => Len(c) = 0
  <2>1. Cmd("!", 0, "reply") \in Cmds /\ Cmd("!", 0, "reply").cmd = "!" /\ Cmd("!", 0, "reply").then = "reply"
    BY PlainCmds, CmdIs
  <2>2. \A x \in Cmds : <<x>> \in Seq(Cmds) /\ Len(<<x>>) = 1 /\ <<x>>[1] = x /\ <<>> \in Seq(Cmds) /\ Len(<<>>) = 0
    OBVIOUS
  <2> QED BY <2>1, <2>2
<1>7. e = Opening(style)
  BY DEF Opening
<1> HIDE DEF a, b, c
<1>0. \A x, y \in Seq(Cmds) :
        /\ x \o y \in Seq(Cmds) /\ Len(x \o y) = Len(x) + Len(y)
        /\ \A i \in 1..Len(x) : (x \o y)[i] = x[i]
        /\ \A i \in 1..Len(y) : (x \o y)[Len(x) + i] = y[i]
  <2> TAKE x, y \in Seq(Cmds)
  <2>1. /\ x \o y \in Seq(Cmds) /\ Len(x \o y) = Len(x) + Len(y)
        /\ \A i \in 1..(Len(x) + Len(y)) : (x \o y)[i] = IF i <= Len(x) THEN x[i] ELSE y[i - Len(x)]
    BY ConcatProperties
  <2> DEFINE z == x \o y
             m == Len(x)
             n == Len(y)
  <2>2. m \in Nat /\ n \in Nat
    OBVIOUS
  <2>3. \A i \in 1..(m + n) : z[i] = IF i <= m THEN x[i] ELSE y[i - m]
    BY <2>1
  <2> HIDE DEF z, m, n
  <2>4. \A i \in 1..m : i \in 1..(m + n) /\ i <= m
    BY <2>2
  <2>5. \A i \in 1..n : m + i \in 1..(m + n) /\ ~(m + i <= m) /\ (m + i) - m = i
    BY <2>2
  <2>6. (\A i \in 1..m : z[i] = x[i]) /\ (\A i \in 1..n : z[m + i] = y[i])
    BY <2>3, <2>4, <2>5
  <2> QED BY <2>1, <2>6 DEF z, m, n
<1>i. /\ 1 \in 1..1 /\ 1 \in 1..3 /\ 2 \in 1..3 /\ 3 \in 1..3 /\ 1 \in 1..4 /\ 2 \in 1..4 /\ 3 \in 1..4 /\ 4 \in 1..4
      /\ 1 + 1 = 2 /\ 1 + 2 = 3 /\ 1 + 3 = 4 /\ 4 + 1 = 5 /\ 4 + 0 = 4
  OBVIOUS
<1>4. /\ d \in Seq(Cmds) /\ Len(d) = 4
      /\ d[1] = a[1] /\ d[2] = b[1] /\ d[3] = b[2] /\ d[4] = b[3]
  <2>0. a \in Seq(Cmds) /\ b \in Seq(Cmds) /\ Len(a) = 1 /\ Len(b) = 3
    BY <1>1, <1>2
  <2>3. /\ d \in Seq(Cmds) /\ Len(d) = Len(a) + Len(b)
        /\ (\A i \in 1..Len(a) : d[i] = a[i]) /\ \A i \in 1..Len(b) : d[Len(a) + i] = b[i]
    BY <1>0, <2>0
  <2> HIDE DEF d
  <2>1. d \in Seq(Cmds) /\ Len(d) = 1 + 3 /\ (\A i \in 1..1 : d[i] = a[i]) /\ \A i \in 1..3 : d[1 + i] = b[i]
    BY ONLY <2>0, <2>3
  <2>2. d[1] = a[1] /\ d[1 + 1] = b[1] /\ d[1 + 2] = b[2] /\ d[1 + 3] = b[3]
    BY ONLY <2>1, <1>i
  <2> QED BY ONLY <2>1, <2>2, <1>i
<1> HIDE DEF d
<1>6. /\ e \in Seq(Cmds) /\ Len(e) = 4 + Len(c) /\ (\A i \in 1..4 : e[i] = d[i])
      /\ \A i \in 1..Len(c) : e[4 + i] = c[i]
  <2>1. d \in Seq(Cmds) /\ c \in Seq(Cmds) /\ Len(d) = 4
    BY <1>3, <1>4
  <2>2. /\ e \in Seq(Cmds) /\ Len(e) = Len(d) + Len(c) /\ (\A i \in 1..Len(d) : e[i] = d[i])
        /\ \A i \in 1..Len(c) : e[Len(d) + i] = c[i]
    BY <1>0, <2>1
  <2> HIDE DEF e
  <2> QED BY ONLY <2>1, <2>2
<1> HIDE DEF e
<1>8. /\ e[1].cmd = "Hc" /\ e[1].then = "reply" /\ e[2].cmd = "qC" /\ e[2].then = "reply"
      /\ e[3].cmd = "qOffsets" /\ e[3].then = "reply" /\ e[4].cmd = "?" /\ e[4].then = "wait"
  <2>1. e[1] = d[1] /\ e[2] = d[2] /\ e[3] = d[3] /\ e[4] = d[4]
    BY ONLY <1>6, <1>i
  <2> QED BY ONLY <1>1, <1>2, <1>4, <2>1
<1>9. style = "extended" => Len(e) = 5 /\ e[5].cmd = "!" /\ e[5].then = "reply"
  <2> SUFFICES ASSUME style = "extended" PROVE Len(e) = 5 /\ e[5].cmd = "!" /\ e[5].then = "reply"
    OBVIOUS
  <2>1. Len(c) = 1 /\ c[1].cmd = "!" /\ c[1].then = "reply"
    BY <1>3
  <2>2. Len(e) = 4 + 1 /\ e[4 + 1] = c[1]
    BY ONLY <1>6, <2>1, <1>i
  <2> QED BY ONLY <2>1, <2>2, <1>i
<1>10. style = "plain" => Len(e) = 4
  BY ONLY <1>3, <1>6, <1>i
<1>11. Suits(e, style, "plain")
  <2>1. CASE style = "extended"
    <3>1. \A i \in 1..5 : i = 1 \/ i = 2 \/ i = 3 \/ i = 4 \/ i = 5
      OBVIOUS
    <3>2. Len(e) = 5 /\ e[5].cmd = "!" /\ e[5].then = "reply" /\ 5 > 0
      BY <1>9, <2>1
    <3>3. EndsWith(e, "!")
      BY ONLY <3>2 DEF EndsWith
    <3>4. \A i \in 1..5 :
            /\ e[i].cmd \in {"c", "!"} => i = 5
            /\ e[i].then # "none" /\ e[i].then # "close"
      BY ONLY <1>8, <3>1, <3>2
    <3> QED BY ONLY <2>1, <3>2, <3>3, <3>4 DEF Suits
  <2>2. CASE style = "plain"
    <3>1. \A i \in 1..4 : i = 1 \/ i = 2 \/ i = 3 \/ i = 4
      OBVIOUS
    <3>2. Len(e) = 4
      BY <1>10, <2>2
    <3>3. \A i \in 1..4 : e[i].cmd \notin {"c", "!"} /\ e[i].then # "none" /\ e[i].then # "close"
      BY ONLY <1>8, <3>1
    <3> QED BY ONLY <2>2, <3>2, <3>3 DEF Suits
  <2> QED BY <2>1, <2>2
<1>12. Counted(e, 0, 0)
  <2>1. e[Len(e)].cmd # "c"
    BY <1>8, <1>9, <1>10
  <2>2. ~EndsWith(e, "c")
    BY <2>1 DEF EndsWith
  <2> QED BY ONLY <2>2 DEF Counted
<1>13. e # <<>> /\ Head(e).cmd = "Hc"
  <2>1. Len(e) > 0
    BY <1>9, <1>10
  <2>2. e # <<>> /\ Head(e) = e[1]
    BY ONLY <1>6, <2>1
  <2> QED BY ONLY <1>8, <2>2
<1> QED BY <1>7, <1>11, <1>12, <1>13

LEMMA CalmConnect ==
  ASSUME TypeInv, TypeInv', StatusOK, s2h = <<>>, NEW style \in {"plain", "extended"}, Connect(style)
  PROVE  CalmInv'
<1> DEFINE n == [OpenState(style) EXCEPT !.todo = Opening(style)]
           o == Go(n)
<1>1. /\ n \in Gdbs /\ n.todo = Opening(style) /\ n.style = style /\ n.resumes = 0
      /\ n.crossed = FALSE /\ g' = o.g /\ h2s' = <<Plus>> \o o.out
  BY Connecting
<1> HIDE DEF n
<1>2. Outcome(o)
  BY <1>1, GoType
<1>3. s' = [s EXCEPT !.pc = "getpkt", !.buf = <<>>] /\ s \in Servers /\ s2h' = <<>> /\ s.pc = "listen"
  BY DEF Connect, TypeInv
<1>4. s'.pc = "getpkt" /\ s'.buf = <<>> /\ s'.ext = s.ext /\ s'.resumes = s.resumes
  BY <1>3 DEF Servers
<1>5. Mode(s') = "plain" /\ s'.resumes = 0
  BY <1>3, <1>4 DEF StatusOK, Mode
<1>6. Line' = <<Plus>> \o o.out
  <2>1. <<Plus>> \o o.out \in Seq(Items)
    BY <1>2, WritesType, ConcatProperties DEF Outcome
  <2>2. <<>> \o (<<Plus>> \o o.out) = <<Plus>> \o o.out
    BY <2>1, ConcatEmptySeq
  <2> QED BY <1>1, <1>4, <2>2 DEF Line
<1>7. Suits(n.todo, n.style, Mode(s')) /\ Counted(n.todo, s'.resumes, n.resumes)
      /\ n.todo # <<>> /\ Head(n.todo).cmd = "Hc"
  BY <1>1, <1>5, OpeningSuits
<1>8. s'.pc = "getpkt" /\ \E q \in Seq(Items) : Quiet(q) /\ Line' = q \o Go(n).out
  BY <1>4, <1>6, WritesType, QuietChars
<1>9. Session' /\ g'.pc # "closed"
  BY <1>1, <1>3, <1>7, <1>8, Proceeds
<1> QED BY <1>9 DEF CalmInv

\* A command of the user begins with both sides in step.
LEMMA CalmCommand ==
  ASSUME TypeInv, TypeInv', Session, Continue \/ Thread \/ Fetch \/ Kill \/ Run \/ Detach
  PROVE  CalmInv'
<1>1. g.pc = "prompt"
  BY Commands
<1>2. PICK st \in Gdbs, todo \in Seq(Cmds) :
        /\ Start(st, todo)
        /\ st.style = g.style /\ st.cont = g.cont /\ st.crossed = g.crossed
        /\ st.resumes = g.resumes + (IF EndsWith(todo, "c") THEN 1 ELSE 0)
        /\ Suits(todo, g.style, g.style)
  BY Commands
<1> DEFINE n == [st EXCEPT !.todo = todo, !.interrupted = FALSE]
           o == Go(n)
<1>3. /\ n \in Gdbs /\ n.todo = todo /\ n.style = st.style /\ n.cont = st.cont /\ n.crossed = st.crossed
      /\ n.resumes = st.resumes
  BY DEF Gdbs
<1>4. g' = o.g /\ h2s' = Onto(o.out) /\ s' = s /\ s2h' = s2h
  BY <1>2 DEF Start
<1> HIDE DEF n
<1>5. Outcome(o)
  BY <1>3, GoType
<1>6. AtPrompt
  BY <1>1 DEF Session, OnItsWay, Answered, Obeyed, Unanswered, Running
<1>7. s2h = <<>> /\ g.todo = <<>> /\ g.cur = NoCmd /\ s.pc # "gone"
  BY <1>6 DEF AtPrompt, Resumable
<1>8. h2s' = h2s \o o.out /\ o.out \in Seq(Items)
  BY <1>4, <1>5, <1>7 DEF Onto, Outcome
<1>9. \/ s'.pc = "getpkt" /\ \E q \in Seq(Items) : Quiet(q) /\ Line' = q \o o.out
      \/ Resumable' /\ h2s' = <<Plus>> \o o.out
  <2>1. CASE s.pc = "getpkt" /\ Quiet(Line)
    <3>1. Line \in Seq(Items) /\ Line' = Line \o o.out
      BY <1>4, <1>8, LineGrows
    <3> QED BY <1>4, <2>1, <3>1
  <2>2. CASE Resumable /\ h2s = <<Plus>>
    <3>1. Resumable'
      BY <1>4, <2>2 DEF Resumable
    <3> QED BY <1>8, <2>2, <3>1
  <2> QED BY <1>6, <2>1, <2>2 DEF AtPrompt
<1>10. Ahead = <<>> /\ g.crossed = FALSE /\ Agreed(g.cont, s.cont)
  <2>1. NoCmd.cmd = "none"
    BY CmdIs DEF NoCmd
  <2> QED BY <1>1, <1>7, <2>1 DEF Ahead, OnItsWay, Session, ContOK
<1>11. Mode(s) = g.style /\ s.resumes = g.resumes
  <2>1. ~EndsWith(<<>>, "!") /\ ~EndsWith(<<>>, "c")
    BY DEF EndsWith
  <2>2. g.style \in {"plain", "extended"} /\ Mode(s) \in {"plain", "extended"} /\ s.resumes \in Nat
    BY DEF TypeInv, Gdbs, Servers, Mode
  <2>3. Suits(<<>>, g.style, Mode(s)) /\ Counted(<<>>, s.resumes, g.resumes)
    BY <1>10 DEF Session
  <2> QED BY <2>1, <2>2, <2>3 DEF Suits, Counted
<1>12. Suits(n.todo, n.style, Mode(s')) /\ Counted(n.todo, s'.resumes, n.resumes)
  BY <1>2, <1>3, <1>4, <1>11 DEF Counted
<1>13. Session' /\ g'.pc # "closed"
  BY <1>2, <1>3, <1>4, <1>7, <1>9, <1>10, <1>12, Proceeds
<1> QED BY <1>13 DEF CalmInv

\* What is left of the line.
LEMMA EmptyLine ==
  ASSUME NEW b \in Seq(Items), NEW l \in Seq(Items)
  PROVE  b \o l \in Seq(Items) /\ (b \o l = <<>> <=> b = <<>> /\ l = <<>>)
<1> DEFINE c == b \o l
<1>1. c \in Seq(Items) /\ Len(c) = Len(b) + Len(l)
  BY ConcatProperties
<1> HIDE DEF c
<1>2. \A q \in Seq(Items) : Len(q) \in Nat /\ (q = <<>> <=> Len(q) = 0)
  OBVIOUS
<1>3. \A i, j \in Nat : i + j = 0 <=> i = 0 /\ j = 0
  OBVIOUS
<1>4. c = <<>> <=> b = <<>> /\ l = <<>>
  BY <1>1, <1>2, <1>3
<1> QED BY <1>1, <1>4 DEF c

LEMMA LineType ==
  ASSUME TypeInv
  PROVE  Line \in Seq(Items) /\ (Line = <<>> <=> AllRead)
<1>1. s.buf \in Seq(Items) /\ h2s \in Seq(Items)
  BY DEF TypeInv, Servers
<1> QED BY <1>1, EmptyLine DEF Line, AllRead

\* What gdbserver says in a session whose line to GDB holds q.
LEMMA SaysIs ==
  ASSUME TypeInv, g.pc # "closed", NEW out \in Seq(Answers), Says(out)
  PROVE  /\ s2h = <<>> => s2h' = out
         /\ out = <<>> => s2h' = s2h
<1>1. s2h \in Seq(Answers) /\ s2h' = s2h \o out
  BY SaysType DEF TypeInv
<1>2. \A q \in Seq(Answers) : <<>> \o q = q /\ q \o <<>> = q
  BY ConcatEmptySeq
<1> QED BY <1>1, <1>2

\* gdbserver reads a character.
LEMMA CalmChar ==
  ASSUME TypeInv, TypeInv', Session, g.pc # "closed", SRead, Line[1].type # "packet"
  PROVE  CalmInv'
<1>1. /\ s.pc = "getpkt" /\ Line # <<>> /\ g' = g /\ s'.pc = "getpkt" /\ Kept(s', s)
      /\ Line' = Tail(Line) /\ s2h' = s2h
  BY Reading, CmdFields
<1>2. Line \in Seq(Items) /\ ~AllRead /\ ~Answered /\ ~Answered' /\ ~Obeyed /\ ~Resumable
  BY <1>1, LineType DEF Answered, Obeyed, Resumable
<1>3. CASE AtPrompt \/ Unanswered \/ Running
  <2>1. Quiet(Line) /\ g.pc # "ack" /\ g'.pc # "ack"
    BY <1>1, <1>2, <1>3 DEF AtPrompt, Unanswered, Running
  <2>2. Quiet(Line')
    BY <1>1, <1>2, <2>1, QuietTail
  <2>3. (AtPrompt => AtPrompt') /\ (Unanswered => Unanswered') /\ (Running => Running')
    BY <1>1, <2>2 DEF AtPrompt, Unanswered, Running
  <2>4. Alike(g', g)
    BY <1>1 DEF Alike
  <2>5. Session'
    BY <1>1, <1>2, <1>3, <2>1, <2>3, <2>4, Stays
  <2> QED BY <1>1, <2>5 DEF CalmInv
<1>4. CASE OnItsWay
  <2>1. EndsIn(Line, g.cur) /\ g.cur \in Cmds /\ g.pc = "ack" /\ s2h = <<>>
    BY <1>1, <1>2, <1>4 DEF OnItsWay, TypeInv
  <2>2. EndsIn(Line', g'.cur)
    BY <1>1, <1>2, <2>1, EndsTail
  <2>3. OnItsWay'
    BY <1>1, <2>1, <2>2 DEF OnItsWay
  <2>4. Ahead' = Ahead
    BY <1>1, <1>4, <2>3 DEF Ahead
  <2>5. ContOK'
    BY <1>1, <1>2 DEF Session, ContOK, Kept
  <2>6. Suits(Ahead', g'.style, Mode(s')) /\ Counted(Ahead', s'.resumes, g'.resumes)
    BY <1>1, <2>4 DEF Session, Kept, Mode
  <2>7. Session'
    BY <1>1, <2>3, <2>5, <2>6 DEF Session
  <2> QED BY <1>1, <2>7 DEF CalmInv
<1> QED BY <1>2, <1>3, <1>4 DEF Session

\* gdbserver reads a packet, which is GDB's current one, and carries it out.
LEMMA CalmPacket ==
  ASSUME TypeInv, TypeInv', Session, g.pc # "closed", SRead, Line[1].type = "packet"
  PROVE  CalmInv'
<1>1. PICK st \in Servers :
        /\ s.pc = "getpkt" /\ Line # <<>> /\ g' = g
        /\ st.pc = "getpkt" /\ Kept(st, s) /\ Line[1] \in Cmds /\ Leaves(s', st, Line[1])
        /\ (s'.pc # "gone" => Line' = Tail(Line)) /\ (s'.pc = "gone" => h2s' = <<>>)
        /\ Says(IF s'.pc = "ack" THEN <<Plus, s'.reply>> ELSE <<Plus>>)
  BY Reading
<1>2. Line \in Seq(Items) /\ ~AllRead /\ ~Answered /\ ~Obeyed /\ ~Resumable
  BY <1>1, LineType DEF Answered, Obeyed, Resumable
<1>3. OnItsWay
  <2>1. ~Quiet(Line)
    BY <1>1, <1>2, QuietTail
  <2> QED BY <1>2, <2>1 DEF Session, AtPrompt, Unanswered, Running
<1> DEFINE p == g.cur
<1>4. p \in Cmds /\ g.pc = "ack" /\ s2h = <<>> /\ Line[1] = p /\ Tail(Line) = <<>> /\ GoodCmd(p)
  <2>1. EndsIn(Line, p) /\ p \in Cmds /\ g.pc = "ack" /\ s2h = <<>>
    BY <1>1, <1>2, <1>3 DEF OnItsWay, TypeInv
  <2> QED BY <1>2, <2>1, EndsTail, CmdFields
<1>5. Leaves(s', st, p)
  BY <1>1, <1>4
<1>6. AllRead'
  <2>1. s'.pc = "gone" => s'.buf = <<>>
    BY <1>5 DEF Leaves
  <2>2. s'.pc # "gone" => Line' = <<>>
    BY <1>1, <1>4
  <2>3. s'.buf \in Seq(Items) /\ h2s' \in Seq(Items)
    BY DEF TypeInv, Servers
  <2>4. Line' = <<>> => AllRead'
    BY <2>3, EmptyLine DEF Line, AllRead
  <2> QED BY <1>1, <2>1, <2>2, <2>4 DEF AllRead
<1>7. /\ s'.pc = "ack" => s2h' = <<Plus, s'.reply>> /\ s'.reply \in Replies
      /\ s'.pc # "ack" => s2h' = <<Plus>>
  <2>1. s'.pc = "ack" => s'.reply \in Replies
    BY DEF TypeInv
  <2> DEFINE out == IF s'.pc = "ack" THEN <<Plus, s'.reply>> ELSE <<Plus>>
  <2>2. out \in Seq(Answers)
    BY <2>1, OutType
  <2>3. s2h' = out
    BY <1>1, <1>4, <2>2, SaysIs
  <2> QED BY <2>1, <2>3
<1>8. s2h' # <<>>
  <2>1. \A x, y : <<x>> # <<>> /\ <<x, y>> # <<>>
    OBVIOUS
  <2> QED BY <1>7, <2>1
<1> DEFINE mode == Mode(s)
           done == s.resumes
           all == g.resumes
           style == g.style
           q == g.todo
<1>9. /\ mode \in {"plain", "extended"} /\ done \in Nat /\ all \in Nat /\ style \in {"plain", "extended"}
      /\ q \in Seq(Cmds) /\ Suits(<<p>> \o q, style, mode) /\ Counted(<<p>> \o q, done, all)
  <2>1. mode \in {"plain", "extended"} /\ done \in Nat /\ all \in Nat /\ style \in {"plain", "extended"} /\ q \in Seq(Cmds)
    BY SessionAssumption DEF TypeInv, Servers, Gdbs, Mode
  <2>2. Ahead = <<p>> \o q
    BY <1>3 DEF Ahead
  <2> QED BY <2>1, <2>2 DEF Session
<1>10. /\ p.cmd \in {"c", "!"} => q = <<>>
       /\ p.then = "none" => mode = "extended"
       /\ p.then = "close" => style = "plain"
       /\ style = "plain" => mode = "plain"
       /\ Suits(q, style, IF p.cmd = "!" THEN "extended" ELSE mode)
       /\ Counted(q, IF p.cmd = "c" THEN done + 1 ELSE done, all)
  <2> HIDE DEF mode, done, all, style, q, p
  <2> QED BY ONLY <1>4, <1>9, SuitsRest
<1>11. (mode = "extended" <=> st.ext = TRUE) /\ st.cont = s.cont /\ st.resumes = s.resumes
  BY <1>1 DEF Kept, Mode
<1>12. p.then \in {"reply", "wait", "none", "close"} /\ p.cmd \in CmdNames
  BY <1>4, CmdFields
<1>13. ASSUME s'.pc = "ack" PROVE Answered'
  <2>1. IsAnswer(s'.reply, p)
    <3>1. /\ s'.reply.to = p.cmd /\ p.cmd \notin {"c", "k"} /\ (p.cmd = "R" => st.ext # TRUE)
          /\ p.cmd = "g" => s'.reply.what = "regs"
          /\ p.cmd = "?" => s'.reply.what \in {"stop", "exit"}
      BY <1>5, <1>13 DEF Leaves
    <3> QED BY <1>4, <1>10, <1>11, <1>12, <3>1 DEF IsAnswer, GoodCmd
  <2> QED BY <1>1, <1>4, <1>6, <1>7, <1>13, <2>1 DEF Answered
<1>14. ASSUME s'.pc # "ack" PROVE Obeyed'
  <2>1. /\ s'.pc \in {"getpkt", "resumed", "gone"}
        /\ s'.pc = "getpkt" => p.cmd \in {"Hg", "c"} \/ (p.cmd \in {"k", "R"} /\ st.ext = TRUE)
        /\ s'.pc = "resumed" => p.cmd = "c"
        /\ s'.pc = "gone" => p.cmd = "k" /\ st.ext # TRUE
    BY <1>5, <1>14 DEF Leaves
  <2>2. \/ p.cmd = "Hg" /\ s'.pc = "getpkt"
        \/ p.then = "none" /\ s'.pc = "getpkt"
        \/ p.cmd = "c" /\ s'.pc \in {"getpkt", "resumed"}
        \/ p.then = "close" /\ s'.pc = "gone"
    BY <1>4, <1>9, <1>10, <1>11, <1>12, <2>1 DEF GoodCmd
  <2> QED BY <1>1, <1>4, <1>6, <1>7, <1>14, <2>2 DEF Obeyed
<1>15. Answered' \/ Obeyed'
  BY <1>13, <1>14
<1>16. Ahead' = q
  BY <1>1, <1>8 DEF Ahead, OnItsWay
<1>17. Mode(s') = (IF p.cmd = "!" THEN "extended" ELSE mode)
  BY <1>5, <1>11 DEF Leaves, Mode
<1>18. s'.resumes = IF p.cmd = "c" THEN done + 1 ELSE done
  BY <1>5, <1>11 DEF Leaves
<1>19. Suits(Ahead', g'.style, Mode(s')) /\ Counted(Ahead', s'.resumes, g'.resumes)
  BY <1>1, <1>10, <1>16, <1>17, <1>18
<1>20. ContOK'
  <2>1. s'.cont = IF p.cmd = "Hc" THEN OnWire(p.arg) ELSE s.cont
    BY <1>5, <1>11 DEF Leaves
  <2> QED BY <1>1, <2>1 DEF Session, ContOK
<1>21. Session'
  BY <1>1, <1>10, <1>15, <1>19, <1>20 DEF Session
<1> QED BY <1>1, <1>21 DEF CalmInv

\* gdbserver listens for a ^C.
LEMMA CalmEnable ==
  ASSUME TypeInv, TypeInv', StatusOK, Session, g.pc # "closed", SEnableIO
  PROVE  CalmInv'
<1>1. s.pc = "resumed" /\ s'.pc = "mywait" /\ g' = g /\ h2s' = h2s /\ s2h' = s2h /\ Same(s', s)
  BY EnableType DEF SEnableIO, TypeInv, Servers
<1>2. Obeyed \/ Running
  BY <1>1 DEF Session, AtPrompt, OnItsWay, Answered, Unanswered, Resumable
<1>3. Line' = Line /\ s'.buf = s.buf
  BY <1>1 DEF Line, Same
<1>4. (Obeyed => Obeyed') /\ (Running => Running') /\ ~Answered'
  <2>1. Obeyed => g.cur.cmd = "c" \/ g.cur.then \notin {"close", "none"}
    BY <1>1 DEF Obeyed
  <2> QED BY <1>1, <1>3, <2>1 DEF Obeyed, Running, Answered, AllRead
<1>5. g'.pc # "ack" \/ s2h' # <<>>
  <2>1. <<Plus>> # <<>>
    OBVIOUS
  <2> QED BY <1>1, <1>2, <2>1 DEF Obeyed, Running
<1>6. Session'
  BY <1>1, <1>2, <1>4, <1>5, Stays DEF Same, Kept, Alike
<1> QED BY <1>1, <1>6 DEF CalmInv

\* The child stops or exits.
LEMMA CalmMywait ==
  ASSUME TypeInv, TypeInv', Session, Calm, g.pc # "closed", SMywait
  PROVE  CalmInv'
<1>1. /\ s.pc = "mywait" /\ Same(s', s) /\ g' = g /\ h2s' = <<>> /\ h2s = <<>>
      /\ \/ /\ s'.pc = "ack" /\ s'.reply \in Replies /\ s'.reply.to = "c"
            /\ s'.reply.what \in {"stop", "exit"}
         \/ s'.pc = "getpkt"
      /\ Says(IF s'.pc = "ack" THEN <<s'.reply>> ELSE <<>>)
  BY Mywaiting DEF Calm
<1>2. Obeyed \/ Running
  BY <1>1 DEF Session, AtPrompt, OnItsWay, Answered, Unanswered, Resumable
<1>3. g.cur.cmd = "c" /\ s.buf = <<>> /\ g.cur \in Cmds
  <2>1. g.cur \in Cmds /\ GoodCmd(g.cur)
    <3>1. g.pc \in {"ack", "wait", "query"}
      BY <1>2 DEF Obeyed, Running
    <3> QED BY <3>1, CmdFields DEF TypeInv
  <2> QED BY <1>1, <1>2, <2>1 DEF Obeyed, Running, AllRead, GoodCmd
<1>4. AllRead' /\ Kept(s', s) /\ Alike(g', g) /\ (g.pc # "ack" \/ s2h # <<>>)
  <2>1. <<Plus>> # <<>>
    OBVIOUS
  <2> QED BY <1>1, <1>2, <1>3, <2>1 DEF AllRead, Same, Kept, Alike, Obeyed, Running
<1>5. CASE s'.pc = "ack"
  <2> DEFINE r == s'.reply
  <2>1. r \in Replies /\ r.to = "c" /\ r.what \in {"stop", "exit"} /\ <<r>> \in Seq(Answers) /\ r \in Answers /\ Plus \in Answers
    BY <1>1, <1>5, OutType, CharTypes DEF Answers
  <2>2. g.cur.then = "wait"
    BY <1>3, CmdFields DEF GoodCmd
  <2>3. IsAnswer(r, g.cur)
    BY <1>3, <2>1, <2>2 DEF IsAnswer
  <2>4. Says(<<r>>)
    BY <1>1, <1>5
  <2>5. ASSUME Obeyed PROVE Answered'
    <3>1. s2h = <<Plus>> /\ g.pc = "ack"
      BY <2>5 DEF Obeyed
    <3>2. s2h' = <<Plus, r>>
      BY <2>1, <2>4, <3>1, SaysType, Pair
    <3> QED BY <1>1, <1>4, <1>5, <2>3, <3>1, <3>2 DEF Answered
  <2>6. ASSUME Running PROVE Answered'
    <3>1. s2h = <<>> /\ g.pc \in {"wait", "query"}
      BY <2>6 DEF Running
    <3>2. s2h' = <<r>>
      BY <2>1, <2>4, <3>1, SaysIs
    <3> QED BY <1>1, <1>4, <1>5, <2>2, <2>3, <3>1, <3>2 DEF Answered
  <2>7. Answered'
    BY <1>2, <2>5, <2>6
  <2>8. s2h' # <<>>
    <3>1. \A x, y : <<x>> # <<>> /\ <<x, y>> # <<>>
      OBVIOUS
    <3> QED BY <2>7, <3>1 DEF Answered
  <2>9. Session'
    BY <1>3, <1>4, <2>7, <2>8, Stays
  <2> QED BY <1>1, <2>9 DEF CalmInv
<1>6. CASE s'.pc = "getpkt"
  <2>1. s2h' = s2h
    BY <1>1, <1>6, OutType, SaysIs
  <2>2. Quiet(Line')
    <3>1. Line' = <<>>
      BY <1>4, WritesType, EmptyLine DEF Line, AllRead
    <3> QED BY <3>1, QuietChars
  <2>3. (Obeyed => Obeyed') /\ (Running => Running') /\ ~Answered'
    BY <1>1, <1>3, <1>4, <1>6, <2>1, <2>2 DEF Obeyed, Running, Answered
  <2>4. g'.pc # "ack" \/ s2h' # <<>>
    BY <1>1, <1>4, <2>1
  <2>5. Session'
    BY <1>2, <1>4, <2>3, <2>4, Stays
  <2> QED BY <1>1, <2>5 DEF CalmInv
<1> QED BY <1>1, <1>5, <1>6

\* A ^C reaches gdbserver while its child runs.
LEMMA CalmInput ==
  ASSUME TypeInv, TypeInv', StatusOK, Session, g.pc # "closed", SInput
  PROVE  CalmInv'
<1>1. /\ s.pc = "mywait" /\ h2s # <<>> /\ g' = g /\ s2h' = s2h /\ h2s \in Seq(Items)
      /\ h2s' = (IF Head(h2s).type = "packet" THEN <<Junk>> ELSE <<>>) \o Tail(h2s)
  BY DEF SInput, TypeInv, Servers
<1>2. Same(s', s) /\ s'.pc = "mywait"
  BY <1>1, InputType
<1>3. Running
  BY <1>1 DEF Session, AtPrompt, OnItsWay, Answered, Obeyed, Unanswered, Resumable, AllRead
<1>4. s.buf = <<>> /\ s'.buf = <<>> /\ Quiet(Line) /\ g.pc \in {"wait", "query"}
  BY <1>1, <1>2, <1>3 DEF Running, Same
<1>5. \A q \in Seq(Items) : <<>> \o q = q
  BY ConcatEmptySeq
<1>6. Line = h2s
  BY <1>1, <1>4, <1>5 DEF Line
<1>7. Head(h2s).type # "packet" /\ Quiet(Tail(h2s))
  <2>1. h2s[1] = Head(h2s)
    BY <1>1
  <2> QED BY <1>1, <1>4, <1>6, <2>1, QuietTail
<1>8. h2s' = Tail(h2s) /\ h2s' \in Seq(Items)
  BY <1>1, <1>7, CutType
<1>9. Quiet(Line')
  BY <1>4, <1>5, <1>7, <1>8 DEF Line
<1>10. Running' /\ ~Answered'
  BY <1>1, <1>2, <1>3, <1>4, <1>9 DEF Running, Answered
<1>11. Session'
  BY <1>1, <1>2, <1>4, <1>10, Stays DEF Same, Kept, Alike
<1> QED BY <1>1, <1>11 DEF CalmInv

\* gdbserver gets the '+' for its reply.
LEMMA CalmPut ==
  ASSUME TypeInv, TypeInv', Session, g.pc # "closed", SAck
  PROVE  CalmInv'
<1>0. s.pc = "ack" /\ g' = g /\ s \in Servers /\ s.ext \in BOOLEAN /\ Plus \in Items
  BY CharTypes DEF SAck, TypeInv, Servers
<1>1. CASE AtPrompt
  <2>1. Resumable /\ h2s = <<Plus>> /\ s2h = <<>> /\ g.pc = "prompt"
    BY <1>0, <1>1 DEF AtPrompt
  <2>2. h2s # <<>> /\ Head(h2s) = Plus /\ Tail(h2s) = <<>>
    BY <1>0, <2>1, Pair
  <2>3. s' \in AfterPut(s) /\ s2h' = <<>> /\ h2s' = <<>>
    BY <2>1, <2>2 DEF SAck
  <2>4. s'.pc = "getpkt" /\ s'.buf = <<>> /\ Kept(s', s)
    BY <1>0, <2>1, <2>3, AfterPutIs DEF Resumable
  <2>5. Quiet(Line')
    <3>1. Line' = <<>>
      BY <2>3, <2>4, WritesType, EmptyLine DEF Line
    <3> QED BY <3>1, QuietChars
  <2>6. AtPrompt' /\ ~Answered'
    BY <1>0, <1>1, <2>3, <2>4, <2>5 DEF AtPrompt, Answered
  <2>7. Session'
    BY <1>0, <2>1, <2>4, <2>6, Stays DEF Alike
  <2> QED BY <1>0, <2>7 DEF CalmInv
<1>2. CASE OnItsWay
  <2> DEFINE p == g.cur
  <2>1. Resumable /\ h2s = <<Plus, p>> /\ s2h = <<>> /\ g.pc = "ack" /\ p \in Cmds /\ p \in Items
    BY <1>0, <1>2 DEF OnItsWay, TypeInv, Items
  <2>2. h2s # <<>> /\ Head(h2s) = Plus /\ Tail(h2s) = <<p>>
    BY <1>0, <2>1, Pair
  <2>3. s' \in AfterPut(s) /\ s2h' = <<>> /\ h2s' = IF s'.pc = "gone" THEN <<>> ELSE <<p>>
    BY <2>1, <2>2 DEF SAck
  <2>4. s'.pc = "getpkt" /\ s'.buf = <<>> /\ Kept(s', s) /\ h2s' = <<p>>
    BY <1>0, <2>1, <2>3, AfterPutIs DEF Resumable
  <2>5. EndsIn(Line', p)
    BY <2>1, <2>4, WritesType, QuietChars, EndsConcat DEF Line
  <2>6. OnItsWay' /\ ~Answered'
    BY <1>0, <2>1, <2>3, <2>4, <2>5 DEF OnItsWay, Answered
  <2>7. Ahead' = Ahead
    BY <1>0, <1>2, <2>6 DEF Ahead
  <2>8. ContOK'
    BY <1>0, <2>4, <2>6 DEF Session, ContOK, Kept
  <2>9. Suits(Ahead', g'.style, Mode(s')) /\ Counted(Ahead', s'.resumes, g'.resumes)
    BY <1>0, <2>4, <2>7 DEF Session, Kept, Mode
  <2>10. Session'
    BY <1>0, <2>6, <2>8, <2>9 DEF Session
  <2> QED BY <1>0, <2>10 DEF CalmInv
<1>3. ~Answered
  BY DEF SAck, Answered, AllRead
<1> QED BY <1>0, <1>1, <1>2, <1>3 DEF Session, Obeyed, Unanswered, Running

-----------------------------------------------------------------------------
(* Every step.                                                             *)

\* A GDB that has closed its connection opens one, or gdbserver notices.
LEMMA CalmClosed ==
  ASSUME TypeInv, TypeInv', StatusOK, s2h = <<>>, g.crossed = FALSE, g.pc = "closed", Next
  PROVE  CalmInv'
<1>1. ~GdbStep
  BY DEF GdbStep, GdbAck, GdbAckTimeout, GdbGobble, GdbGobbleTimeout, GdbReply, GdbReplyTimeout, GdbWait, GdbEof
<1>2. User => \E style \in Styles : Connect(style)
  BY DEF User, Interrupt, Answer, Continue, Thread, Fetch, Kill, Run, Detach
<1>3. User => CalmInv'
  BY <1>2, CalmConnect, SessionAssumption
<1>4. ServerStep => g' = g /\ s2h' = <<>>
  BY DEF ServerStep, SRead, SEnableIO, SMywait, SInput, SAck, SEof, SStart, Says
<1>5. ServerStep => CalmInv'
  BY <1>4 DEF CalmInv
<1> QED BY <1>1, <1>3, <1>5 DEF Next

\* The invariant is kept by every step.
LEMMA SessionNext ==
  ASSUME SessionInv, [Next]_vars
  PROVE  SessionInv'
<1>1. CASE UNCHANGED vars
  <2>1. g' = g /\ s' = s /\ h2s' = h2s /\ s2h' = s2h /\ world' = world
    BY <1>1 DEF vars
  <2>2. (TypeInv' <=> TypeInv) /\ (StatusOK' <=> StatusOK) /\ (Calm' <=> Calm)
    BY <2>1 DEF TypeInv, StatusOK, Calm
  <2>3. Line' = Line /\ (Resumable' <=> Resumable) /\ (AllRead' <=> AllRead)
    BY <2>1 DEF Line, Resumable, AllRead
  <2>4. (AtPrompt' <=> AtPrompt) /\ (OnItsWay' <=> OnItsWay) /\ (Answered' <=> Answered)
    BY <2>1, <2>3 DEF AtPrompt, OnItsWay, Answered
  <2>5. (Obeyed' <=> Obeyed) /\ (Unanswered' <=> Unanswered) /\ (Running' <=> Running)
    BY <2>1, <2>3 DEF Obeyed, Unanswered, Running
  <2>6. Ahead' = Ahead /\ (ContOK' <=> ContOK)
    BY <2>1, <2>4 DEF Ahead, ContOK
  <2>7. Session' <=> Session
    BY <2>1, <2>4, <2>5, <2>6 DEF Session
  <2> QED BY <2>1, <2>2, <2>7 DEF SessionInv, CalmInv
<1>2. CASE Next
  <2>1. TypeInv /\ StatusOK /\ TypeInv' /\ StatusOK' /\ world'.kind = world.kind
    BY <1>2, TypeNext DEF SessionInv
  <2>2. ASSUME Calm PROVE CalmInv'
    <3>1. CalmInv
      BY <2>2 DEF SessionInv
    <3>2. CASE g.pc = "closed"
      BY <1>2, <2>1, <3>1, <3>2, CalmClosed DEF CalmInv
    <3>3. CASE g.pc # "closed"
      <4>1. Session
        BY <3>1, <3>3 DEF CalmInv
      <4>2. GdbStep => CalmInv'
        BY <2>1, <3>3, <4>1, CalmAck, CalmReply, CalmReplyTimeout, CalmWait, CalmNever DEF GdbStep
      <4>3. User => CalmInv'
        <5>1. \A style \in Styles : ~Connect(style)
          BY <3>3 DEF Connect
        <5> QED BY <2>1, <2>2, <4>1, <5>1, CalmInterrupt, CalmAnswer, CalmCommand DEF User
      <4>4. ServerStep => CalmInv'
        <5>1. ~SEof /\ ~SStart
          BY <3>3 DEF SEof, SStart
        <5> QED BY <2>1, <2>2, <3>3, <4>1, <5>1, CalmChar, CalmPacket, CalmEnable, CalmMywait, CalmInput, CalmPut DEF ServerStep
      <4> QED BY <1>2, <4>2, <4>3, <4>4 DEF Next
    <3> QED BY <3>2, <3>3
  <2> QED BY <2>1, <2>2 DEF SessionInv, Calm
<1> QED BY <1>1, <1>2

LEMMA SessionInit ==
  ASSUME Init
  PROVE  SessionInv
<1>1. PICK t \in Threads : s = FreshServer(t)
  BY DEF Init
<1>2. s \in Servers /\ s.pc = "listen" /\ s.ext = FALSE /\ s.resumes = 0 /\ s.status = "T"
  BY <1>1, FreshType
<1>3. g = Closed /\ h2s = <<>> /\ s2h = <<>> /\ world \in [kind : Worlds, left : {MaxUser}]
  BY DEF Init
<1>4. world \in [kind : Worlds, left : 0..MaxUser]
  BY <1>3, SessionAssumption
<1>5. h2s \in Seq(Items) /\ s2h \in Seq(Answers)
  BY <1>3, WritesType, OutType
<1>6. TypeInv
  BY <1>2, <1>3, <1>4, <1>5, ClosedType DEF TypeInv
<1>7. StatusOK
  BY <1>2 DEF StatusOK
<1>8. CalmInv
  BY <1>3, ClosedType DEF CalmInv
<1> QED BY <1>6, <1>7, <1>8 DEF SessionInv

\* What the invariant says of types.
LEMMA TypesRight ==
  ASSUME TypeInv
  PROVE  TypeOK
<1>1. g \in Gdbs /\ s \in Servers /\ world \in [kind : Worlds, left : 0..MaxUser]
  BY DEF TypeInv
<1>2. /\ g.pc \in {"closed", "prompt", "ack", "gobble", "reply", "wait", "query"}
      /\ g.tcount \in 0..MAX_TCOUNT /\ g.tries \in 0..(MAX_TRIES - 1) /\ g.resumes \in 0..MaxResumes
      /\ {g.general, g.cont} \subseteq Recorded /\ g.inferior \in Threads \cup {MAGIC_NULL_PID}
      /\ g.known \subseteq Threads /\ {g.interrupted, g.crossed} \subseteq BOOLEAN
  BY <1>1 DEF Gdbs
<1>3. /\ s.pc \in {"listen", "getpkt", "resumed", "mywait", "ack", "gone"} /\ s.missed \in Nat
      /\ s.general \in Threads \cup {0} /\ s.cont \in Threads \cup {0, AllThreads}
      /\ {s.from_wait, s.regs} \subseteq Threads /\ s.old_from_wait \in Threads \cup {0}
      /\ s.alive \subseteq Threads /\ s.status \in {"T", "W"} /\ s.ext \in BOOLEAN
  BY <1>1 DEF Servers
<1> QED BY <1>1, <1>2, <1>3 DEF TypeOK

LEMMA QuietParts ==
  ASSUME NEW a \in Seq(Items), NEW b \in Seq(Items), Quiet(a \o b)
  PROVE  Quiet(a) /\ Quiet(b)
<1> DEFINE c == a \o b
           m == Len(a)
           n == Len(b)
<1>1. /\ m \in Nat /\ n \in Nat /\ Len(c) = m + n /\ Quiet(c)
      /\ \A i \in 1..(m + n) : c[i] = IF i <= m THEN a[i] ELSE b[i - m]
  BY ConcatProperties
<1> HIDE DEF c, m, n
<1>2. \A i \in 1..m : i \in 1..(m + n) /\ i <= m
  BY <1>1
<1>3. \A i \in 1..n : m + i \in 1..(m + n) /\ ~(m + i <= m) /\ (m + i) - m = i
  BY <1>1
<1>0. \A i \in 1..(m + n) : c[i].type # "packet"
  BY <1>1 DEF Quiet
<1>4. \A i \in 1..m : a[i].type # "packet"
  <2>1. \A i \in 1..m : c[i] = a[i]
    BY <1>1, <1>2
  <2> QED BY ONLY <1>0, <1>2, <2>1
<1>5. \A i \in 1..n : b[i].type # "packet"
  <2>1. \A i \in 1..n : c[m + i] = b[i]
    BY <1>1, <1>3
  <2> QED BY ONLY <1>0, <1>3, <2>1
<1> QED BY <1>4, <1>5 DEF Quiet, m, n

\* What it says of both sides.
LEMMA InStepRight ==
  ASSUME SessionInv
  PROVE  InStep
<1>1. TypeInv /\ (Calm => CalmInv)
  BY DEF SessionInv
<1>2. TypeOK
  BY <1>1, TypesRight
<1>3. InSync
  <2> SUFFICES ASSUME Calm, g.pc = "prompt"
               PROVE  /\ s2h = <<>>
                      /\ s.pc \in {"getpkt", "ack"}
                      /\ \A i \in 1..Len(h2s) : h2s[i].type # "packet"
                      /\ s.pc = "ack" => \E i \in 1..Len(h2s) : h2s[i] = Plus
                      /\ \A i \in 1..Len(s.buf) : s.buf[i].type # "packet"
    BY DEF InSync
  <2>1. AtPrompt
    BY <1>1 DEF CalmInv, Session, OnItsWay, Answered, Obeyed, Unanswered, Running
  <2>2. CASE s.pc = "getpkt" /\ Quiet(Line)
    <3> DEFINE b == s.buf
    <3>1. b \in Seq(Items) /\ h2s \in Seq(Items) /\ Line = b \o h2s
      BY <1>1 DEF TypeInv, Servers, Line
    <3> HIDE DEF b
    <3>2. Quiet(b) /\ Quiet(h2s)
      BY <2>2, <3>1, QuietParts
    <3> QED BY <2>1, <2>2, <3>2 DEF Quiet, AtPrompt, b
  <2>3. CASE Resumable /\ h2s = <<Plus>>
    <3>1. Len(h2s) = 1 /\ h2s[1] = Plus /\ 1 \in 1..1
      BY <2>3
    <3>2. \A i \in 1..1 : i = 1
      OBVIOUS
    <3>3. Len(s.buf) = 0 /\ s.pc = "ack"
      BY <2>3 DEF Resumable
    <3> QED BY <2>1, <3>1, <3>2, <3>3, CharTypes DEF AtPrompt
  <2> QED BY <2>1, <2>2, <2>3 DEF AtPrompt
<1>4. OwnReplies
  BY <1>1 DEF OwnReplies, CalmInv, Session
<1>5. ContSynced
  <2> SUFFICES ASSUME Calm, s.pc \in {"resumed", "mywait"}, g.pc \in {"wait", "query"} PROVE s.cont = OnWire(g.cont)
    BY DEF ContSynced
  <2>1. Session /\ Running
    BY <1>1 DEF CalmInv, Session, AtPrompt, OnItsWay, Answered, Obeyed, Unanswered, Resumable
  <2> QED BY <2>1 DEF Session, ContOK, Running, Agreed
<1> QED BY <1>2, <1>3, <1>4, <1>5 DEF InStep

\* What it says of resumptions.
LEMMA ResumesRight ==
  ASSUME SessionInv
  PROVE  CalmResumedOnce
<1> SUFFICES ASSUME Calm PROVE ResumedOnce /\ (g.pc = "prompt" => s.resumes = g.resumes)
  BY DEF CalmResumedOnce
<1>1. s.resumes \in Nat /\ g.resumes \in Nat /\ CalmInv
  BY SessionAssumption DEF SessionInv, TypeInv, Gdbs, Servers
<1>2. CASE g.pc = "closed"
  BY <1>2 DEF ResumedOnce, Open
<1>3. CASE g.pc # "closed"
  <2>1. Session /\ Counted(Ahead, s.resumes, g.resumes)
    BY <1>1, <1>3 DEF CalmInv, Session
  <2>2. s.resumes + 1 = g.resumes \/ s.resumes = g.resumes
    BY <1>1, <2>1 DEF Counted
  <2>3. ResumedOnce
    BY <1>1, <2>2 DEF ResumedOnce
  <2>4. ASSUME g.pc = "prompt" PROVE s.resumes = g.resumes
    <3>1. AtPrompt
      BY <2>1, <2>4 DEF Session, OnItsWay, Answered, Obeyed, Unanswered, Running
    <3>2. Ahead = <<>>
      BY <2>4, <3>1 DEF Ahead, OnItsWay, AtPrompt
    <3>3. ~EndsWith(<<>>, "c")
      BY DEF EndsWith
    <3>4. Counted(<<>>, s.resumes, g.resumes)
      BY <2>1, <3>2
    <3> QED BY <1>1, <3>3, <3>4 DEF Counted
  <2> QED BY <2>3, <2>4
<1> QED BY <1>2, <1>3

\* GDB and gdbserver stay in step in every calm session, for any threads, any number of retries and
\* resumptions, and any sequence of connections, commands, interrupts and restarts: putpkt, getpkt
\* and set_thread of remote.c against main's loop of server.c.
THEOREM SessionsInStep == Spec => []InStep
<1>1. Init => SessionInv
  BY SessionInit
<1>2. SessionInv /\ [Next]_vars => SessionInv'
  BY SessionNext
<1>3. SessionInv => InStep
  BY InStepRight
<1> QED BY <1>1, <1>2, <1>3, PTL DEF Spec

\* In a calm session gdbserver resumes its child once for each time that remote_resume told it to,
\* whatever was sent before, and has done so when GDB is at its prompt.
THEOREM ResumedAsTold == Spec => []CalmResumedOnce
<1>1. Init => SessionInv
  BY SessionInit
<1>2. SessionInv /\ [Next]_vars => SessionInv'
  BY SessionNext
<1>3. SessionInv => CalmResumedOnce
  BY ResumesRight
<1> QED BY <1>1, <1>2, <1>3, PTL DEF Spec

=============================================================================
