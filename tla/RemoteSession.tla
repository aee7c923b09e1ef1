---------------------------- MODULE RemoteSession ----------------------------
(***************************************************************************)
(* Sessions of GDB with gdbserver: connecting, resuming, waiting, ^C,      *)
(* threads, registers, killing, running again and leaving (gdb/remote.c,   *)
(* gdb/gdbserver/server.c, remote-utils.c and low-lynx.c).                 *)
(*                                                                         *)
(* The line is reliable here and carries whole packets, '+', '-' and ^C;   *)
(* module RemoteLink looks at characters and at what the line does to      *)
(* them.  What remains is the order in which the two sides write and read. *)
(* A GDB command is a list of packets to send, each with what GDB does     *)
(* after the '+': read a reply, wait for the target to stop, or nothing.   *)
(*                                                                         *)
(* In a "calm" world a ^C is sent when gdbserver listens for it, one at a  *)
(* time, and reaches it before the target stops by itself, and nobody      *)
(* gives up an extended session; in a "racing" world none of this is so.   *)
(***************************************************************************)
EXTENDS Integers, Sequences, FiniteSets

CONSTANTS
  Threads,     \* thread identifiers, positive numbers
  Worlds,      \* the worlds of the runs: "calm", "racing"
  Styles,      \* kinds of session that are opened: "plain", "extended"
  MAX_TCOUNT,  \* timeouts after which putpkt gives up
  MAX_TRIES,   \* timeouts after which getpkt gives up
  MaxResumes,  \* bound on the resumptions in a session
  MaxUser,     \* bound on what the user does in a racing world
  MaxLine      \* bound on what is on the line when GDB sends a ^C or times out

ASSUME SessionAssumption ==
  /\ Threads \subseteq Nat \ {0} /\ Threads # {}
  /\ Worlds \subseteq {"calm", "racing"} /\ Styles \subseteq {"plain", "extended"}
  /\ MAX_TCOUNT \in Nat /\ MAX_TRIES \in Nat \ {0} /\ {MaxResumes, MaxUser, MaxLine} \subseteq Nat

VARIABLES
  g,     \* GDB
  s,     \* gdbserver and its child
  h2s,   \* the line from GDB to gdbserver
  s2h,   \* the line from gdbserver to GDB
  world  \* the world of this behaviour and what the user may still do in a racing one

vars == <<g, s, h2s, s2h, world>>

NotSent == -2             \* general_thread and cont_thread before the first H packet
AllThreads == -1
MAGIC_NULL_PID == 42000   \* inferior_pid before a thread is known; no thread has it
\* Mutant of OnWire: the marker of an unknown thread is sent as if it were one.
OnWireAsIs(th) == th

\* The number set_thread sends for a thread.
OnWire(th) == IF th = MAGIC_NULL_PID THEN 0 ELSE th

\* Packets of GDB: a command and what GDB does when it is acknowledged.
Cmd(cmd, arg, then) == [type |-> "packet", cmd |-> cmd, arg |-> arg, then |-> then]
\* Packets of gdbserver; "to" is the command it is an answer to, which neither side sees.
Reply(to, what, arg) == [type |-> "packet", to |-> to, what |-> what, arg |-> arg]
Char(c) == [type |-> c]
Plus == Char("+")
Minus == Char("-")
Break == Char("^C")
Junk == Char("junk")       \* a packet that has lost its '$'

NoCmd == Cmd("none", 0, "none")
NoReply == Reply("none", "none", 0)

Closed ==
  [pc |-> "closed", todo |-> <<>>, cur |-> NoCmd, tcount |-> 0, tries |-> 0, style |-> "plain",
   general |-> NotSent, cont |-> NotSent, inferior |-> MAGIC_NULL_PID, known |-> {},
   interrupted |-> FALSE, crossed |-> FALSE, resumes |-> 0]

FreshServer(t) ==
  [pc |-> "listen", ext |-> FALSE, general |-> 0, cont |-> 0, from_wait |-> t,
   old_from_wait |-> 0, status |-> "T", alive |-> {t}, regs |-> t, sigint |-> FALSE,
   missed |-> 0, buf |-> <<>>, reply |-> NoReply, resumes |-> 0]

Init ==
  /\ g = Closed /\ h2s = <<>> /\ s2h = <<>>
  /\ world \in [kind : Worlds, left : {MaxUser}]
  /\ \E t \in Threads : s = FreshServer(t)

-----------------------------------------------------------------------------
(* GDB: putpkt and getpkt.  An outcome is the new state and what is        *)
(* written.                                                                *)

\* The next packet of the command is written and putpkt waits for '+'; or the prompt.
Go(st) ==
  IF st.todo = <<>>
    THEN [g |-> [st EXCEPT !.pc = "prompt", !.cur = NoCmd, !.tcount = 0, !.tries = 0],
          out |-> <<>>]
    ELSE [g |-> [st EXCEPT !.pc = "ack", !.cur = Head(st.todo), !.todo = Tail(@),
                           !.tcount = 0, !.tries = 0],
          out |-> <<Head(st.todo)>>]

\* putpkt has returned: the caller reads the reply, waits for a stop, mourns the target
\* it has killed, or goes on.
Sent(st) ==
  CASE st.cur.then = "reply" ->
         [g |-> [st EXCEPT !.pc = "reply", !.tcount = 0, !.tries = 0], out |-> <<>>]
    [] st.cur.then = "wait" ->
         [g |-> [st EXCEPT !.pc = "wait", !.tcount = 0, !.tries = 0, !.interrupted = FALSE],
          out |-> <<>>]
    [] st.cur.then = "close" -> [g |-> Closed, out |-> <<>>]
    [] OTHER -> Go(st)

\* What is written for a gdbserver that has exited goes nowhere.
Onto(out) == IF s.pc = "gone" THEN <<>> ELSE h2s \o out

\* GDB takes the next thing that gdbserver has sent; what is on the line to a closed
\* connection is gone.
Becomes(o) ==
  /\ g' = o.g /\ h2s' = Onto(o.out)
  /\ s2h' = IF o.g.pc = "closed" \/ s2h = <<>> THEN <<>> ELSE Tail(s2h)
  /\ UNCHANGED <<s, world>>

\* putpkt reads one thing.  For a packet it calls getpkt to drop it, but the '$' is
\* already read, so that getpkt looks for the next one.
GdbAck ==
  /\ g.pc = "ack" /\ s2h # <<>>
  /\ Becomes(IF Head(s2h) = Plus THEN Sent(g)
             ELSE [g |-> [g EXCEPT !.pc = "gobble", !.tries = 0], out |-> <<>>])

\* Nothing is going to come from gdbserver, and a timeout has room on the line.
Silence ==
  /\ s2h = <<>> /\ Len(h2s) < MaxLine
  /\ \/ s.pc = "getpkt" /\ h2s = <<>> /\ s.buf = <<>>
     \/ s.pc = "ack" /\ h2s = <<>>
     \/ s.pc = "mywait"

\* putpkt sends the packet again, or gives up, which no caller looks at.
GdbAckTimeout ==
  /\ g.pc = "ack" /\ Silence
  /\ Becomes(IF g.tcount < MAX_TCOUNT
               THEN [g |-> [g EXCEPT !.tcount = @ + 1], out |-> <<g.cur>>]
               ELSE Sent(g))

\* The getpkt that putpkt has called to drop an old packet.
GdbGobble ==
  /\ g.pc = "gobble" /\ s2h # <<>>
  /\ Becomes(IF Head(s2h) = Plus THEN [g |-> g, out |-> <<>>]
             ELSE [g |-> [g EXCEPT !.pc = "ack", !.tries = 0], out |-> <<Plus>>])

GdbGobbleTimeout ==
  /\ g.pc = "gobble" /\ Silence
  /\ Becomes(IF g.tries + 1 < MAX_TRIES
               THEN [g |-> [g EXCEPT !.tries = @ + 1], out |-> <<Minus>>]
               ELSE [g |-> [g EXCEPT !.pc = "ack", !.tries = 0], out |-> <<Minus, Plus>>])

-----------------------------------------------------------------------------
(* GDB: what it does with replies.                                         *)

\* set_thread records the thread whatever the reply says; thread_command switches to a
\* thread that is alive.
TakeReply(st, what) ==
  CASE st.cur.cmd = "Hg" -> [st EXCEPT !.general = st.cur.arg]
    [] st.cur.cmd = "Hc" -> [st EXCEPT !.cont = st.cur.arg]
    [] st.cur.cmd = "T" /\ what = "ok" -> [st EXCEPT !.inferior = st.cur.arg]
    [] OTHER -> st

\* remote_fetch_registers reads on until it gets registers; remote_detach pops the
\* target whatever the reply says; the others go on.
AfterReply(st, what) ==
  CASE st.cur.cmd = "g" /\ what # "regs" -> [g |-> [st EXCEPT !.tries = 0], out |-> <<>>]
    [] st.cur.cmd = "D" -> [g |-> Closed, out |-> <<>>]
    [] OTHER -> Go(TakeReply(st, what))

\* An outcome that is preceded by a '+'.
Acked(o) == [o EXCEPT !.out = <<Plus>> \o @]

\* getpkt (buf, 0) for the reply of a command; what is not a packet is skipped.
GdbReply ==
  /\ g.pc = "reply" /\ s2h # <<>>
  /\ LET r == Head(s2h) IN
     Becomes(IF r = Plus THEN [g |-> g, out |-> <<>>]
             ELSE Acked(AfterReply([g EXCEPT !.crossed = @ \/ r.to # g.cur.cmd], r.what)))

\* Mutant of GdbReplyTimeout: getpkt never gives up.
GdbReplyTimeoutNever ==
  /\ g.pc = "reply" /\ Silence
  /\ Becomes([g |-> g, out |-> <<Minus>>])

\* After MAX_TRIES timeouts the caller is left with the text "timeout".
GdbReplyTimeout ==
  /\ g.pc = "reply" /\ Silence
  /\ Becomes(IF g.tries + 1 < MAX_TRIES
               THEN [g |-> [g EXCEPT !.tries = @ + 1], out |-> <<Minus>>]
               ELSE LET o == AfterReply(g, "timeout") IN
                    [o EXCEPT !.out = <<Minus, Plus>> \o @])

\* Mutant of Stopped: record_currthread also says that the thread may be resumed alone.
StoppedRecordsCont(st, t) ==
  IF t = 0 THEN st
  ELSE [st EXCEPT !.general = t, !.cont = t, !.known = @ \cup {t}, !.inferior = t]

\* remote_wait has a stop: a thread in it is recorded (record_currthread), and
\* wait_for_inferior switches to it.
Stopped(st, t) ==
  IF t = 0 THEN st
  ELSE [st EXCEPT !.general = t, !.known = @ \cup {t}, !.inferior = t]

\* The target has exited: it is mourned, which an extended session does not notice.
Exited(st) ==
  IF st.style = "plain" THEN [g |-> Closed, out |-> <<>>] ELSE Go(st)

\* getpkt (buf, 1) in remote_wait, and what follows it.
GdbWait ==
  /\ g.pc = "wait" /\ s2h # <<>>
  /\ LET r == Head(s2h)
         n == [g EXCEPT !.crossed = @ \/ r.to # g.cur.cmd]
     IN  Becomes(CASE r = Plus -> [g |-> g, out |-> <<>>]
                   [] r # Plus /\ r.what = "stop" -> Acked(Go(Stopped(n, r.arg)))
                   [] r # Plus /\ r.what = "exit" -> Acked(Exited(n))
                   [] OTHER -> Acked([g |-> [n EXCEPT !.interrupted = FALSE], out |-> <<>>]))

\* readchar meets the end of the connection: an error, which remote_kill catches.
GdbEof ==
  /\ g.pc \in {"ack", "gobble", "reply", "wait"} /\ s.pc = "gone" /\ s2h = <<>>
  /\ Becomes([g |-> IF g.cur.then = "close" THEN Closed ELSE Go([g EXCEPT !.todo = <<>>]).g,
              out |-> <<>>])

-----------------------------------------------------------------------------
(* GDB: ^C while it waits for the target.                                  *)

\* The user acts, which is bounded in a racing world.
Acts ==
  IF world.kind = "calm" THEN UNCHANGED world
  ELSE world.left > 0 /\ world' = [world EXCEPT !.left = @ - 1]

\* remote_stop: the first ^C is passed on; a second one asks the user.
Interrupt ==
  /\ g.pc = "wait"
  /\ IF g.interrupted
       THEN g' = [g EXCEPT !.pc = "query"] /\ UNCHANGED h2s
       ELSE /\ world.kind = "calm" => s2h = <<>> /\ h2s = <<>> /\ s.pc \notin {"ack", "resumed"}
            /\ Len(h2s) < MaxLine
            /\ h2s' = Append(h2s, Break)
            /\ g' = [g EXCEPT !.interrupted = TRUE]
  /\ Acts /\ UNCHANGED <<s, s2h>>

\* Mutant of Answer: giving up does not mourn the target.
AnswerKeeps ==
  /\ g.pc = "query"
  /\ \/ g' = [g EXCEPT !.pc = "wait", !.interrupted = FALSE]
     \/ g' = Go([g EXCEPT !.todo = <<>>]).g
  /\ Acts /\ UNCHANGED <<s, h2s, s2h>>

\* interrupt_query: go on waiting, in which case the next ^C is passed on again, or mourn
\* the target and return to the top level.
Answer ==
  /\ g.pc = "query"
  /\ \/ g' = [g EXCEPT !.pc = "wait", !.interrupted = FALSE] /\ UNCHANGED s2h
     \/ g.style = "plain" /\ g' = Closed /\ s2h' = <<>>
     \/ /\ g.style = "extended" /\ world.kind = "racing"
        /\ g' = Go([g EXCEPT !.todo = <<>>]).g /\ UNCHANGED s2h
  /\ Acts /\ UNCHANGED <<s, h2s>>

-----------------------------------------------------------------------------
(* GDB: commands of the user.                                              *)

\* The list of packets is sent.
Start(st, todo) ==
  LET o == Go([st EXCEPT !.todo = todo, !.interrupted = FALSE]) IN
  /\ g' = o.g /\ h2s' = Onto(o.out)
  /\ Acts /\ UNCHANGED <<s, s2h>>

\* The packet of set_thread, if it sends one.
SetThread(cmd, current, th) ==
  IF current = th THEN <<>> ELSE <<Cmd(cmd, th, "reply")>>

\* The variables that remote_open_1 resets.
OpenState(style) == [Closed EXCEPT !.pc = "prompt", !.style = style]

\* remote_open_1 and remote_start_remote, with the first remote_wait in start_remote.
Connect(style) ==
  /\ g.pc = "closed" /\ s.pc = "listen"
  /\ LET o == Go([OpenState(style) EXCEPT
                    !.todo = SetThread("Hc", OpenState(style).cont, AllThreads)
                             \o <<Cmd("qC", 0, "reply"), Cmd("qOffsets", 0, "reply"),
                                  Cmd("?", 0, "wait")>>
                             \o IF style = "extended" THEN <<Cmd("!", 0, "reply")>> ELSE <<>>])
     IN  /\ g' = o.g /\ h2s' = <<Plus>> \o o.out
  /\ s' = [s EXCEPT !.pc = "getpkt", !.buf = <<>>]
  /\ Acts /\ UNCHANGED s2h

\* remote_resume and remote_wait; th is 0 for all threads or, with scheduler-locking, the
\* current one.
Continue ==
  /\ g.pc = "prompt" /\ g.resumes < MaxResumes
  /\ \E th \in {0, g.inferior} :
       Start([g EXCEPT !.resumes = @ + 1],
             Append(SetThread("Hc", g.cont, th), Cmd("c", 0, "wait")))

\* thread_command on a thread of the list.
Thread ==
  /\ g.pc = "prompt"
  /\ \E t \in g.known \ {g.inferior} : Start(g, <<Cmd("T", t, "reply")>>)

\* remote_fetch_registers.
Fetch ==
  /\ g.pc = "prompt"
  /\ Start(g, Append(SetThread("Hg", g.general, g.inferior), Cmd("g", 0, "reply")))

\* remote_kill and, but for an extended session, the mourning.
Kill ==
  /\ g.pc = "prompt"
  /\ Start(g, <<Cmd("k", 0, IF g.style = "plain" THEN "close" ELSE "none")>>)

\* extended_remote_create_inferior.
Run ==
  /\ g.pc = "prompt" /\ g.style = "extended" /\ g.resumes < MaxResumes
  /\ Start([g EXCEPT !.resumes = @ + 1],
           <<Cmd("R", 0, "none"), Cmd("?", 0, "reply")>> \o SetThread("Hc", g.cont, 0)
           \o <<Cmd("c", 0, "wait")>>)

\* remote_detach.
Detach == g.pc = "prompt" /\ Start(g, <<Cmd("D", 0, "reply")>>)

-----------------------------------------------------------------------------
(* gdbserver.                                                              *)

\* A write of gdbserver; the connection may be closed.
Says(out) == s2h' = IF g.pc = "closed" THEN <<>> ELSE s2h \o out

\* The thread whose registers fetch_inferior_registers reads; thread 0 is the one that
\* stopped.  For a thread that is no more ptrace fails, and perror_with_name jumps to the
\* top of main's loop, with no reply sent.
RegsOf(st) == IF st.general = 0 THEN st.from_wait ELSE st.general
Fetchable(st) == RegsOf(st) \in st.alive

\* start_inferior, up to the first stop, in thread t.  When the registers cannot be
\* fetched the status is still the old one.
StartChild(st, t) ==
  LET n == [st EXCEPT !.pc = "getpkt", !.alive = {t}, !.from_wait = t, !.sigint = FALSE] IN
  IF Fetchable(n) THEN [n EXCEPT !.status = "T", !.regs = RegsOf(n)] ELSE n

\* main's loop puts the reply to cmd.
PutReply(st, cmd, what, arg) ==
  [st EXCEPT !.pc = "ack", !.reply = Reply(cmd, what, arg)]

\* prepare_resume_reply: the thread is in it when GDB has used threads and this one was
\* not the last to be reported.
PutResumeReply(st, cmd) ==
  IF st.status = "T" /\ st.cont # 0 /\ st.old_from_wait # st.from_wait
    THEN PutReply([st EXCEPT !.old_from_wait = st.from_wait], cmd, "stop", st.from_wait)
    ELSE PutReply(st, cmd, IF st.status = "T" THEN "stop" ELSE "exit", 0)

\* The states in which the switch of main can leave gdbserver for packet p: "ack" when
\* there is a reply to put, "getpkt" when it went back for the next packet without one,
\* "resumed" when the child runs and mywait has still to be called.
Execute(st, p) ==
  LET general == [st EXCEPT !.general = OnWire(p.arg)] IN
  CASE p.cmd = "!" -> {PutResumeReply([st EXCEPT !.ext = TRUE], "!")}
    [] p.cmd = "?" -> {PutResumeReply(st, "?")}
    [] p.cmd = "Hg" ->
         {IF Fetchable(general)
            THEN PutReply([general EXCEPT !.regs = RegsOf(general)], "Hg", "ok", 0) ELSE general}
    [] p.cmd = "Hc" -> {PutReply([st EXCEPT !.cont = OnWire(p.arg)], "Hc", "ok", 0)}
    [] p.cmd = "g" -> {PutReply(st, "g", "regs", st.regs)}
    [] p.cmd = "c" ->
         {IF st.cont \in {0, AllThreads} \cup st.alive
            THEN [st EXCEPT !.pc = "resumed", !.resumes = @ + 1]
            ELSE [st EXCEPT !.resumes = @ + 1]}
    [] p.cmd = "k" /\ ~st.ext -> {[st EXCEPT !.pc = "gone", !.buf = <<>>]}
    [] p.cmd \in {"k", "R"} /\ st.ext -> {StartChild(st, t) : t \in Threads}
    [] p.cmd = "T" -> {PutReply(st, "T", IF p.arg \in st.alive THEN "ok" ELSE "error", 0)}
    [] OTHER -> {PutReply(st, p.cmd, "empty", 0)}

\* readchar: what is in its buffer, or what a read of the line brings, which is some of
\* what is on it.
Reads ==
  IF s.buf # <<>> THEN {[buf |-> s.buf, line |-> h2s]}
  ELSE {[buf |-> SubSeq(h2s, 1, k), line |-> SubSeq(h2s, k + 1, Len(h2s))] : k \in 1..Len(h2s)}

\* getpkt takes the next thing that was sent.  A packet is acknowledged and executed.
SRead ==
  /\ s.pc = "getpkt"
  /\ \E r \in Reads :
       LET st == [s EXCEPT !.buf = Tail(r.buf)] IN
       IF Head(r.buf).type # "packet" THEN s' = st /\ h2s' = r.line /\ UNCHANGED s2h
       ELSE \E n \in Execute(st, Head(r.buf)) :
              /\ s' = n
              /\ h2s' = IF n.pc = "gone" THEN <<>> ELSE r.line
              /\ Says(IF n.pc = "ack" THEN <<Plus, n.reply>> ELSE <<Plus>>)
  /\ UNCHANGED <<g, world>>

\* enable_async_io.  A SIGIO comes when input arrives, and until here it is ignored: the
\* first k things on the line have arrived by now and are not heard of; the others will be.
SEnableIO ==
  /\ s.pc = "resumed"
  /\ \E k \in 0..Len(h2s) : s' = [s EXCEPT !.pc = "mywait", !.missed = k]
  /\ UNCHANGED <<g, h2s, s2h, world>>

\* SIGIO is ignored again.
Deaf == [s EXCEPT !.sigint = FALSE, !.missed = 0]

\* wait and disable_async_io.  The child stops in thread t, and the threads are now
\* "alive"; or it exits.  In a calm world a ^C that was sent is seen first.
SMywait ==
  /\ s.pc = "mywait" /\ (world.kind = "calm" => h2s = <<>>)
  /\ \/ \E alive \in SUBSET Threads : \E t \in alive :
          LET n == [Deaf EXCEPT !.alive = alive, !.from_wait = t] IN
          s' = IF Fetchable(n)
                 THEN PutResumeReply([n EXCEPT !.status = "T", !.regs = RegsOf(n)], "c")
                 ELSE [n EXCEPT !.pc = "getpkt"]
     \/ s' = PutResumeReply([Deaf EXCEPT !.alive = {}, !.status = "W"], "c")
  /\ Says(IF s'.pc = "ack" THEN <<s'.reply>> ELSE <<>>)
  /\ UNCHANGED <<g, h2s, world>>

\* Mutant of SInput: the ^C is read, and not passed to the child.
SInputDrops ==
  /\ s.pc = "mywait" /\ s.missed < Len(h2s)
  /\ h2s' = (IF Head(h2s).type = "packet" THEN <<Junk>> ELSE <<>>) \o Tail(h2s)
  /\ \E k \in s.missed..Len(h2s') : s' = [s EXCEPT !.missed = k]
  /\ UNCHANGED <<g, s2h, world>>

\* input_interrupt, on a SIGIO in mywait: one character is read, whichever it is that the
\* SIGIO was for, and a ^C is passed to the child.  A packet loses its '$'.  The SIGIOs of
\* things that arrive close together are one.
SInput ==
  /\ s.pc = "mywait" /\ s.missed < Len(h2s)
  /\ h2s' = (IF Head(h2s).type = "packet" THEN <<Junk>> ELSE <<>>) \o Tail(h2s)
  /\ \E k \in s.missed..Len(h2s') :
       s' = [s EXCEPT !.sigint = @ \/ Head(h2s) = Break, !.missed = k]
  /\ UNCHANGED <<g, s2h, world>>

\* main's loop after putpkt: when the child has exited, a new one, or the end.
AfterPut(st) ==
  IF st.status = "T" THEN {[st EXCEPT !.pc = "getpkt", !.reply = NoReply]}
  ELSE IF st.ext THEN {[StartChild(st, t) EXCEPT !.reply = NoReply] : t \in Threads}
  ELSE {[st EXCEPT !.pc = "gone", !.reply = NoReply, !.buf = <<>>]}

\* putpkt returns when the character it reads, not through readchar's buffer, is a '+', or
\* the connection is closed.  For any other it sends the reply again.
SAck ==
  /\ s.pc = "ack"
  /\ \/ /\ h2s # <<>> /\ Head(h2s) = Plus
        /\ s' \in AfterPut(s)
        /\ h2s' = IF s'.pc = "gone" THEN <<>> ELSE Tail(h2s)
        /\ UNCHANGED s2h
     \/ /\ h2s = <<>> /\ g.pc = "closed"
        /\ s' \in AfterPut(s)
        /\ UNCHANGED <<h2s, s2h>>
     \/ /\ h2s # <<>> /\ Head(h2s) # Plus
        /\ h2s' = (IF Head(h2s).type = "packet" THEN <<Junk>> ELSE <<>>) \o Tail(h2s)
        /\ Says(<<s.reply>>)
        /\ UNCHANGED s
  /\ UNCHANGED <<g, world>>

\* getpkt fails at the end of the connection: an extended gdbserver exits, another waits
\* for the next connection.
SEof ==
  /\ s.pc = "getpkt" /\ g.pc = "closed" /\ h2s = <<>> /\ s.buf = <<>>
  /\ s' = [s EXCEPT !.pc = IF s.ext THEN "gone" ELSE "listen", !.resumes = 0]
  /\ UNCHANGED <<g, h2s, s2h, world>>

\* The user starts gdbserver again.
SStart ==
  /\ s.pc = "gone" /\ g.pc = "closed"
  /\ \E t \in Threads : s' = FreshServer(t)
  /\ UNCHANGED <<g, h2s, s2h, world>>

-----------------------------------------------------------------------------
GdbStep ==
  \/ GdbAck \/ GdbAckTimeout \/ GdbGobble \/ GdbGobbleTimeout
  \/ GdbReply \/ GdbReplyTimeout \/ GdbWait \/ GdbEof

User ==
  \/ Interrupt \/ Answer \/ \E style \in Styles : Connect(style)
  \/ Continue \/ Thread \/ Fetch \/ Kill \/ Run \/ Detach

ServerStep == SRead \/ SEnableIO \/ SMywait \/ SInput \/ SAck \/ SEof \/ SStart

Next == GdbStep \/ User \/ ServerStep

Spec == Init /\ [][Next]_vars

\* Both programs run, and a child that has been sent a SIGINT stops; a child that has not
\* may run for ever, and the user may do nothing.
FairSpec ==
  Spec /\ WF_vars(GdbStep) /\ WF_vars(SRead) /\ WF_vars(SAck) /\ WF_vars(SEnableIO)
       /\ WF_vars(SInput) /\ WF_vars(s.sigint /\ SMywait)

-----------------------------------------------------------------------------
(* Properties.                                                             *)

Calm == world.kind = "calm"
Open == g.pc # "closed"
Recorded == Threads \cup {0, MAGIC_NULL_PID, AllThreads, NotSent}

\* The records stay what remote.c's and server.c's variables can be: in particular the
\* threads that GDB takes for current, and those it believes it has sent, are threads.
TypeOK ==
  /\ g.pc \in {"closed", "prompt", "ack", "gobble", "reply", "wait", "query"}
  /\ g.tcount \in 0..MAX_TCOUNT /\ g.tries \in 0..(MAX_TRIES - 1) /\ g.resumes \in 0..MaxResumes
  /\ {g.general, g.cont} \subseteq Recorded /\ g.inferior \in Threads \cup {MAGIC_NULL_PID}
  /\ g.known \subseteq Threads /\ {g.interrupted, g.crossed} \subseteq BOOLEAN
  /\ s.pc \in {"listen", "getpkt", "resumed", "mywait", "ack", "gone"} /\ s.missed \in Nat
  /\ s.general \in Threads \cup {0} /\ s.cont \in Threads \cup {0, AllThreads}
  /\ {s.from_wait, s.regs} \subseteq Threads /\ s.old_from_wait \in Threads \cup {0}
  /\ s.alive \subseteq Threads /\ s.status \in {"T", "W"} /\ s.ext \in BOOLEAN
  /\ world.kind \in Worlds /\ world.left \in 0..MaxUser

\* At every prompt of a calm world nothing is on its way to GDB, no packet is on its way
\* to gdbserver, and a gdbserver that waits for a '+' is going to get it: the next command
\* of remote.c begins with both sides in step, whatever was killed, run again, detached,
\* interrupted or given up before it.
InSync ==
  Calm /\ g.pc = "prompt" =>
    /\ s2h = <<>>
    /\ s.pc \in {"getpkt", "ack"}
    /\ \A i \in 1..Len(h2s) : h2s[i].type # "packet"
    /\ s.pc = "ack" => \E i \in 1..Len(h2s) : h2s[i] = Plus
    /\ \A i \in 1..Len(s.buf) : s.buf[i].type # "packet"

\* In a calm world every reply that remote.c takes for the answer to a command is
\* gdbserver's answer to that command, also after commands that get no answer: 'k', 'R',
\* and the 'H' for a thread that has died.
OwnReplies == Calm => ~g.crossed

\* In a calm world cont_thread of remote.c, once sent, is cont_thread of gdbserver when the
\* target is resumed, across new connections, restarted children and new gdbservers.
ContSynced ==
  Calm /\ s.pc \in {"resumed", "mywait"} /\ g.pc \in {"wait", "query"} =>
    s.cont = OnWire(g.cont)

\* GDB and gdbserver are in step: about packets, about answers and about the thread that
\* runs (putpkt, getpkt, set_thread and gdbserver's main loop).
InStep == TypeOK /\ InSync /\ OwnReplies /\ ContSynced

\* gdbserver resumes its child once for each time that remote_resume told it to.
ResumedOnce == Open => s.resumes <= g.resumes

\* In a calm world it does, and at the prompt every resumption has taken place.
CalmResumedOnce ==
  Calm => ResumedOnce /\ (g.pc = "prompt" => s.resumes = g.resumes)

\* When remote_fetch_registers would send no 'H' packet, because general_thread is what
\* was last sent, the registers that gdbserver holds are those of the current thread.
RegistersRight ==
  g.pc = "prompt" /\ g.inferior \in Threads /\ g.general = g.inferior => s.regs = g.inferior

\* ptrace can work on the threads gdbserver has been told to use.
ThreadsUsable == Fetchable(s) /\ s.cont \in {0, AllThreads} \cup s.alive

\* The next character that gdbserver's SIGIO handler is going to read is a ^C, or it was.
BreakHeard ==
  s.pc = "mywait" /\ (s.sigint \/ (s.missed < Len(h2s) /\ Head(h2s) = Break))

\* A ^C that gdbserver hears of ends remote_wait in every world, with stale replies and
\* retransmitted packets on the line, unless gdbserver has been told to use a thread that
\* has died.  In a calm world gdbserver hears of each one that is sent to a running target.
InterruptStops ==
  /\ (g.pc = "wait" /\ BreakHeard) ~> (g.pc # "wait" \/ ~Fetchable(s))
  /\ (Calm /\ g.pc = "wait" /\ g.interrupted) ~> (g.pc # "wait" \/ ~ThreadsUsable)

\* The comment on remote_stop: "Send ^C to target to halt it.  Target will respond, and send
\* us a packet."
TargetWillRespond ==
  (g.pc = "wait" /\ g.interrupted) ~> (g.pc # "wait" \/ ~ThreadsUsable)

\* In a calm world GDB is never left in putpkt or in getpkt for a reply: the command ends
\* or the target runs.
CommandsEnd ==
  (Calm /\ g.pc \in {"ack", "gobble", "reply"}) ~> (g.pc \in {"prompt", "closed", "wait"})
=============================================================================
