------------------------------ MODULE MakeJobs ------------------------------
(***************************************************************************)
(* How GNU make runs its jobs (make/job.c), with the walk over the goals   *)
(* and their dependencies that starts them (make/remake.c), the handler of *)
(* fatal signals (make/commands.c) and the exit (die in make/main.c).      *)
(*                                                                         *)
(* The processes of the commands run by themselves.  make's own code runs  *)
(* in small steps, one for each piece during which neither a signal nor    *)
(* the end of a process makes a difference; "stack" has the calls that are *)
(* active, the innermost first.                                            *)
(*                                                                         *)
(* Every target has to be made (none exists), has one rule and is neither  *)
(* double-colon nor intermediate; all processes are local.                 *)
(***************************************************************************)
EXTENDS Integers, Sequences, SequencesExt, FiniteSets

CONSTANTS
  Files,       \* the targets
  Deps,        \* the dependencies of each, in order
  Goals,       \* the goals, in order
  Lines,       \* how many commands that are not empty each may have
  NoError,     \* the targets whose commands are marked with `-'
  Options,     \* the options make may be given, and what may happen to it
  MaxSignals   \* how many fatal signals make may get

\* job_slots is 0 without a limit.  "load": -l is given, and the load may be too high;
\* "forks": vfork may fail.  update_file_1 has dropped circular dependencies, so that
\* each target can be given a depth below those that depend on it; and only targets that
\* the goals need are considered.
ASSUME MakeJobsAssumption ==
  /\ IsFiniteSet(Files)
  /\ \E depth \in [Files -> 0..Cardinality(Files)] :
       \A f \in Files : \A i \in DOMAIN Deps[f] : depth[f] < depth[Deps[f][i]]
  /\ \A f \in Files : f \in ToSet(Goals) \/ \E g \in Files : f \in ToSet(Deps[g])
  /\ Deps \in [Files -> Seq(Files)] /\ Goals \in Seq(Files) /\ NoError \subseteq Files
  /\ Lines \in [Files -> SUBSET Nat] /\ MaxSignals \in Nat
  /\ Options \subseteq [job_slots : Nat, keep_going_flag : BOOLEAN, load : BOOLEAN, forks : BOOLEAN]

VARIABLES
  m,           \* make's files and lists of children
  proc,        \* the process of each file's command, as the system knows it
  dead,        \* dead_children
  stack,       \* the active calls
  dying,       \* die was called
  handling,    \* handling_fatal_signal
  signals,     \* how many fatal signals came
  exit,        \* how make ended
  lost,        \* the files of which a command failed, unmarked, or could not be started
  opts         \* the options

vars == <<m, proc, dead, stack, dying, handling, signals, exit, lost, opts>>

Zombies == {f \in Files : proc[f] \in {"won", "lost"}}
Live == {f \in Files : proc[f] = "run"}
Chain == ToSet(m.children)

-----------------------------------------------------------------------------
(* The frames of the calls *)

GoalsCall == [fn |-> "update_goal_chain", pc |-> "start", goals |-> Goals, i |-> 1, status |-> 0]
UpdateCall(f) ==
  [fn |-> "update_file_1", pc |-> "dep", file |-> f, d |-> 1, dep_status |-> 0, running |-> FALSE]
JobCall(f) == [fn |-> "new_job", pc |-> "waiting", file |-> f]
WaitingCall == [fn |-> "start_waiting_jobs", pc |-> "reap"]
ReapCall(block, err) ==
  [fn |-> "reap_children", pc |-> "test", block |-> block, err |-> err, pid |-> "none", failed |-> FALSE]
DieCall(status) == [fn |-> "die", err |-> status # 0, status |-> status]
SignalCall == [fn |-> "fatal_error_signal"]

Top == Head(stack)
Running(fn) == exit = "no" /\ Top.fn = fn
Push(frame) == stack' = <<frame>> \o stack
\* The innermost call goes on as "frame", after it has called "called".
Call(frame, called) == stack' = <<called, frame>> \o Tail(stack)
Goto(frame) == stack' = <<frame>> \o Tail(stack)
Return == stack' = Tail(stack)

Init ==
  /\ \E left \in [Files -> Nat \cap UNION {Lines[f] : f \in Files}] :
       /\ \A f \in Files : left[f] \in Lines[f]
       /\ m = [file |-> [f \in Files |-> [command_state |-> "cs_not_started", update_status |-> 0,
                                          left |-> left[f], good_stdin |-> FALSE]],
               children |-> <<>>, waiting_jobs |-> <<>>, job_slots_used |-> 0,
               good_stdin_used |-> FALSE]
  /\ proc = [f \in Files |-> "none"] /\ dead = 0 /\ stack = <<GoalsCall>>
  /\ dying = FALSE /\ handling = FALSE /\ signals = 0 /\ exit = "no" /\ lost = {}
  /\ opts \in Options

\* notice_finished_file, for a file whose update_status is given
Finished(x, f, status) ==
  [x EXCEPT !.file[f].command_state = "cs_finished", !.file[f].update_status = status]

-----------------------------------------------------------------------------
(* Processes.  The end of one makes the system send a SIGCHLD.  The count  *)
(* that child_handler makes is lost if it comes in the middle of           *)
(* reap_children's decrement, and not made twice for two signals that are  *)
(* pending together.  A signal may interrupt the wait.                     *)

child_handler(f) ==
  /\ dead' \in {dead + 1} \cup
       (IF Zombies # {} \/ (Top.fn = "reap_children" /\ Top.pc = "decrement") THEN {dead} ELSE {})
  /\ \/ stack' = stack
     \/ Top.fn = "reap_children" /\ Top.pc = "wait" /\ Top.block /\ Goto([Top EXCEPT !.pc = "test"])

Exits(f) ==
  /\ exit = "no" /\ proc[f] = "run"
  /\ \/ proc' = [proc EXCEPT ![f] = "won"] /\ UNCHANGED lost
     \/ proc' = [proc EXCEPT ![f] = "lost"] /\ lost' = lost \cup ({f} \ NoError)
  /\ child_handler(f)
  /\ UNCHANGED <<m, dying, handling, signals, exit, opts>>

-----------------------------------------------------------------------------
(* Starting commands.  The functions give the outcomes: make's new data,   *)
(* and whether a process was made.  Fatal signals are blocked from before  *)
(* vfork until the child is on the chain.                                  *)

\* Mutant of start_job_command: every child gets the good standard input.
StartJobSharesStdin(x, f) ==
  IF x.file[f].left = 0
  THEN {[m |-> Finished(x, f, 0), vfork |-> "none"]}
  ELSE LET y == [x EXCEPT !.file[f].left = @ - 1, !.file[f].good_stdin = TRUE,
                          !.good_stdin_used = TRUE]
       IN {[m |-> [y EXCEPT !.file[f].command_state = "cs_running"], vfork |-> "done"]}
          \cup {[m |-> Finished(y, f, 2), vfork |-> "failed"] : failure \in {TRUE} \cap {opts.forks}}

start_job_command(x, f) ==
  IF x.file[f].left = 0
  THEN {[m |-> Finished(x, f, 0), vfork |-> "none"]}
  ELSE LET y == [x EXCEPT !.file[f].left = @ - 1, !.file[f].good_stdin = ~x.good_stdin_used,
                          !.good_stdin_used = TRUE]
       IN {[m |-> [y EXCEPT !.file[f].command_state = "cs_running"], vfork |-> "done"]}
          \cup {[m |-> Finished(y, f, 2), vfork |-> "failed"] : failure \in {TRUE} \cap {opts.forks}}

\* start_waiting_job, when the load is too high and when the job is started
Postpone(x, f) ==
  [x EXCEPT !.file[f].command_state = "cs_running", !.waiting_jobs = <<f>> \o @]

\* Mutant of PutOnChain: the slot is not counted.
PutOnChainUncounted(x, f) == [x EXCEPT !.children = <<f>> \o @]

PutOnChain(x, f) == [x EXCEPT !.children = <<f>> \o @, !.job_slots_used = @ + 1]

\* Mutant of start_waiting_job: a job waits for the load even if none is running.
StartWaitingJobNever(x, f) ==
  {[m |-> Postpone(x, f), vfork |-> "none", started |-> FALSE] :
      high \in {TRUE} \cap {opts.load}}
  \cup {[m |-> IF o.vfork = "done" THEN PutOnChain(o.m, f) ELSE o.m, vfork |-> o.vfork, started |-> TRUE] :
          o \in start_job_command(x, f)}

start_waiting_job(x, f) ==
  {[m |-> Postpone(x, f), vfork |-> "none", started |-> FALSE] :
      high \in {TRUE} \cap {opts.load /\ x.job_slots_used > 0}}
  \cup {[m |-> IF o.vfork = "done" THEN PutOnChain(o.m, f) ELSE o.m, vfork |-> o.vfork, started |-> TRUE] :
          o \in start_job_command(x, f)}

\* The file f gets a process, or has lost, if the outcome o says so.
Fork(o, f) ==
  /\ proc' = [proc EXCEPT ![f] = IF o.vfork = "done" THEN "run" ELSE @]
  /\ lost' = IF o.vfork = "failed" THEN lost \cup {f} ELSE lost

-----------------------------------------------------------------------------
(* start_waiting_jobs *)

WaitingReaps ==
  /\ Running("start_waiting_jobs") /\ Top.pc = "reap"
  /\ IF m.waiting_jobs = <<>> THEN Return
     ELSE Call([Top EXCEPT !.pc = "take"], ReapCall(FALSE, FALSE))
  /\ UNCHANGED <<m, proc, lost, dead, dying, handling, signals, exit, opts>>

WaitingTakes ==
  /\ Running("start_waiting_jobs") /\ Top.pc = "take"
  /\ LET job == Head(m.waiting_jobs) IN
     \E o \in start_waiting_job([m EXCEPT !.waiting_jobs = Tail(@)], job) :
       /\ m' = o.m /\ Fork(o, job)
       /\ IF o.started /\ o.m.waiting_jobs # <<>> THEN Goto([Top EXCEPT !.pc = "reap"]) ELSE Return
  /\ UNCHANGED <<dead, dying, handling, signals, exit, opts>>

-----------------------------------------------------------------------------
(* new_job *)

JobStartsWaiting ==
  /\ Running("new_job") /\ Top.pc = "waiting"
  /\ Call([Top EXCEPT !.pc = "reap"], WaitingCall)
  /\ UNCHANGED <<m, proc, lost, dead, dying, handling, signals, exit, opts>>

JobReaps ==
  /\ Running("new_job") /\ Top.pc = "reap"
  /\ Call([Top EXCEPT !.pc = "slot"], ReapCall(FALSE, FALSE))
  /\ UNCHANGED <<m, proc, lost, dead, dying, handling, signals, exit, opts>>

\* Mutant of NoSlot: one job too many is let in.
NoSlotTooFew == opts.job_slots # 0 /\ m.job_slots_used = opts.job_slots + 1

NoSlot == opts.job_slots # 0 /\ m.job_slots_used = opts.job_slots

JobWaitsForSlot ==
  /\ Running("new_job") /\ Top.pc = "slot" /\ NoSlot
  /\ Push(ReapCall(TRUE, FALSE))
  /\ UNCHANGED <<m, proc, lost, dead, dying, handling, signals, exit, opts>>

JobStarts ==
  /\ Running("new_job") /\ Top.pc = "slot" /\ ~NoSlot
  /\ \E o \in start_waiting_job(m, Top.file) : m' = o.m /\ Fork(o, Top.file)
  /\ IF opts.job_slots = 1 THEN Goto([Top EXCEPT !.pc = "linear"]) ELSE Return
  /\ UNCHANGED <<dead, dying, handling, signals, exit, opts>>

JobIsLinear ==
  /\ Running("new_job") /\ Top.pc = "linear"
  /\ IF m.file[Top.file].command_state = "cs_running" THEN Push(ReapCall(TRUE, FALSE)) ELSE Return
  /\ UNCHANGED <<m, proc, lost, dead, dying, handling, signals, exit, opts>>

-----------------------------------------------------------------------------
(* reap_children *)

ReapTests ==
  /\ Running("reap_children") /\ Top.pc = "test"
  /\ IF m.children # <<>> /\ (Top.block \/ dead > 0)
     THEN Goto([Top EXCEPT !.pc = "decrement"]) ELSE Return
  /\ UNCHANGED <<m, proc, lost, dead, dying, handling, signals, exit, opts>>

\* Mutant of ReapDecrements: the count is decremented at 0 too.
ReapDecrementsAlways ==
  /\ Running("reap_children") /\ Top.pc = "decrement"
  /\ dead' = dead - 1
  /\ Goto([Top EXCEPT !.pc = "wait"])
  /\ UNCHANGED <<m, proc, lost, dying, handling, signals, exit, opts>>

ReapDecrements ==
  /\ Running("reap_children") /\ Top.pc = "decrement"
  /\ dead' = IF dead > 0 THEN dead - 1 ELSE dead
  /\ Goto([Top EXCEPT !.pc = "wait"])
  /\ UNCHANGED <<m, proc, lost, dying, handling, signals, exit, opts>>

\* wait, or waitpid with WNOHANG when not to block
ReapGets ==
  /\ Running("reap_children") /\ Top.pc = "wait"
  /\ \E f \in Zombies :
       /\ proc' = [proc EXCEPT ![f] = "none"]
       /\ Goto([Top EXCEPT !.pc = "process", !.pid = f, !.failed = proc[f] = "lost"])
  /\ UNCHANGED <<m, lost, dead, dying, handling, signals, exit, opts>>

ReapFindsNone ==
  /\ Running("reap_children") /\ Top.pc = "wait" /\ ~Top.block
  /\ Zombies = {} /\ Live # {}
  /\ Return
  /\ UNCHANGED <<m, proc, lost, dead, dying, handling, signals, exit, opts>>

\* There is no process at all: pfatal_with_name calls die.
ReapHasNone ==
  /\ Running("reap_children") /\ Top.pc = "wait" /\ Zombies \cup Live = {}
  /\ Push(DieCall(2))
  /\ IF dying THEN exit' = "2" /\ UNCHANGED dying ELSE dying' = TRUE /\ UNCHANGED exit
  /\ UNCHANGED <<m, proc, lost, dead, handling, signals, opts>>

\* What the end of its process means for the child c: the outcomes, with what the call
\* goes on with: the next child if a new command was started, else the removal of this one.
Outcome(x, vfork, failed, pc) == [m |-> x, vfork |-> vfork, failed |-> failed, pc |-> pc]

\* Mutant of Process: a command that fails is followed by the next one.
ProcessIgnoresErrors(c, failed) ==
  LET x == IF m.file[c].good_stdin THEN [m EXCEPT !.good_stdin_used = FALSE] ELSE m IN
  IF m.file[c].left = 0
  THEN {Outcome([x EXCEPT !.file[c].update_status = 0], "none", FALSE, "remove")}
  ELSE IF handling
  THEN {Outcome([x EXCEPT !.file[c].update_status = 2], "none", FALSE, "remove")}
  ELSE {Outcome(o.m, o.vfork, FALSE, IF o.vfork = "done" THEN "test" ELSE "remove") :
          o \in start_job_command(x, c)}

Process(c, failed) ==
  LET x == IF m.file[c].good_stdin THEN [m EXCEPT !.good_stdin_used = FALSE] ELSE m IN
  IF failed /\ c \notin NoError
  THEN {Outcome([x EXCEPT !.file[c].update_status = 2], "none", TRUE, "remove")}
  ELSE IF m.file[c].left = 0
  THEN {Outcome([x EXCEPT !.file[c].update_status = 0], "none", FALSE, "remove")}
  ELSE IF handling
  THEN {Outcome([x EXCEPT !.file[c].update_status = 2], "none", FALSE, "remove")}
  ELSE {Outcome(o.m, o.vfork, FALSE, IF o.vfork = "done" THEN "test" ELSE "remove") :
          o \in start_job_command(x, c)}

ReapProcesses ==
  /\ Running("reap_children") /\ Top.pc = "process"
  /\ \E o \in Process(Top.pid, Top.failed) :
       /\ m' = o.m /\ Fork(o, Top.pid)
       /\ Goto([Top EXCEPT !.pc = o.pc, !.failed = o.failed])
  /\ UNCHANGED <<dead, dying, handling, signals, exit, opts>>

\* Off the chain; then die, or look for more children without waiting.
Removed(c) ==
  LET x == IF handling THEN m ELSE Finished(m, c, m.file[c].update_status)
  IN [x EXCEPT !.children = RemoveFirst(@, c),
               !.job_slots_used = IF @ > 0 THEN @ - 1 ELSE @]

FailureIsFatal == ~Top.err /\ Top.failed /\ ~opts.keep_going_flag /\ ~handling

ReapRemoves ==
  /\ Running("reap_children") /\ Top.pc = "remove"
  /\ m' = Removed(Top.pid)
  /\ LET next == [Top EXCEPT !.pc = "test", !.block = FALSE, !.pid = "none", !.failed = FALSE] IN
     IF FailureIsFatal
     THEN /\ Call(next, DieCall(2))
          /\ IF dying THEN exit' = "2" /\ UNCHANGED dying ELSE dying' = TRUE /\ UNCHANGED exit
     ELSE Goto(next) /\ UNCHANGED <<dying, exit>>
  /\ UNCHANGED <<proc, lost, dead, handling, signals, opts>>

-----------------------------------------------------------------------------
(* die: the first call waits for the children, a second one exits at once  *)

DieWaits ==
  /\ Running("die") /\ m.job_slots_used > 0
  /\ Call([Top EXCEPT !.err = FALSE], ReapCall(TRUE, Top.err))
  /\ UNCHANGED <<m, proc, lost, dead, dying, handling, signals, exit, opts>>

DieExits ==
  /\ Running("die") /\ m.job_slots_used = 0
  /\ exit' = IF Top.status = 0 THEN "0" ELSE "2"
  /\ UNCHANGED <<m, proc, lost, dead, stack, dying, handling, signals, opts>>

-----------------------------------------------------------------------------
(* fatal_error_signal.  When the handler returns, the signal it has sent   *)
(* itself ends make: none of the calls it interrupted goes on.             *)

fatal_error_signal ==
  /\ exit = "no" /\ signals < MaxSignals
  /\ signals' = signals + 1 /\ handling' = TRUE
  /\ stack' = <<SignalCall>>
  /\ UNCHANGED <<m, proc, lost, dead, dying, exit, opts>>

\* Mutant of SignalReaps: make does not wait for its children.
SignalReapsNone ==
  /\ Running("fatal_error_signal") /\ m.job_slots_used > 0
  /\ exit' = "signal"
  /\ UNCHANGED <<m, proc, lost, dead, stack, dying, handling, signals, opts>>

SignalReaps ==
  /\ Running("fatal_error_signal") /\ m.job_slots_used > 0
  /\ Push(ReapCall(TRUE, FALSE))
  /\ UNCHANGED <<m, proc, lost, dead, dying, handling, signals, exit, opts>>

SignalEnds ==
  /\ Running("fatal_error_signal") /\ m.job_slots_used = 0
  /\ exit' = "signal"
  /\ UNCHANGED <<m, proc, lost, dead, stack, dying, handling, signals, opts>>

-----------------------------------------------------------------------------
(* remake.c *)

State(f) == m.file[f].command_state
Entered(f) == State(f) \in {"cs_not_started", "cs_deps_running"}
\* what update_file returns for a file it has considered
Result(f) == IF State(f) = "cs_finished" THEN m.file[f].update_status ELSE 0

UpdateCalls ==
  /\ Running("update_file_1") /\ Top.pc = "dep" /\ Top.d <= Len(Deps[Top.file])
  /\ LET dep == Deps[Top.file][Top.d]
         after == [Top EXCEPT !.pc = "result"]
     IN IF Entered(dep) THEN Call(after, UpdateCall(dep)) ELSE Goto(after)
  /\ UNCHANGED <<m, proc, lost, dead, dying, handling, signals, exit, opts>>

UpdateGoesOn ==
  /\ Running("update_file_1") /\ Top.pc = "result"
  /\ LET deps == Deps[Top.file]
         dep == deps[Top.d]
         status == IF Top.dep_status = 0 THEN Result(dep) ELSE Top.dep_status
     IN Goto([Top EXCEPT !.pc = "dep", !.dep_status = status,
                !.running = @ \/ State(dep) \in {"cs_running", "cs_deps_running"},
                !.d = IF status # 0 /\ ~opts.keep_going_flag THEN Len(deps) + 1 ELSE @ + 1])
  /\ UNCHANGED <<m, proc, lost, dead, dying, handling, signals, exit, opts>>

\* Mutant of DepsRunning: a file is made while its dependencies are.
DepsRunningNever == FALSE

DepsRunning == Top.running

UpdateEnds ==
  /\ Running("update_file_1") /\ Top.pc = "dep" /\ Top.d > Len(Deps[Top.file])
  /\ \/ /\ DepsRunning
        /\ m' = [m EXCEPT !.file[Top.file].command_state = "cs_deps_running"] /\ Return
     \/ /\ ~DepsRunning /\ Top.dep_status # 0
        /\ m' = Finished(m, Top.file, Top.dep_status) /\ Return
     \/ \* remake_file: execute_file_commands finds nothing but white space
        /\ ~DepsRunning /\ Top.dep_status = 0 /\ m.file[Top.file].left = 0
        /\ m' = Finished(m, Top.file, 0) /\ Return
     \/ /\ ~DepsRunning /\ Top.dep_status = 0
        /\ m' = [m EXCEPT !.file[Top.file].command_state = "cs_not_started"]
        /\ Goto(JobCall(Top.file))
  /\ UNCHANGED <<proc, lost, dead, dying, handling, signals, exit, opts>>

GoalsStartWaiting ==
  /\ Running("update_goal_chain") /\ Top.pc = "start" /\ Top.goals # <<>>
  /\ Call([Top EXCEPT !.pc = "reap"], WaitingCall)
  /\ UNCHANGED <<m, proc, lost, dead, dying, handling, signals, exit, opts>>

GoalsReap ==
  /\ Running("update_goal_chain") /\ Top.pc = "reap"
  /\ Call([Top EXCEPT !.pc = "goal", !.i = 1], ReapCall(TRUE, FALSE))
  /\ UNCHANGED <<m, proc, lost, dead, dying, handling, signals, exit, opts>>

GoalsUpdate ==
  /\ Running("update_goal_chain") /\ Top.pc = "goal"
  /\ IF Top.i > Len(Top.goals) THEN Goto([Top EXCEPT !.pc = "start"])
     ELSE LET goal == Top.goals[Top.i]
              after == [Top EXCEPT !.pc = "result"]
          IN IF Entered(goal) THEN Call(after, UpdateCall(goal)) ELSE Goto(after)
  /\ UNCHANGED <<m, proc, lost, dead, dying, handling, signals, exit, opts>>

\* A goal that is finished leaves the chain.  After the first failure without -k this pass
\* over the goals ends, but not the loop over what is left of them.
GoalsGoOn ==
  /\ Running("update_goal_chain") /\ Top.pc = "result"
  /\ LET goal == Top.goals[Top.i]
         failed == Top.status = 0 /\ Result(goal) # 0
         stop == failed /\ ~opts.keep_going_flag
         done == State(goal) = "cs_finished"
     IN Goto([Top EXCEPT !.status = IF failed THEN Result(goal) ELSE @,
                         !.goals = IF done THEN RemoveAt(@, Top.i) ELSE @,
                         !.i = IF done THEN @ ELSE @ + 1,
                         !.pc = IF stop THEN "start" ELSE "goal"])
  /\ UNCHANGED <<m, proc, lost, dead, dying, handling, signals, exit, opts>>

\* main calls die with the status of the goals.
GoalsEnd ==
  /\ Running("update_goal_chain") /\ Top.pc = "start" /\ Top.goals = <<>>
  /\ Goto(DieCall(Top.status)) /\ dying' = TRUE
  /\ UNCHANGED <<m, proc, lost, dead, handling, signals, exit, opts>>

-----------------------------------------------------------------------------
Make ==
  \/ WaitingReaps \/ WaitingTakes
  \/ JobStartsWaiting \/ JobReaps \/ JobWaitsForSlot \/ JobStarts \/ JobIsLinear
  \/ ReapTests \/ ReapDecrements \/ ReapGets \/ ReapFindsNone \/ ReapHasNone
  \/ ReapProcesses \/ ReapRemoves
  \/ DieWaits \/ DieExits \/ SignalReaps \/ SignalEnds
  \/ UpdateCalls \/ UpdateGoesOn \/ UpdateEnds
  \/ GoalsStartWaiting \/ GoalsReap \/ GoalsUpdate \/ GoalsGoOn \/ GoalsEnd

Ended == exit # "no" /\ UNCHANGED vars

Next ==
  \/ Make
  \/ \E f \in Files : Exits(f)
  \/ fatal_error_signal
  \/ Ended

Spec == Init /\ [][Next]_vars

\* make is scheduled, and a command ends.
Fairness == WF_vars(Make) /\ \A f \in Files : WF_vars(Exits(f))

FairSpec == Spec /\ Fairness

-----------------------------------------------------------------------------
(* Properties *)

States == {"cs_not_started", "cs_deps_running", "cs_running", "cs_finished"}
Status == {0, 2}

GoalsFrames ==
  [fn : {"update_goal_chain"}, pc : {"start", "reap", "goal", "result"}, goals : Seq(Files),
   i : Nat, status : Status]
UpdateFrames ==
  [fn : {"update_file_1"}, pc : {"dep", "result"}, file : Files, d : Nat, dep_status : Status,
   running : BOOLEAN]
JobFrames == [fn : {"new_job"}, pc : {"waiting", "reap", "slot", "linear"}, file : Files]
WaitingFrames == [fn : {"start_waiting_jobs"}, pc : {"reap", "take"}]
ReapFrames ==
  [fn : {"reap_children"}, pc : {"test", "decrement", "wait", "process", "remove"},
   block : BOOLEAN, err : BOOLEAN, pid : Files \cup {"none"}, failed : BOOLEAN]
DieFrames == [fn : {"die"}, err : BOOLEAN, status : Status]
SignalFrames == [fn : {"fatal_error_signal"}]
Frames ==
  GoalsFrames \cup UpdateFrames \cup JobFrames \cup WaitingFrames \cup ReapFrames \cup DieFrames
    \cup SignalFrames

\* The types, with the bounds of the counters: no more children than files, and no more
\* SIGCHLDs counted than commands have ended.
TypeOK ==
  /\ m \in [file : [Files -> [command_state : States, update_status : Status, left : Nat,
                              good_stdin : BOOLEAN]],
            children : Seq(Files), waiting_jobs : Seq(Files), job_slots_used : 0..Cardinality(Files),
            good_stdin_used : BOOLEAN]
  /\ proc \in [Files -> {"none", "run", "won", "lost"}]
  /\ dead \in Nat /\ stack \in Seq(Frames) /\ stack # <<>>
  /\ dying \in BOOLEAN /\ handling \in BOOLEAN /\ signals \in 0..MaxSignals
  /\ exit \in {"no", "0", "2", "signal"} /\ lost \subseteq Files /\ opts \in Options

\* The child that reap_children has got from wait and not yet dealt with, if any.
InHand == {stack[i].pid : i \in {j \in DOMAIN stack : stack[j].fn = "reap_children"}} \cap Files

\* "children" and job_slots_used are always consistent, whenever a fatal signal comes
\* (the comment before block_sigs in reap_children): every process is that of a child on
\* the chain, every child is there once and is not waiting too, and every child on the chain
\* has a process or is in the hands of reap_children, unless a signal has cut that short.
ChainRight ==
  /\ m.job_slots_used = Len(m.children)
  /\ IsInjective(m.children \o m.waiting_jobs)
  /\ Live \cup Zombies \subseteq Chain
  /\ handling \/ Chain \subseteq Live \cup Zombies \cup InHand

\* "make will invalidate the standard input streams of all but one running command"
\* (make.texinfo), and as long as vfork does not fail that one has it: the good standard input
\* is in use exactly when a command that has not been reaped got it.
StdinShared ==
  LET holders == {f \in Live \cup Zombies : m.file[f].good_stdin} IN
  /\ Cardinality(holders) <= 1
  /\ (~opts.forks /\ ~handling /\ InHand = {}) => (m.good_stdin_used <=> holders # {})

\* All the commands of f were run, and none was lost.
Made(f) == m.file[f].left = 0 /\ f \notin lost \cup Live \cup Zombies \cup ToSet(m.waiting_jobs)

\* The commands of a target run only when all its dependencies have been made: none is
\* still being made when its process is started, and none has failed.
DepsMadeFirst ==
  \A f \in Live \cup Zombies : \A i \in DOMAIN Deps[f] : Made(Deps[f][i])

\* make exits with 0 only if all the commands of all the goals and of what they depend on
\* were run and none was lost, unmarked; it exits with 2 only if one was lost, or if a
\* signal came that it could not die of.
StatusRight ==
  /\ exit = "0" => \A f \in Files : Made(f)
  /\ exit = "2" => lost # {} \/ handling

\* With -j N and no -l there are never more than N commands at once.
SlotLimit ==
  (opts.job_slots # 0 /\ ~opts.load) => Cardinality(Live \cup Zombies) <= opts.job_slots

\* What job.c keeps of its children is true of the processes, and their limits are kept.
JobsSound == TypeOK /\ ChainRight /\ StdinShared /\ SlotLimit

\* What make has made is made, in order, and make says so (update_file_1,
\* notice_finished_file, die).
MadeRight == DepsMadeFirst /\ StatusRight

\* "If make terminates for any reason (including a signal) with child processes running, it
\* waits for them to finish before actually exiting" (make.texinfo).
AllReaped == exit # "no" => Live = {}

\* AllReaped with -k, when no failure makes reap_children call die.
AllReapedKeepGoing == opts.keep_going_flag => AllReaped

\* make ends: it never waits for a child that will not be reported, and no job stays on the
\* waiting list.
Ends == <>(exit # "no")
=============================================================================
