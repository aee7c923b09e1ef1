---------------------------- MODULE MakeJobsProofs ----------------------------
(***************************************************************************)
(* Proofs about MakeJobs: the chain of children, the slots and the good    *)
(* standard input are what they should be, for all targets, dependencies   *)
(* and options; make leaves no command running behind with -k; commands    *)
(* run in order, and the exit status is true.                              *)
(*                                                                         *)
(* The first invariant has three parts.  StackOK says which calls can be   *)
(* active together, and what each knows of the files it is about; ChainOK  *)
(* relates the chain to the processes; ShareOK is about the slots and the  *)
(* input.                                                                  *)
(***************************************************************************)
EXTENDS MakeJobs, FiniteSetTheorems, SequenceTheorems, WellFoundedInduction, TLAPS

Depth ==
  CHOOSE depth \in [Files -> Nat] :
    \A f \in Files : \A i \in DOMAIN Deps[f] : depth[f] < depth[Deps[f][i]]

FileData == [command_state : States, update_status : Status, left : Nat, good_stdin : BOOLEAN]
MakeData ==
  [file : [Files -> FileData],
   children : Seq(Files), waiting_jobs : Seq(Files), job_slots_used : Nat,
   good_stdin_used : BOOLEAN]

-----------------------------------------------------------------------------
(* The stack.  s is a stack, x the files and lists that make has.          *)

\* The call is about a file that has not been started.
Busy(fr) == fr.fn = "update_file_1" \/ (fr.fn = "new_job" /\ fr.pc # "linear")
HasFile(fr) == fr.fn \in {"update_file_1", "new_job"}

\* reap_children has a child in its hands.
Holds(fr) == fr.fn = "reap_children" /\ fr.pc \in {"process", "remove"}
Hand(s) == IF Holds(Head(s)) THEN {Head(s).pid} ELSE {}

NotStarted(x, f) == x.file[f].command_state \in {"cs_not_started", "cs_deps_running"}

FrameOK(fr, x) ==
  /\ fr.fn = "update_goal_chain" => fr.i >= 1 /\ (fr.pc = "result" => fr.i <= Len(fr.goals))
  /\ fr.fn = "update_file_1" => fr.d >= 1 /\ (fr.pc = "result" => fr.d <= Len(Deps[fr.file]))
  /\ Busy(fr) => NotStarted(x, fr.file)
  /\ fr.fn = "start_waiting_jobs" /\ fr.pc = "take" => x.waiting_jobs # << >>
  /\ Holds(fr) => fr.pid \in Files

\* Which calls may be active together: goals are at the bottom, only the innermost call has a
\* child in its hands, start_waiting_jobs has called nothing but reap_children, and files are
\* updated from those that need them down.
StackOK(s, x, h) ==
  /\ s \in Seq(Frames) /\ s # << >>
  /\ s[Len(s)].fn \in {"update_goal_chain", "die", "fatal_error_signal"}
  /\ \A i \in DOMAIN s : FrameOK(s[i], x)
  /\ \A i \in DOMAIN s : s[i].fn = "update_goal_chain" => i = Len(s)
  /\ \A i \in DOMAIN s : i > 1 => ~Holds(s[i])
  /\ \A i, j \in DOMAIN s : (j < i /\ s[i].fn = "start_waiting_jobs") =>
                              s[j].fn \in {"reap_children", "die"}
  /\ \A i, j \in DOMAIN s : (j < i /\ HasFile(s[i]) /\ HasFile(s[j])) =>
                              Depth[s[i].file] < Depth[s[j].file]
  /\ h => \A i \in DOMAIN s : s[i].fn \in {"fatal_error_signal", "reap_children", "die"}

-----------------------------------------------------------------------------
(* The children.                                                           *)

Waiting == ToSet(m.waiting_jobs)
Alive == Live \cup Zombies

\* Every child is once on the chain or waiting, and was started; it has a process unless
\* reap_children has it in its hands.
ChainOK ==
  /\ m.job_slots_used = Len(m.children)
  /\ IsInjective(m.children) /\ IsInjective(m.waiting_jobs)
  /\ Chain \cap Waiting = {}
  /\ Alive \subseteq Chain
  /\ handling \/ Chain \subseteq Alive \cup Hand(stack)
  /\ Hand(stack) \subseteq Chain \ Alive
  /\ \A f \in Chain \cup Waiting : ~NotStarted(m, f)

\* Who has got the good standard input: also the child in hand whose end was not dealt with.
Holders ==
  {f \in Files : /\ m.file[f].good_stdin
                 /\ f \in Alive \/ (f \in Hand(stack) /\ Head(stack).pc = "process")}

\* The good input has one holder, if it is in use; without -l no job waits, and the slots are
\* enough.
ShareOK ==
  /\ \A f, g \in Holders : f = g
  /\ Holders # {} => m.good_stdin_used
  /\ (m.good_stdin_used /\ ~opts.forks /\ ~handling) => Holders # {}
  /\ (opts.job_slots # 0 /\ ~opts.load) =>
       m.waiting_jobs = << >> /\ m.job_slots_used <= opts.job_slots

Types ==
  /\ m \in MakeData /\ proc \in [Files -> {"none", "run", "won", "lost"}]
  /\ dead \in Nat /\ dying \in BOOLEAN /\ handling \in BOOLEAN /\ signals \in 0..MaxSignals
  /\ exit \in {"no", "0", "2", "signal"} /\ lost \subseteq Files /\ opts \in Options

\* A finished make has left no process running, with -k.
ExitOK == (exit # "no" /\ opts.keep_going_flag) => Live = {}

JobsInv == Types /\ StackOK(stack, m, handling) /\ ChainOK /\ ShareOK /\ ExitOK

-----------------------------------------------------------------------------
(* Sequences.                                                              *)

\* Every nonempty set of numbers has a least one.
LEMMA LeastNat ==
  ASSUME NEW T, T \subseteq Nat, T # {}
  PROVE  \E x \in T : \A y \in T : x <= y
<1>1. PICK x \in T : \A y \in T : ~(<<y, x>> \in OpToRel(<, Nat))
  BY NatLessThanWellFounded, WFMin
<1>2. \A y \in T : ~(y < x)
  BY <1>1 DEF OpToRel
<1> QED BY <1>2

\* What a sequence with one more element at its head has.
LEMMA ConsFacts ==
  ASSUME NEW S, NEW s \in Seq(S), NEW e \in S
  PROVE  /\ <<e>> \o s \in Seq(S) /\ <<e>> \o s # << >>
         /\ Len(<<e>> \o s) = Len(s) + 1 /\ DOMAIN (<<e>> \o s) = 1..(Len(s) + 1)
         /\ (<<e>> \o s)[1] = e /\ Head(<<e>> \o s) = e
         /\ \A i \in 1..Len(s) : (<<e>> \o s)[i + 1] = s[i]
         /\ \A i \in 2..(Len(s) + 1) : (<<e>> \o s)[i] = s[i - 1]
OBVIOUS

\* What a sequence without its head has.
LEMMA TailFacts ==
  ASSUME NEW S, NEW s \in Seq(S), s # << >>
  PROVE  /\ Tail(s) \in Seq(S) /\ Len(Tail(s)) = Len(s) - 1 /\ Len(s) \in Nat /\ Len(s) >= 1
         /\ DOMAIN Tail(s) = 1..(Len(s) - 1) /\ Head(s) = s[1] /\ Head(s) \in S
         /\ \A i \in 1..(Len(s) - 1) : Tail(s)[i] = s[i + 1]
OBVIOUS

\* Putting a new element before a sequence without repetitions.
LEMMA ConsList ==
  ASSUME NEW S, NEW s \in Seq(S), NEW e \in S
  PROVE  /\ ToSet(<<e>> \o s) = {e} \cup ToSet(s)
         /\ (IsInjective(s) /\ e \notin ToSet(s)) => IsInjective(<<e>> \o s)
<1> DEFINE t == <<e>> \o s
<1>1. /\ Len(s) \in Nat /\ DOMAIN s = 1..Len(s)
      /\ DOMAIN t = 1..(Len(s) + 1) /\ t[1] = e
      /\ \A i \in 1..Len(s) : t[i + 1] = s[i]
      /\ \A i \in 2..(Len(s) + 1) : t[i] = s[i - 1]
  BY ConsFacts
<1> HIDE DEF t
<1>2. ToSet(t) = {e} \cup ToSet(s)
  <2>1. ASSUME NEW a \in ToSet(t) PROVE a \in {e} \cup ToSet(s)
    <3>1. PICK i \in DOMAIN t : a = t[i]
      BY DEF ToSet
    <3>2. i = 1 \/ (i - 1) \in DOMAIN s
      BY <1>1
    <3> QED BY <1>1, <3>1, <3>2 DEF ToSet
  <2>2. ASSUME NEW a \in ToSet(s) PROVE a \in ToSet(t)
    <3>1. PICK i \in DOMAIN s : a = s[i]
      BY DEF ToSet
    <3>2. i + 1 \in DOMAIN t /\ t[i + 1] = a
      BY <1>1, <3>1
    <3> QED BY <3>2 DEF ToSet
  <2>3. e \in ToSet(t)
    BY <1>1 DEF ToSet
  <2> QED BY <2>1, <2>2, <2>3
<1>3. ASSUME IsInjective(s), e \notin ToSet(s) PROVE IsInjective(t)
  <2>1. \A i \in DOMAIN s : s[i] # e
    BY <1>3 DEF ToSet
  <2>2. ASSUME NEW i \in DOMAIN t, NEW j \in DOMAIN t, t[i] = t[j] PROVE i = j
    <3>1. (i = 1 \/ (i - 1) \in DOMAIN s) /\ (j = 1 \/ (j - 1) \in DOMAIN s)
      BY <1>1
    <3> QED BY <1>1, <1>3, <2>1, <2>2, <3>1 DEF IsInjective
  <2> QED BY <2>2 DEF IsInjective
<1> QED BY <1>2, <1>3 DEF t

\* Taking the head off a sequence without repetitions.
LEMMA TailList ==
  ASSUME NEW S, NEW s \in Seq(S), s # << >>, IsInjective(s)
  PROVE  ToSet(Tail(s)) = ToSet(s) \ {Head(s)} /\ IsInjective(Tail(s))
<1> DEFINE t == Tail(s)
<1>1. /\ Len(s) \in Nat /\ Len(s) >= 1 /\ DOMAIN s = 1..Len(s)
      /\ DOMAIN t = 1..(Len(s) - 1) /\ Head(s) = s[1]
      /\ \A i \in 1..(Len(s) - 1) : t[i] = s[i + 1]
  BY TailFacts
<1> HIDE DEF t
<1>2. \A i, j \in DOMAIN s : s[i] = s[j] => i = j
  BY DEF IsInjective
<1>3. ASSUME NEW a \in ToSet(t) PROVE a \in ToSet(s) \ {Head(s)}
  <2>1. PICK i \in DOMAIN t : a = t[i]
    BY DEF ToSet
  <2>2. i + 1 \in DOMAIN s /\ s[i + 1] = a /\ 1 \in DOMAIN s /\ i + 1 # 1
    BY <1>1, <2>1
  <2> QED BY <1>1, <1>2, <2>2 DEF ToSet
<1>4. ASSUME NEW a \in ToSet(s) \ {Head(s)} PROVE a \in ToSet(t)
  <2>1. PICK i \in DOMAIN s : a = s[i]
    BY DEF ToSet
  <2>2. i - 1 \in DOMAIN t /\ t[i - 1] = a
    BY <1>1, <2>1
  <2> QED BY <2>2 DEF ToSet
<1>5. IsInjective(t)
  <2>1. ASSUME NEW i \in DOMAIN t, NEW j \in DOMAIN t, t[i] = t[j] PROVE i = j
    <3>1. i + 1 \in DOMAIN s /\ j + 1 \in DOMAIN s /\ s[i + 1] = s[j + 1]
      BY <1>1, <2>1
    <3>2. i + 1 = j + 1
      BY <1>2, <3>1
    <3> QED BY <3>2, <1>1
  <2> QED BY <2>1 DEF IsInjective
<1> QED BY <1>3, <1>4, <1>5 DEF t

\* RemoveFirst takes the one element out, and leaves the others.
LEMMA RemoveList ==
  ASSUME NEW S, NEW s \in Seq(S), NEW e \in ToSet(s), IsInjective(s)
  PROVE  /\ RemoveFirst(s, e) \in Seq(S) /\ Len(RemoveFirst(s, e)) = Len(s) - 1
         /\ ToSet(RemoveFirst(s, e)) = ToSet(s) \ {e}
         /\ IsInjective(RemoveFirst(s, e))
<1>1. /\ Len(s) \in Nat /\ DOMAIN s = 1..Len(s)
      /\ \A i \in DOMAIN s : s[i] \in S
  OBVIOUS
<1>2. PICK k \in 1..Len(s) : s[k] = e
  BY <1>1 DEF ToSet
<1>3. \A i, j \in DOMAIN s : s[i] = s[j] => i = j
  BY DEF IsInjective
<1> DEFINE I == {i \in 1..Len(s) : s[i] = e}
<1>4. I = {k}
  BY <1>1, <1>2, <1>3
<1>5. Min(I) = k
  <2>1. k \in Int
    BY <1>1
  <2> HIDE DEF I
  <2> QED BY <1>4, <2>1 DEF Min
<1>6. RemoveFirst(s, e) = SubSeq(s, 1, k - 1) \o SubSeq(s, k + 1, Len(s))
  BY <1>2, <1>4, <1>5 DEF RemoveFirst, RemoveAt, SelectInSeq
<1> DEFINE t == RemoveFirst(s, e)
<1>7. /\ t \in Seq(S) /\ Len(t) = Len(s) - 1 /\ DOMAIN t = 1..(Len(s) - 1)
      /\ \A i \in 1..(Len(s) - 1) : t[i] = IF i < k THEN s[i] ELSE s[i + 1]
  <2> DEFINE a == SubSeq(s, 1, k - 1)
             b == SubSeq(s, k + 1, Len(s))
  <2>1. a \in Seq(S) /\ Len(a) = k - 1 /\ \A i \in 1..(k - 1) : a[i] = s[i]
    BY <1>1, <1>2
  <2>2. b \in Seq(S) /\ Len(b) = Len(s) - k /\ \A i \in 1..(Len(s) - k) : b[i] = s[k + i]
    <3>1. /\ k + 1 \in Int /\ Len(s) \in Int /\ k \in 1..Len(s)
          /\ \A i \in (k + 1)..Len(s) : s[i] \in S
      BY <1>1, <1>2
    <3>2. /\ b \in Seq(S) /\ Len(b) = IF k + 1 <= Len(s) THEN Len(s) - (k + 1) + 1 ELSE 0
          /\ \A i \in 1..(Len(s) - (k + 1) + 1) : b[i] = s[(k + 1) + i - 1]
      BY <3>1, SubSeqProperties
    <3> HIDE DEF b
    <3>3. Len(b) = Len(s) - k
      BY <3>1, <3>2
    <3>4. ASSUME NEW i \in 1..(Len(s) - k) PROVE b[i] = s[k + i]
      <4>1. i \in 1..(Len(s) - (k + 1) + 1) /\ (k + 1) + i - 1 = k + i
        BY <3>1
      <4> QED BY <3>2, <4>1
    <3> QED BY <3>2, <3>3, <3>4
  <2>3. t = a \o b
    BY <1>6
  <2> HIDE DEF a, b, t
  <2>4. /\ t \in Seq(S) /\ Len(t) = Len(s) - 1
        /\ \A i \in 1..(Len(s) - 1) : t[i] = IF i <= k - 1 THEN a[i] ELSE b[i - (k - 1)]
    <3>1. /\ a \o b \in Seq(S) /\ Len(a \o b) = Len(a) + Len(b)
          /\ \A i \in 1..(Len(a) + Len(b)) :
               (a \o b)[i] = IF i <= Len(a) THEN a[i] ELSE b[i - Len(a)]
      BY <2>1, <2>2, ConcatProperties
    <3>2. Len(a) + Len(b) = Len(s) - 1
      BY <1>1, <1>2, <2>1, <2>2
    <3> QED BY <2>1, <2>3, <3>1, <3>2
  <2>5. DOMAIN t = 1..(Len(s) - 1)
    BY <2>4
  <2>6. ASSUME NEW i \in 1..(Len(s) - 1) PROVE t[i] = IF i < k THEN s[i] ELSE s[i + 1]
    <3>1. CASE i < k
      BY <1>1, <1>2, <2>1, <2>4, <3>1
    <3>2. CASE i >= k
      <4>1. i - (k - 1) \in 1..(Len(s) - k) /\ k + (i - (k - 1)) = i + 1
        BY <1>1, <1>2, <3>2
      <4> QED BY <1>1, <1>2, <2>2, <2>4, <3>2, <4>1
    <3> QED BY <1>1, <1>2, <3>1, <3>2
  <2> QED BY <2>4, <2>5, <2>6
<1> HIDE DEF t, I
<1>8. ASSUME NEW a \in ToSet(t) PROVE a \in ToSet(s) \ {e}
  <2>1. PICK i \in DOMAIN t : a = t[i]
    BY DEF ToSet
  <2> DEFINE j == IF i < k THEN i ELSE i + 1
  <2>2. j \in DOMAIN s /\ s[j] = a /\ j # k
    BY <1>1, <1>7, <2>1
  <2>3. a # e
    BY <1>1, <1>2, <1>3, <2>2
  <2> QED BY <2>2, <2>3 DEF ToSet
<1>9. ASSUME NEW a \in ToSet(s) \ {e} PROVE a \in ToSet(t)
  <2>1. PICK i \in DOMAIN s : a = s[i]
    BY DEF ToSet
  <2> DEFINE j == IF i < k THEN i ELSE i - 1
  <2>2. j \in DOMAIN t /\ t[j] = a
    BY <1>1, <1>2, <1>7, <2>1
  <2> QED BY <2>2 DEF ToSet
<1>10. IsInjective(t)
  <2>1. ASSUME NEW i \in DOMAIN t, NEW j \in DOMAIN t, t[i] = t[j] PROVE i = j
    <3> DEFINE i1 == IF i < k THEN i ELSE i + 1
    <3> DEFINE j1 == IF j < k THEN j ELSE j + 1
    <3>1. i1 \in DOMAIN s /\ j1 \in DOMAIN s /\ s[i1] = s[j1]
      BY <1>1, <1>7, <2>1
    <3>2. i1 = j1
      BY <1>3, <3>1
    <3> QED BY <3>2, <1>7
  <2> QED BY <2>1 DEF IsInjective
<1> QED BY <1>7, <1>8, <1>9, <1>10 DEF t

-----------------------------------------------------------------------------
(* The stack.                                                              *)

\* A target is deeper than those that depend on it.
LEMMA DepthFacts ==
  /\ Depth \in [Files -> Nat]
  /\ \A f \in Files : \A i \in DOMAIN Deps[f] : Depth[f] < Depth[Deps[f][i]]
<1>1. PICK depth \in [Files -> 0..Cardinality(Files)] :
        \A f \in Files : \A i \in DOMAIN Deps[f] : depth[f] < depth[Deps[f][i]]
  BY MakeJobsAssumption
<1>2. depth \in [Files -> Nat]
  BY <1>1
<1> QED BY <1>1, <1>2 DEF Depth

\* The kind of a call says what its frame has.
LEMMA FrameKinds ==
  ASSUME NEW fr \in Frames
  PROVE  /\ fr.fn = "update_goal_chain" => fr \in GoalsFrames
         /\ fr.fn = "update_file_1" => fr \in UpdateFrames
         /\ fr.fn = "new_job" => fr \in JobFrames
         /\ fr.fn = "start_waiting_jobs" => fr \in WaitingFrames
         /\ fr.fn = "reap_children" => fr \in ReapFrames
         /\ fr.fn = "die" => fr \in DieFrames
         /\ fr.fn = "fatal_error_signal" => fr \in SignalFrames
         /\ fr.fn \in {"update_goal_chain", "update_file_1", "new_job", "start_waiting_jobs",
                       "reap_children", "die", "fatal_error_signal"}
<1> USE DEF Frames, GoalsFrames, UpdateFrames, JobFrames, WaitingFrames, ReapFrames, DieFrames,
            SignalFrames
<1>1. CASE fr \in GoalsFrames
  BY <1>1
<1>2. CASE fr \in UpdateFrames
  BY <1>2
<1>3. CASE fr \in JobFrames
  BY <1>3
<1>4. CASE fr \in WaitingFrames
  BY <1>4
<1>5. CASE fr \in ReapFrames
  BY <1>5
<1>6. CASE fr \in DieFrames
  BY <1>6
<1>7. CASE fr \in SignalFrames
  BY <1>7
<1> QED BY <1>1, <1>2, <1>3, <1>4, <1>5, <1>6, <1>7

\* What the calls below the innermost one know, when the data changes from x to y.
BelowOK(s, y) == \A i \in DOMAIN s : i > 1 => FrameOK(s[i], y)

\* The innermost call returns.
LEMMA ReturnOK ==
  ASSUME NEW s, NEW x, NEW y, NEW h, StackOK(s, x, h), BelowOK(s, y),
         s[1].fn \notin {"update_goal_chain", "die", "fatal_error_signal"}
  PROVE  StackOK(Tail(s), y, h)
<1> DEFINE t == Tail(s)
<1>1. s \in Seq(Frames) /\ s # << >>
  BY DEF StackOK
<1>2. /\ Len(s) \in Nat /\ Len(s) >= 1 /\ DOMAIN s = 1..Len(s) /\ t \in Seq(Frames)
      /\ Len(t) = Len(s) - 1 /\ DOMAIN t = 1..(Len(s) - 1)
      /\ \A i \in 1..(Len(s) - 1) : t[i] = s[i + 1]
  BY <1>1, TailFacts
<1>3. Len(s) # 1
  BY DEF StackOK
<1> HIDE DEF t
<1>4. t # << >> /\ Len(t) >= 1
  BY <1>2, <1>3
<1>5. \A i \in DOMAIN t : i + 1 \in DOMAIN s /\ i + 1 > 1 /\ t[i] = s[i + 1]
  BY <1>2
<1>6. t[Len(t)] = s[Len(s)]
  BY <1>2, <1>4
<1>7. t[Len(t)].fn \in {"update_goal_chain", "die", "fatal_error_signal"}
  BY <1>6 DEF StackOK
<1>8. \A i \in DOMAIN t : FrameOK(t[i], y)
  BY <1>5 DEF BelowOK
<1>9. \A i \in DOMAIN t : t[i].fn = "update_goal_chain" => i = Len(t)
  BY <1>2, <1>5 DEF StackOK
<1>10. \A i \in DOMAIN t : i > 1 => ~Holds(t[i])
  BY <1>5 DEF StackOK
<1>11. \A i, j \in DOMAIN t : (j < i /\ t[i].fn = "start_waiting_jobs") =>
                                 t[j].fn \in {"reap_children", "die"}
  <2>1. \A i, j \in DOMAIN t : j < i => j + 1 < i + 1
    BY <1>2
  <2> QED BY <1>5, <2>1 DEF StackOK
<1>12. \A i, j \in DOMAIN t : (j < i /\ HasFile(t[i]) /\ HasFile(t[j])) =>
                                Depth[t[i].file] < Depth[t[j].file]
  <2>1. \A i, j \in DOMAIN t : j < i => j + 1 < i + 1
    BY <1>2
  <2> QED BY <1>5, <2>1 DEF StackOK
<1>13. h => \A i \in DOMAIN t : t[i].fn \in {"fatal_error_signal", "reap_children", "die"}
  BY <1>5 DEF StackOK
<1>14. StackOK(t, y, h)
  BY <1>2, <1>4, <1>7, <1>8, <1>9, <1>10, <1>11, <1>12, <1>13 DEF StackOK
<1> QED BY <1>14 DEF t

\* The innermost call goes on as fr, which is about the same file.
LEMMA GotoOK ==
  ASSUME NEW s, NEW x, NEW y, NEW h, StackOK(s, x, h), BelowOK(s, y),
         NEW fr \in Frames, FrameOK(fr, y),
         HasFile(fr) => HasFile(s[1]) /\ fr.file = s[1].file,
         fr.fn = "update_goal_chain" => s[1].fn = "update_goal_chain",
         s[1].fn \in {"update_goal_chain", "die", "fatal_error_signal"} =>
           fr.fn \in {"update_goal_chain", "die", "fatal_error_signal"},
         s[1].fn \in {"reap_children", "die"} => fr.fn \in {"reap_children", "die"},
         h => fr.fn \in {"fatal_error_signal", "reap_children", "die"}
  PROVE  StackOK(<<fr>> \o Tail(s), y, h)
<1> DEFINE t == <<fr>> \o Tail(s)
<1>1. s \in Seq(Frames) /\ s # << >>
  BY DEF StackOK
<1>2. /\ Len(s) \in Nat /\ Len(s) >= 1 /\ DOMAIN s = 1..Len(s) /\ Tail(s) \in Seq(Frames)
      /\ Len(Tail(s)) = Len(s) - 1
      /\ \A i \in 1..(Len(s) - 1) : Tail(s)[i] = s[i + 1]
  BY <1>1, TailFacts
<1>3. /\ t \in Seq(Frames) /\ t # << >> /\ Len(t) = Len(s) /\ DOMAIN t = DOMAIN s /\ t[1] = fr
      /\ \A i \in 2..Len(s) : t[i] = Tail(s)[i - 1]
  BY <1>2, ConsFacts
<1>4. \A i \in DOMAIN s : i > 1 => t[i] = s[i]
  BY <1>2, <1>3
<1> HIDE DEF t
<1>5. \A i \in DOMAIN s : i > 1 \/ i = 1
  BY <1>2
<1>6. 1 \in DOMAIN s /\ \A i, j \in DOMAIN s : j < i => i > 1
  BY <1>2
<1>7. t[Len(t)].fn \in {"update_goal_chain", "die", "fatal_error_signal"}
  <2>1. CASE Len(s) = 1
    BY <1>3, <2>1 DEF StackOK
  <2>2. CASE Len(s) # 1
    BY <1>2, <1>3, <1>4, <2>2 DEF StackOK
  <2> QED BY <2>1, <2>2
<1>8. \A i \in DOMAIN t : FrameOK(t[i], y)
  BY <1>3, <1>4, <1>5 DEF BelowOK
<1>9. \A i \in DOMAIN t : t[i].fn = "update_goal_chain" => i = Len(t)
  BY <1>3, <1>4, <1>5 DEF StackOK
<1>10. \A i \in DOMAIN t : i > 1 => ~Holds(t[i])
  BY <1>3, <1>4 DEF StackOK
<1>11. ASSUME NEW i \in DOMAIN t, NEW j \in DOMAIN t, j < i, t[i].fn = "start_waiting_jobs"
       PROVE  t[j].fn \in {"reap_children", "die"}
  <2>1. i > 1 /\ s[i].fn = "start_waiting_jobs" /\ s[j].fn \in {"reap_children", "die"}
    BY <1>3, <1>4, <1>6, <1>11 DEF StackOK
  <2> QED BY <1>3, <1>4, <1>5, <2>1
<1>12. ASSUME NEW i \in DOMAIN t, NEW j \in DOMAIN t, j < i, HasFile(t[i]), HasFile(t[j])
       PROVE  Depth[t[i].file] < Depth[t[j].file]
  <2>1. t[i] = s[i]
    BY <1>3, <1>4, <1>6, <1>12
  <2>2. HasFile(s[j]) /\ t[j].file = s[j].file
    BY <1>3, <1>4, <1>5, <1>12
  <2> QED BY <1>3, <1>12, <2>1, <2>2 DEF StackOK
<1>13. h => \A i \in DOMAIN t : t[i].fn \in {"fatal_error_signal", "reap_children", "die"}
  BY <1>3, <1>4, <1>5 DEF StackOK
<1>14. StackOK(t, y, h)
  BY <1>3, <1>7, <1>8, <1>9, <1>10, <1>11, <1>12, <1>13 DEF StackOK
<1> QED BY <1>14 DEF t

\* The innermost call calls fr.
LEMMA PushOK ==
  ASSUME NEW s, NEW x, NEW h, StackOK(s, x, h), NEW fr \in Frames, FrameOK(fr, x),
         ~Holds(s[1]), fr.fn # "update_goal_chain",
         fr.fn \in {"reap_children", "die"} \/
           s[1].fn \in {"update_goal_chain", "update_file_1", "new_job"},
         HasFile(fr) => \/ s[1].fn = "update_goal_chain"
                        \/ HasFile(s[1]) /\ Depth[s[1].file] < Depth[fr.file],
         h => fr.fn \in {"fatal_error_signal", "reap_children", "die"}
  PROVE  StackOK(<<fr>> \o s, x, h)
<1> DEFINE t == <<fr>> \o s
<1>1. s \in Seq(Frames) /\ s # << >>
  BY DEF StackOK
<1>2. /\ Len(s) \in Nat /\ Len(s) >= 1 /\ DOMAIN s = 1..Len(s)
  BY <1>1
<1>3. /\ t \in Seq(Frames) /\ t # << >> /\ Len(t) = Len(s) + 1 /\ DOMAIN t = 1..(Len(s) + 1)
      /\ t[1] = fr /\ \A i \in 2..(Len(s) + 1) : t[i] = s[i - 1]
  BY <1>1, ConsFacts
<1> HIDE DEF t
<1>4. \A i \in DOMAIN t : i = 1 \/ (i > 1 /\ i - 1 \in DOMAIN s /\ t[i] = s[i - 1])
  BY <1>2, <1>3
<1>5. 1 \in DOMAIN s /\ \A i \in DOMAIN s : i > 1 \/ i = 1
  BY <1>2
<1>6. \A i \in DOMAIN s : s[i] \in Frames
  BY <1>1
<1>7. t[Len(t)].fn \in {"update_goal_chain", "die", "fatal_error_signal"}
  <2>1. t[Len(t)] = s[Len(s)]
    BY <1>2, <1>3
  <2> QED BY <2>1 DEF StackOK
<1>8. \A i \in DOMAIN t : FrameOK(t[i], x)
  BY <1>3, <1>4 DEF StackOK
<1>9. ASSUME NEW i \in DOMAIN t, t[i].fn = "update_goal_chain" PROVE i = Len(t)
  <2>1. i > 1 /\ i - 1 \in DOMAIN s /\ s[i - 1].fn = "update_goal_chain"
    BY <1>3, <1>4, <1>9
  <2>2. i - 1 = Len(s)
    BY <2>1 DEF StackOK
  <2> QED BY <1>2, <1>3, <2>2
<1>10. ASSUME NEW i \in DOMAIN t, i > 1 PROVE ~Holds(t[i])
  <2>1. i - 1 \in DOMAIN s /\ t[i] = s[i - 1]
    BY <1>4, <1>10
  <2> QED BY <1>5, <2>1 DEF StackOK
<1>11. ASSUME NEW i \in DOMAIN t, NEW j \in DOMAIN t, j < i, t[i].fn = "start_waiting_jobs"
       PROVE  t[j].fn \in {"reap_children", "die"}
  <2>1. i > 1 /\ i - 1 \in DOMAIN s /\ t[i] = s[i - 1]
    BY <1>3, <1>4, <1>11
  <2>2. CASE j = 1
    <3>1. i - 1 = 1 \/ 1 < i - 1
      BY <1>3, <2>1
    <3>2. s[1].fn \in {"start_waiting_jobs", "reap_children", "die"}
      BY <1>5, <1>11, <2>1, <3>1 DEF StackOK
    <3> QED BY <1>3, <2>2, <3>2
  <2>3. CASE j # 1
    <3>1. j - 1 \in DOMAIN s /\ t[j] = s[j - 1] /\ j - 1 < i - 1
      BY <1>3, <1>4, <1>11, <2>3
    <3> QED BY <1>11, <2>1, <3>1 DEF StackOK
  <2> QED BY <2>2, <2>3
<1>12. ASSUME NEW i \in DOMAIN t, NEW j \in DOMAIN t, j < i, HasFile(t[i]), HasFile(t[j])
       PROVE  Depth[t[i].file] < Depth[t[j].file]
  <2>1. i > 1 /\ i - 1 \in DOMAIN s /\ t[i] = s[i - 1]
    BY <1>3, <1>4, <1>12
  <2>2. CASE j = 1
    <3>1. s[1].fn # "update_goal_chain"
      <4>1. ASSUME s[1].fn = "update_goal_chain" PROVE FALSE
        <5>1. Len(s) = 1
          BY <1>5, <4>1 DEF StackOK
        <5>2. i - 1 = 1
          BY <1>2, <2>1, <5>1
        <5> QED BY <1>12, <2>1, <4>1, <5>2 DEF HasFile
      <4> QED BY <4>1
    <3>2. HasFile(s[1]) /\ Depth[s[1].file] < Depth[fr.file]
      BY <1>3, <1>12, <2>2, <3>1
    <3>3. i - 1 = 1 \/ (1 < i - 1 /\ Depth[s[i - 1].file] < Depth[s[1].file])
      <4>1. i - 1 = 1 \/ 1 < i - 1
        BY <1>3, <2>1
      <4> QED BY <1>5, <1>12, <2>1, <3>2, <4>1 DEF StackOK
    <3>4. CASE i - 1 = 1
      BY <1>3, <2>1, <2>2, <3>2, <3>4
    <3>5. CASE Depth[s[i - 1].file] < Depth[s[1].file]
      <4>1. s[i - 1].file \in Files /\ s[1].file \in Files /\ fr.file \in Files
        <5>1. HasFile(s[i - 1]) /\ HasFile(s[1]) /\ HasFile(fr)
          BY <1>3, <1>12, <2>1, <2>2, <3>2
        <5>2. \A g \in Frames : HasFile(g) => g.file \in Files
          BY FrameKinds DEF HasFile, UpdateFrames, JobFrames
        <5> QED BY <1>5, <1>6, <2>1, <5>1, <5>2
      <4> QED BY <1>3, <2>1, <2>2, <3>2, <3>5, <4>1, DepthFacts
    <3> QED BY <3>3, <3>4, <3>5
  <2>3. CASE j # 1
    <3>1. j - 1 \in DOMAIN s /\ t[j] = s[j - 1] /\ j - 1 < i - 1
      BY <1>3, <1>4, <1>12, <2>3
    <3> QED BY <1>12, <2>1, <3>1 DEF StackOK
  <2> QED BY <2>2, <2>3
<1>13. h => \A i \in DOMAIN t : t[i].fn \in {"fatal_error_signal", "reap_children", "die"}
  BY <1>3, <1>4 DEF StackOK
<1>14. StackOK(t, x, h)
  BY <1>3, <1>7, <1>8, <1>9, <1>10, <1>11, <1>12, <1>13 DEF StackOK
<1> QED BY <1>14 DEF t

\* A call that goes on as fr and calls another.
LEMMA CallIsPush ==
  ASSUME NEW a \in Frames, NEW b \in Frames, NEW s \in Seq(Frames)
  PROVE  <<a, b>> \o s = <<a>> \o (<<b>> \o s)
<1>1. <<a>> \in Seq(Frames) /\ <<b>> \in Seq(Frames)
  OBVIOUS
<1>2. <<a, b>> = <<a>> \o <<b>>
  <2> DEFINE t == <<a>> \o <<b>>
             u == <<a, b>>
  <2>1. t \in Seq(Frames) /\ Len(t) = 2 /\ t[1] = a /\ t[2] = b
    OBVIOUS
  <2>2. u \in Seq(Frames) /\ Len(u) = 2 /\ u[1] = a /\ u[2] = b
    OBVIOUS
  <2> HIDE DEF t, u
  <2>3. \A i \in 1..Len(t) : t[i] = u[i]
    BY <2>1, <2>2
  <2>4. t = u
    BY <2>1, <2>2, <2>3, SeqEqual
  <2> QED BY <2>4 DEF t, u
<1> QED BY <1>1, <1>2, ConcatAssociative

\* The calls below the innermost one know what they knew, if no more than c has changed,
\* and that file is either not theirs or has been started before.
LEMMA BelowKept ==
  ASSUME NEW s, NEW x, NEW y, NEW h, StackOK(s, x, h), NEW c,
         \A f \in Files : (f # c /\ NotStarted(x, f)) => NotStarted(y, f),
         ~NotStarted(x, c) \/ (c \in Files /\ HasFile(s[1]) /\ s[1].file = c),
         y.waiting_jobs # << >> \/ x.waiting_jobs = << >> \/ s[1].fn \notin {"reap_children", "die"}
  PROVE  BelowOK(s, y)
<1>1. s \in Seq(Frames) /\ s # << >>
  BY DEF StackOK
<1>2. SUFFICES ASSUME NEW i \in DOMAIN s, i > 1 PROVE FrameOK(s[i], y)
  BY DEF BelowOK
<1>3. 1 \in DOMAIN s /\ s[i] \in Frames /\ s[1] \in Frames /\ 1 < i
  BY <1>1, <1>2
<1>4. FrameOK(s[i], x)
  BY DEF StackOK
<1>5. ASSUME Busy(s[i]) PROVE NotStarted(y, s[i].file)
  <2>1. HasFile(s[i]) /\ s[i].file \in Files
    BY <1>3, <1>5, FrameKinds DEF Busy, HasFile, UpdateFrames, JobFrames
  <2>2. NotStarted(x, s[i].file)
    BY <1>4, <1>5 DEF FrameOK
  <2>3. s[i].file # c
    <3>1. CASE ~NotStarted(x, c)
      BY <2>2, <3>1
    <3>2. CASE c \in Files /\ HasFile(s[1]) /\ s[1].file = c
      <4>1. Depth[s[i].file] < Depth[c]
        BY <1>3, <2>1, <3>2 DEF StackOK
      <4>2. Depth[c] \in Nat
        BY <3>2, DepthFacts
      <4> QED BY <4>1, <4>2
    <3> QED BY <3>1, <3>2
  <2> QED BY <2>1, <2>2, <2>3
<1>6. (s[i].fn = "start_waiting_jobs" /\ s[i].pc = "take") => y.waiting_jobs # << >>
  <2>1. s[i].fn = "start_waiting_jobs" => s[1].fn \in {"reap_children", "die"}
    BY <1>3 DEF StackOK
  <2> QED BY <1>4, <2>1 DEF FrameOK
<1> QED BY <1>4, <1>5, <1>6 DEF FrameOK

\* Nothing has changed.
LEMMA BelowSame ==
  ASSUME NEW s, NEW x, NEW h, StackOK(s, x, h)
  PROVE  BelowOK(s, x)
BY DEF StackOK, BelowOK

\* The innermost call, and the hands after each kind of step.
LEMMA TopFacts ==
  ASSUME NEW s, NEW x, NEW h, StackOK(s, x, h)
  PROVE  /\ s \in Seq(Frames) /\ s # << >> /\ Head(s) = s[1] /\ s[1] \in Frames /\ FrameOK(s[1], x)
         /\ Tail(s) \in Seq(Frames)
         /\ s[1].fn \notin {"update_goal_chain", "die", "fatal_error_signal"} =>
              Hand(Tail(s)) = {}
         /\ h => s[1].fn \in {"fatal_error_signal", "reap_children", "die"}
<1>1. s \in Seq(Frames) /\ s # << >>
  BY DEF StackOK
<1>2. /\ Head(s) = s[1] /\ s[1] \in Frames /\ Tail(s) \in Seq(Frames) /\ 1 \in DOMAIN s
      /\ Len(s) \in Nat /\ DOMAIN s = 1..Len(s) /\ Len(Tail(s)) = Len(s) - 1
      /\ \A i \in 1..(Len(s) - 1) : Tail(s)[i] = s[i + 1]
  BY <1>1, TailFacts
<1>3. ASSUME s[1].fn \notin {"update_goal_chain", "die", "fatal_error_signal"}
      PROVE  Hand(Tail(s)) = {}
  <2>1. Len(s) # 1
    BY <1>3 DEF StackOK
  <2>2. 2 \in DOMAIN s /\ 2 > 1 /\ Tail(s)[1] = s[2] /\ Tail(s) # << >>
    BY <1>2, <2>1
  <2>3. Head(Tail(s)) = s[2]
    BY <1>2, <2>2
  <2>4. ~Holds(s[2])
    BY <2>2 DEF StackOK
  <2> QED BY <2>3, <2>4 DEF Hand
<1> QED BY <1>1, <1>2, <1>3 DEF StackOK

\* What is at the head of a stack that was made with one more frame.
LEMMA HeadCons ==
  ASSUME NEW s \in Seq(Frames), NEW fr \in Frames
  PROVE  Hand(<<fr>> \o s) = (IF Holds(fr) THEN {fr.pid} ELSE {}) /\ Head(<<fr>> \o s) = fr
<1>1. Head(<<fr>> \o s) = fr
  BY ConsFacts
<1> QED BY <1>1 DEF Hand

-----------------------------------------------------------------------------
(* make's data.                                                            *)

Others(x, y, f) == \A g \in Files : g # f => y.file[g] = x.file[g]
Lists(x, y) ==
  /\ y.children = x.children /\ y.waiting_jobs = x.waiting_jobs
  /\ y.job_slots_used = x.job_slots_used

\* The data with another record for one file, and the good input in use or not.
SetFile(x, f, r, used) ==
  [x EXCEPT !.file = [x.file EXCEPT ![f] = r], !.good_stdin_used = used]

LEMMA SetFileFacts ==
  ASSUME NEW x \in MakeData, NEW f \in Files, NEW r \in FileData, NEW used \in BOOLEAN
  PROVE  LET y == SetFile(x, f, r, used) IN
         /\ y \in MakeData /\ Others(x, y, f) /\ Lists(x, y)
         /\ y.good_stdin_used = used /\ y.file[f] = r
<1> DEFINE y == SetFile(x, f, r, used)
<1>1. y \in MakeData
  BY DEF MakeData, SetFile
<1>2. Others(x, y, f) /\ y.file[f] = r
  BY DEF MakeData, SetFile, Others
<1>3. Lists(x, y) /\ y.good_stdin_used = used
  BY DEF MakeData, SetFile, Lists
<1> QED BY <1>1, <1>2, <1>3

\* The fields of a file's record.
LEMMA FileFacts ==
  ASSUME NEW x \in MakeData, NEW f \in Files
  PROVE  /\ x.file[f] \in FileData /\ x.file[f].command_state \in States
         /\ x.file[f].update_status \in Status /\ x.file[f].left \in Nat
         /\ x.file[f].good_stdin \in BOOLEAN
         /\ x.children \in Seq(Files) /\ x.waiting_jobs \in Seq(Files) /\ x.job_slots_used \in Nat
         /\ x.good_stdin_used \in BOOLEAN
BY DEF MakeData, FileData

\* A file's record when notice_finished_file has seen it.
FinishedFile(r, status) == [r EXCEPT !.command_state = "cs_finished", !.update_status = status]

LEMMA FinishedFacts ==
  ASSUME NEW x \in MakeData, NEW f \in Files, NEW status \in Status
  PROVE  LET r == FinishedFile(x.file[f], status) IN
         /\ Finished(x, f, status) = SetFile(x, f, r, x.good_stdin_used)
         /\ r \in FileData /\ r.command_state = "cs_finished" /\ r.update_status = status
         /\ r.left = x.file[f].left /\ r.good_stdin = x.file[f].good_stdin
<1>1. x.file[f] \in FileData
  BY FileFacts
<1>2. Finished(x, f, status) =
        SetFile(x, f, FinishedFile(x.file[f], status), x.good_stdin_used)
  BY DEF Finished, SetFile, FinishedFile, MakeData
<1> QED BY <1>1, <1>2 DEF FinishedFile, FileData, States

\* A file's record when a command is taken from it.
TakenFile(r, left, stdin) == [r EXCEPT !.left = left, !.good_stdin = stdin]

LEMMA TakenFacts ==
  ASSUME NEW r \in FileData, NEW left \in Nat, NEW stdin \in BOOLEAN
  PROVE  LET q == TakenFile(r, left, stdin) IN
         q \in FileData /\ q.good_stdin = stdin /\ q.update_status = r.update_status
<1>1. TakenFile(r, left, stdin) \in FileData
  BY DEF FileData, TakenFile
<1>2. TakenFile(r, left, stdin).good_stdin = stdin
  BY DEF FileData, TakenFile
<1>3. TakenFile(r, left, stdin).update_status = r.update_status
  BY DEF FileData, TakenFile
<1> QED BY <1>1, <1>2, <1>3

\* The outcomes of start_job_command.
StartedOK(x, f, o) ==
  /\ o.m \in MakeData /\ Others(x, o.m, f) /\ Lists(x, o.m)
  /\ \/ /\ o.vfork = "none" /\ x.file[f].left = 0 /\ o.m.file[f].left = 0
        /\ o.m.file[f].command_state = "cs_finished" /\ o.m.file[f].update_status = 0
        /\ o.m.good_stdin_used = x.good_stdin_used
     \/ /\ o.vfork = "done" /\ x.file[f].left # 0
        /\ o.m.file[f].command_state = "cs_running"
        /\ o.m.file[f].update_status = x.file[f].update_status
        /\ o.m.file[f].good_stdin = ~x.good_stdin_used /\ o.m.good_stdin_used
     \/ /\ o.vfork = "failed" /\ x.file[f].left # 0 /\ opts.forks
        /\ o.m.file[f].command_state = "cs_finished" /\ o.m.file[f].update_status = 2
        /\ o.m.good_stdin_used

LEMMA StartFacts ==
  ASSUME NEW x \in MakeData, NEW f \in Files, NEW o \in start_job_command(x, f)
  PROVE  StartedOK(x, f, o)
<1> DEFINE q == x.file[f]
<1>0. q \in FileData /\ x.good_stdin_used \in BOOLEAN
  BY FileFacts
<1>1. CASE x.file[f].left = 0
  <2>1. o = [m |-> Finished(x, f, 0), vfork |-> "none"]
    BY <1>1 DEF start_job_command
  <2> DEFINE r == FinishedFile(q, 0)
  <2>2. /\ o.m = SetFile(x, f, r, x.good_stdin_used) /\ o.vfork = "none"
        /\ r \in FileData /\ r.command_state = "cs_finished" /\ r.update_status = 0
        /\ r.left = q.left
    BY <2>1, FinishedFacts DEF Status
  <2> HIDE DEF q, r
  <2>3. /\ o.m \in MakeData /\ Others(x, o.m, f) /\ Lists(x, o.m)
        /\ o.m.good_stdin_used = x.good_stdin_used /\ o.m.file[f] = r
    BY <1>0, <2>2, SetFileFacts
  <2> QED BY <1>1, <2>2, <2>3 DEF StartedOK, q
<1>2. CASE x.file[f].left # 0
  <2> DEFINE b == ~x.good_stdin_used
             k == q.left - 1
             u == TRUE
             p == TakenFile(q, k, b)
             y == [x EXCEPT !.file[f].left = @ - 1, !.file[f].good_stdin = ~x.good_stdin_used,
                            !.good_stdin_used = TRUE]
  <2>1. y = SetFile(x, f, p, u)
    BY DEF MakeData, SetFile, TakenFile
  <2>2. \/ o = [m |-> [y EXCEPT !.file[f].command_state = "cs_running"], vfork |-> "done"]
        \/ o = [m |-> Finished(y, f, 2), vfork |-> "failed"] /\ opts.forks
    BY <1>2 DEF start_job_command
  <2> HIDE DEF y
  <2>3. /\ p \in FileData /\ p.good_stdin = b
        /\ p.update_status = q.update_status
    <3>1. q.left \in Nat /\ q.left # 0
      BY <1>0, <1>2 DEF FileData
    <3>2. b \in BOOLEAN /\ k \in Nat
      BY <1>0, <3>1
    <3> HIDE DEF q, b, k
    <3> QED BY <1>0, <3>2, TakenFacts
  <2>4. u \in BOOLEAN
    OBVIOUS
  <2> HIDE DEF q, p, b, k, u
  <2>5. /\ y \in MakeData /\ Others(x, y, f) /\ Lists(x, y) /\ y.good_stdin_used = u
        /\ y.file[f] = p
    BY <2>1, <2>3, <2>4, SetFileFacts
  <2>6. CASE o = [m |-> [y EXCEPT !.file[f].command_state = "cs_running"], vfork |-> "done"]
    <3> DEFINE r == [p EXCEPT !.command_state = "cs_running"]
    <3>1. o.m = SetFile(y, f, r, u) /\ o.vfork = "done"
      BY <2>5, <2>6 DEF SetFile, MakeData
    <3>2. /\ r \in FileData /\ r.command_state = "cs_running" /\ r.good_stdin = p.good_stdin
          /\ r.update_status = p.update_status
      BY <2>3 DEF FileData, States
    <3> HIDE DEF r
    <3>3. /\ o.m \in MakeData /\ Others(y, o.m, f) /\ Lists(y, o.m) /\ o.m.good_stdin_used = u
          /\ o.m.file[f] = r
      BY <2>4, <2>5, <3>1, <3>2, SetFileFacts
    <3>4. Others(x, o.m, f) /\ Lists(x, o.m)
      BY <2>5, <3>3 DEF Others, Lists
    <3> QED BY <1>2, <2>3, <3>1, <3>2, <3>3, <3>4 DEF StartedOK, q, u, b
  <2>7. CASE o = [m |-> Finished(y, f, 2), vfork |-> "failed"] /\ opts.forks
    <3> DEFINE r == FinishedFile(p, 2)
    <3>1. /\ o.m = SetFile(y, f, r, u) /\ o.vfork = "failed"
          /\ r \in FileData /\ r.command_state = "cs_finished" /\ r.update_status = 2
      BY <2>5, <2>7, FinishedFacts DEF Status
    <3> HIDE DEF r
    <3>2. /\ o.m \in MakeData /\ Others(y, o.m, f) /\ Lists(y, o.m) /\ o.m.good_stdin_used = u
          /\ o.m.file[f] = r
      BY <2>4, <2>5, <3>1, SetFileFacts
    <3>3. Others(x, o.m, f) /\ Lists(x, o.m)
      BY <2>5, <3>2 DEF Others, Lists
    <3> QED BY <1>2, <2>7, <3>1, <3>2, <3>3 DEF StartedOK, u
  <2> QED BY <2>2, <2>6, <2>7
<1> QED BY <1>1, <1>2

\* The outcomes of start_waiting_job.
WaitingStartedOK(x, f, o) ==
  /\ o.m \in MakeData /\ Others(x, o.m, f)
  /\ \/ /\ ~o.started /\ o.vfork = "none" /\ opts.load /\ x.job_slots_used > 0
        /\ o.m.children = x.children /\ o.m.waiting_jobs = <<f>> \o x.waiting_jobs
        /\ o.m.job_slots_used = x.job_slots_used /\ o.m.good_stdin_used = x.good_stdin_used
        /\ o.m.file[f].command_state = "cs_running"
        /\ o.m.file[f].update_status = x.file[f].update_status
     \/ /\ o.started /\ o.vfork = "none" /\ x.file[f].left = 0 /\ o.m.file[f].left = 0
        /\ Lists(x, o.m)
        /\ o.m.file[f].command_state = "cs_finished" /\ o.m.file[f].update_status = 0
        /\ o.m.good_stdin_used = x.good_stdin_used
     \/ /\ o.started /\ o.vfork = "done"
        /\ o.m.children = <<f>> \o x.children /\ o.m.waiting_jobs = x.waiting_jobs
        /\ o.m.job_slots_used = x.job_slots_used + 1
        /\ o.m.file[f].command_state = "cs_running"
        /\ o.m.file[f].update_status = x.file[f].update_status
        /\ o.m.file[f].good_stdin = ~x.good_stdin_used /\ o.m.good_stdin_used
     \/ /\ o.started /\ o.vfork = "failed" /\ opts.forks /\ Lists(x, o.m)
        /\ o.m.file[f].command_state = "cs_finished" /\ o.m.file[f].update_status = 2
        /\ o.m.good_stdin_used

LEMMA WaitingFacts ==
  ASSUME NEW x \in MakeData, NEW f \in Files, NEW o \in start_waiting_job(x, f)
  PROVE  WaitingStartedOK(x, f, o)
<1>0. x.children \in Seq(Files) /\ x.waiting_jobs \in Seq(Files) /\ x.job_slots_used \in Nat
  BY FileFacts
<1>1. CASE o = [m |-> Postpone(x, f), vfork |-> "none", started |-> FALSE]
           /\ opts.load /\ x.job_slots_used > 0
  <2> DEFINE q == x.file[f]
             r == [q EXCEPT !.command_state = "cs_running"]
             y == SetFile(x, f, r, x.good_stdin_used)
             w == <<f>> \o x.waiting_jobs
  <2>1. q \in FileData /\ x.good_stdin_used \in BOOLEAN /\ w \in Seq(Files)
    BY <1>0, FileFacts, ConsFacts
  <2>2. o.m = [y EXCEPT !.waiting_jobs = w]
    BY <1>1 DEF Postpone, MakeData, SetFile
  <2> HIDE DEF q, w
  <2>3. r \in FileData /\ r.command_state = "cs_running" /\ r.update_status = q.update_status
    BY <2>1 DEF FileData, States
  <2> HIDE DEF r
  <2>4. /\ y \in MakeData /\ Others(x, y, f) /\ Lists(x, y)
        /\ y.good_stdin_used = x.good_stdin_used /\ y.file[f] = r
    BY <2>1, <2>3, SetFileFacts
  <2> HIDE DEF y
  <2>5. /\ o.m \in MakeData /\ o.m.file = y.file /\ o.m.waiting_jobs = w
        /\ o.m.children = y.children /\ o.m.job_slots_used = y.job_slots_used
        /\ o.m.good_stdin_used = y.good_stdin_used
    BY <2>1, <2>2, <2>4 DEF MakeData
  <2> QED BY <1>1, <2>3, <2>4, <2>5 DEF WaitingStartedOK, Others, Lists, q, w
<1>2. ASSUME NEW p \in start_job_command(x, f),
             o = [m |-> IF p.vfork = "done" THEN PutOnChain(p.m, f) ELSE p.m, vfork |-> p.vfork,
                  started |-> TRUE]
      PROVE  WaitingStartedOK(x, f, o)
  <2>1. StartedOK(x, f, p)
    BY StartFacts
  <2>2. CASE p.vfork = "done"
    <3> DEFINE y == p.m
               c == <<f>> \o x.children
    <3>1. /\ y \in MakeData /\ Others(x, y, f) /\ Lists(x, y)
          /\ y.file[f].command_state = "cs_running"
          /\ y.file[f].update_status = x.file[f].update_status
          /\ y.file[f].good_stdin = ~x.good_stdin_used /\ y.good_stdin_used
      BY <2>1, <2>2 DEF StartedOK
    <3>2. c \in Seq(Files)
      BY <1>0, ConsFacts
    <3> DEFINE n == y.job_slots_used + 1
    <3>3. o.m = [y EXCEPT !.children = c, !.job_slots_used = n] /\ n \in Nat
      BY <1>2, <2>2, <3>1 DEF PutOnChain, Lists, MakeData
    <3>4. o.vfork = "done" /\ o.started
      BY <1>2, <2>2
    <3> HIDE DEF y, c, n
    <3>5. /\ o.m \in MakeData /\ o.m.file = y.file /\ o.m.waiting_jobs = y.waiting_jobs
          /\ o.m.children = c /\ o.m.job_slots_used = n
          /\ o.m.good_stdin_used = y.good_stdin_used
      BY <3>1, <3>2, <3>3 DEF MakeData
    <3>6. o.m.job_slots_used = x.job_slots_used + 1
      BY <3>1, <3>5 DEF Lists, n
    <3> QED BY <3>1, <3>4, <3>5, <3>6 DEF WaitingStartedOK, Others, Lists, c
  <2>3. CASE p.vfork # "done"
    <3>1. o.m = p.m /\ o.vfork = p.vfork /\ o.started
      BY <1>2, <2>3
    <3> QED BY <2>1, <2>3, <3>1 DEF WaitingStartedOK, StartedOK
  <2> QED BY <2>2, <2>3
<1> QED BY <1>1, <1>2 DEF start_waiting_job

\* The outcomes of the end of a process.  The good input is free if its child had it.
Freed(c) == m.good_stdin_used /\ ~m.file[c].good_stdin

ProcessedOK(c, failed, o) ==
  /\ o.m \in MakeData /\ Others(m, o.m, c) /\ Lists(m, o.m)
  /\ o.failed \in BOOLEAN /\ (o.failed <=> (failed /\ c \notin NoError))
  /\ \/ /\ o.vfork = "none" /\ o.pc = "remove" /\ o.m.good_stdin_used = Freed(c)
        /\ o.m.file[c].command_state = m.file[c].command_state
        /\ o.m.file[c].left = m.file[c].left
        /\ \/ o.failed /\ o.m.file[c].update_status = 2
           \/ ~o.failed /\ m.file[c].left = 0 /\ o.m.file[c].update_status = 0
           \/ ~o.failed /\ handling /\ o.m.file[c].update_status = 2
     \/ /\ o.vfork = "done" /\ o.pc = "test" /\ ~o.failed
        /\ o.m.file[c].command_state = "cs_running"
        /\ o.m.file[c].update_status = m.file[c].update_status
        /\ o.m.file[c].good_stdin = ~Freed(c) /\ o.m.good_stdin_used
     \/ /\ o.vfork = "failed" /\ o.pc = "remove" /\ ~o.failed /\ opts.forks
        /\ o.m.file[c].command_state = "cs_finished" /\ o.m.file[c].update_status = 2
        /\ o.m.good_stdin_used

LEMMA ProcessFacts ==
  ASSUME m \in MakeData, NEW c \in Files, NEW failed \in BOOLEAN, NEW o \in Process(c, failed)
  PROVE  ProcessedOK(c, failed, o)
<1> DEFINE x == IF m.file[c].good_stdin THEN [m EXCEPT !.good_stdin_used = FALSE] ELSE m
           lost2 == failed /\ c \notin NoError
<1>1. /\ x \in MakeData /\ x.file = m.file /\ Lists(m, x)
  BY DEF MakeData, Lists
<1>2. x.good_stdin_used = Freed(c)
  <2>1. m.good_stdin_used \in BOOLEAN /\ m.file[c].good_stdin \in BOOLEAN
    BY FileFacts
  <2>2. CASE m.file[c].good_stdin
    <3>1. x.good_stdin_used = FALSE
      BY <2>2 DEF MakeData
    <3>2. Freed(c) = FALSE
      BY <2>2 DEF Freed
    <3> QED BY <3>1, <3>2
  <2>3. CASE ~m.file[c].good_stdin
    BY <2>1, <2>3 DEF Freed
  <2> QED BY <2>1, <2>2, <2>3
<1>3. /\ lost2 => o = Outcome([x EXCEPT !.file[c].update_status = 2], "none", TRUE, "remove")
      /\ (~lost2 /\ m.file[c].left = 0) =>
            o = Outcome([x EXCEPT !.file[c].update_status = 0], "none", FALSE, "remove")
      /\ (~lost2 /\ m.file[c].left # 0 /\ handling) =>
            o = Outcome([x EXCEPT !.file[c].update_status = 2], "none", FALSE, "remove")
      /\ (~lost2 /\ m.file[c].left # 0 /\ ~handling) =>
            \E p \in start_job_command(x, c) :
               o = Outcome(p.m, p.vfork, FALSE, IF p.vfork = "done" THEN "test" ELSE "remove")
  BY DEF Process
<1>4. lost2 \in BOOLEAN
  OBVIOUS
<1> HIDE DEF x, lost2
<1>5. ASSUME NEW status \in Status, NEW fl \in BOOLEAN, fl <=> lost2,
             fl => status = 2, (~fl /\ status = 0) => m.file[c].left = 0,
             (~fl /\ status # 0) => handling,
             o = Outcome([x EXCEPT !.file[c].update_status = status], "none", fl, "remove")
      PROVE  ProcessedOK(c, failed, o)
  <2> DEFINE q == x.file[c]
             r == [q EXCEPT !.update_status = status]
  <2>1. q \in FileData /\ x.good_stdin_used \in BOOLEAN
    BY <1>1, FileFacts
  <2>2. o.m = SetFile(x, c, r, x.good_stdin_used)
    BY <1>1, <1>5 DEF Outcome, SetFile, MakeData
  <2> HIDE DEF q
  <2>3. /\ r \in FileData /\ r.update_status = status /\ r.command_state = q.command_state
        /\ r.left = q.left
    BY <2>1 DEF FileData
  <2> HIDE DEF r
  <2>4. /\ o.m \in MakeData /\ Others(x, o.m, c) /\ Lists(x, o.m)
        /\ o.m.good_stdin_used = x.good_stdin_used /\ o.m.file[c] = r
    BY <1>1, <2>1, <2>2, <2>3, SetFileFacts
  <2>5. Others(m, o.m, c) /\ Lists(m, o.m)
    BY <1>1, <2>4 DEF Others, Lists
  <2>6. o.vfork = "none" /\ o.pc = "remove" /\ o.failed = fl
    BY <1>5 DEF Outcome
  <2>7. /\ o.m.good_stdin_used = Freed(c)
        /\ o.m.file[c].command_state = m.file[c].command_state
        /\ o.m.file[c].left = m.file[c].left /\ o.m.file[c].update_status = status
    BY <1>1, <1>2, <2>3, <2>4 DEF q
  <2>8. status = 0 \/ status = 2
    BY DEF Status
  <2>9. o.failed \in BOOLEAN /\ (o.failed <=> (failed /\ c \notin NoError))
    BY <1>5, <2>6 DEF lost2
  <2>10. \/ o.failed /\ o.m.file[c].update_status = 2
         \/ ~o.failed /\ m.file[c].left = 0 /\ o.m.file[c].update_status = 0
         \/ ~o.failed /\ handling /\ o.m.file[c].update_status = 2
    BY <1>5, <2>6, <2>7, <2>8
  <2> QED BY <2>4, <2>5, <2>6, <2>7, <2>9, <2>10 DEF ProcessedOK
<1>6. 0 \in Status /\ 2 \in Status /\ 2 # 0 /\ TRUE \in BOOLEAN /\ FALSE \in BOOLEAN
  BY DEF Status
<1>7. CASE lost2
  BY <1>3, <1>5, <1>6, <1>7
<1>8. CASE ~lost2 /\ m.file[c].left = 0
  BY <1>3, <1>5, <1>6, <1>8
<1>9. CASE ~lost2 /\ m.file[c].left # 0 /\ handling
  BY <1>3, <1>5, <1>6, <1>9
<1>10. CASE ~lost2 /\ m.file[c].left # 0 /\ ~handling
  <2>1. PICK p \in start_job_command(x, c) :
          o = Outcome(p.m, p.vfork, FALSE, IF p.vfork = "done" THEN "test" ELSE "remove")
    BY <1>3, <1>10
  <2>2. StartedOK(x, c, p)
    BY <1>1, StartFacts
  <2>3. /\ o.m = p.m /\ o.vfork = p.vfork /\ o.failed = FALSE
        /\ o.pc = IF p.vfork = "done" THEN "test" ELSE "remove"
    BY <2>1 DEF Outcome
  <2>4. o.m \in MakeData /\ Others(m, o.m, c) /\ Lists(m, o.m)
    BY <1>1, <2>2, <2>3 DEF StartedOK, Others, Lists
  <2>5. o.failed \in BOOLEAN /\ ~o.failed /\ (o.failed <=> (failed /\ c \notin NoError))
    BY <1>10, <2>3 DEF lost2
  <2>6. \/ /\ o.vfork = "done" /\ o.pc = "test"
           /\ o.m.file[c].command_state = "cs_running"
           /\ o.m.file[c].update_status = m.file[c].update_status
           /\ o.m.file[c].good_stdin = ~Freed(c) /\ o.m.good_stdin_used
        \/ /\ o.vfork = "failed" /\ o.pc = "remove" /\ opts.forks
           /\ o.m.file[c].command_state = "cs_finished" /\ o.m.file[c].update_status = 2
           /\ o.m.good_stdin_used
    BY <1>1, <1>2, <1>10, <2>2, <2>3 DEF StartedOK
  <2> QED BY <2>4, <2>5, <2>6 DEF ProcessedOK
<1> QED BY <1>4, <1>7, <1>8, <1>9, <1>10

\* A child that is off the chain.
LEMMA RemovedFacts ==
  ASSUME m \in MakeData, NEW c \in Chain, IsInjective(m.children),
         m.job_slots_used = Len(m.children)
  PROVE  LET y == Removed(c) IN
         /\ y \in MakeData /\ c \in Files /\ Others(m, y, c)
         /\ y.waiting_jobs = m.waiting_jobs
         /\ ToSet(y.children) = Chain \ {c} /\ IsInjective(y.children)
         /\ Len(y.children) = Len(m.children) - 1 /\ y.job_slots_used = m.job_slots_used - 1
         /\ y.good_stdin_used = m.good_stdin_used
         /\ y.file[c].update_status = m.file[c].update_status
         /\ y.file[c].left = m.file[c].left /\ y.file[c].good_stdin = m.file[c].good_stdin
         /\ y.file[c].command_state =
              (IF handling THEN m.file[c].command_state ELSE "cs_finished")
<1> DEFINE x == IF handling THEN m ELSE Finished(m, c, m.file[c].update_status)
           ch == RemoveFirst(m.children, c)
           y == Removed(c)
<1>1. m.children \in Seq(Files)
  BY DEF MakeData
<1>2. c \in Files
  BY <1>1 DEF Chain, ToSet
<1>3. /\ x \in MakeData /\ Others(m, x, c) /\ Lists(m, x)
      /\ x.good_stdin_used = m.good_stdin_used
      /\ x.file[c].update_status = m.file[c].update_status
      /\ x.file[c].left = m.file[c].left /\ x.file[c].good_stdin = m.file[c].good_stdin
      /\ x.file[c].command_state =
           (IF handling THEN m.file[c].command_state ELSE "cs_finished")
  <2>1. CASE handling
    BY <2>1 DEF Others, Lists
  <2>2. CASE ~handling
    <3> DEFINE q == m.file[c]
               s == q.update_status
               r == FinishedFile(q, s)
    <3>1. s \in Status /\ m.good_stdin_used \in BOOLEAN
      BY <1>2, FileFacts
    <3>2. x = Finished(m, c, s)
      BY <2>2
    <3> HIDE DEF s, x
    <3>3. /\ x = SetFile(m, c, r, m.good_stdin_used) /\ r \in FileData
          /\ r.command_state = "cs_finished" /\ r.update_status = s
          /\ r.left = q.left /\ r.good_stdin = q.good_stdin
      BY <1>2, <3>1, <3>2, FinishedFacts
    <3> HIDE DEF r, q
    <3>4. /\ x \in MakeData /\ Others(m, x, c) /\ Lists(m, x)
          /\ x.good_stdin_used = m.good_stdin_used /\ x.file[c] = r
      BY <1>2, <3>1, <3>3, SetFileFacts
    <3> QED BY <2>2, <3>3, <3>4 DEF q, s
  <2> QED BY <2>1, <2>2
<1>4. /\ ch \in Seq(Files) /\ Len(ch) = Len(m.children) - 1 /\ ToSet(ch) = Chain \ {c}
      /\ IsInjective(ch)
  BY <1>1, RemoveList DEF Chain
<1>5. m.job_slots_used \in Nat /\ Len(ch) \in Nat /\ m.job_slots_used > 0
  BY <1>1, <1>4
<1>6. y = [x EXCEPT !.children = ch, !.job_slots_used = m.job_slots_used - 1]
  BY <1>3, <1>5 DEF Removed, Lists, MakeData
<1>7. m.job_slots_used - 1 \in Nat
  BY <1>5
<1> HIDE DEF x, ch, y
<1>8. /\ y \in MakeData /\ y.file = x.file /\ y.waiting_jobs = x.waiting_jobs /\ y.children = ch
      /\ y.job_slots_used = m.job_slots_used - 1 /\ y.good_stdin_used = x.good_stdin_used
  BY <1>3, <1>4, <1>6, <1>7 DEF MakeData
<1>9. Others(m, y, c)
  BY <1>3, <1>8 DEF Others
<1> QED BY <1>2, <1>3, <1>4, <1>8, <1>9 DEF Lists, y

-----------------------------------------------------------------------------
(* The steps of the stack that the actions take.                           *)

\* The frames of new calls.
LEMMA NewFrames ==
  /\ \A b, e \in BOOLEAN : ReapCall(b, e) \in Frames /\ ReapCall(b, e).fn = "reap_children"
                           /\ ~Holds(ReapCall(b, e)) /\ \A x : FrameOK(ReapCall(b, e), x)
  /\ WaitingCall \in Frames /\ WaitingCall.fn = "start_waiting_jobs" /\ ~Holds(WaitingCall)
  /\ \A x : FrameOK(WaitingCall, x)
  /\ \A f \in Files : /\ UpdateCall(f) \in Frames /\ UpdateCall(f).fn = "update_file_1"
                      /\ UpdateCall(f).file = f /\ ~Holds(UpdateCall(f))
                      /\ \A x : NotStarted(x, f) => FrameOK(UpdateCall(f), x)
  /\ \A f \in Files : /\ JobCall(f) \in Frames /\ JobCall(f).fn = "new_job" /\ JobCall(f).file = f
                      /\ ~Holds(JobCall(f)) /\ \A x : NotStarted(x, f) => FrameOK(JobCall(f), x)
  /\ \A st \in Status : /\ DieCall(st) \in Frames /\ DieCall(st).fn = "die"
                        /\ ~Holds(DieCall(st)) /\ \A x : FrameOK(DieCall(st), x)
  /\ SignalCall \in Frames /\ SignalCall.fn = "fatal_error_signal" /\ ~Holds(SignalCall)
  /\ \A x : FrameOK(SignalCall, x)
<1> USE DEF Frames, FrameOK, Holds, Busy
<1>1. ASSUME NEW b \in BOOLEAN, NEW e \in BOOLEAN
      PROVE  /\ ReapCall(b, e) \in Frames /\ ReapCall(b, e).fn = "reap_children"
             /\ ~Holds(ReapCall(b, e)) /\ \A x : FrameOK(ReapCall(b, e), x)
  BY DEF ReapCall, ReapFrames
<1>2. /\ WaitingCall \in Frames /\ WaitingCall.fn = "start_waiting_jobs" /\ ~Holds(WaitingCall)
      /\ \A x : FrameOK(WaitingCall, x)
  BY DEF WaitingCall, WaitingFrames
<1>3. ASSUME NEW f \in Files
      PROVE  /\ UpdateCall(f) \in Frames /\ UpdateCall(f).fn = "update_file_1"
             /\ UpdateCall(f).file = f /\ ~Holds(UpdateCall(f))
             /\ \A x : NotStarted(x, f) => FrameOK(UpdateCall(f), x)
  BY DEF UpdateCall, UpdateFrames, Status
<1>4. ASSUME NEW f \in Files
      PROVE  /\ JobCall(f) \in Frames /\ JobCall(f).fn = "new_job" /\ JobCall(f).file = f
             /\ ~Holds(JobCall(f)) /\ \A x : NotStarted(x, f) => FrameOK(JobCall(f), x)
  BY DEF JobCall, JobFrames
<1>5. ASSUME NEW st \in Status
      PROVE  /\ DieCall(st) \in Frames /\ DieCall(st).fn = "die"
             /\ ~Holds(DieCall(st)) /\ \A x : FrameOK(DieCall(st), x)
  BY DEF DieCall, DieFrames
<1>6. /\ SignalCall \in Frames /\ SignalCall.fn = "fatal_error_signal" /\ ~Holds(SignalCall)
      /\ \A x : FrameOK(SignalCall, x)
  BY DEF SignalCall, SignalFrames
<1> QED BY <1>1, <1>2, <1>3, <1>4, <1>5, <1>6

\* The innermost call goes on.
LEMMA GoesOn ==
  ASSUME NEW s, NEW x, NEW y, NEW h, StackOK(s, x, h), BelowOK(s, y),
         NEW fr \in Frames, FrameOK(fr, y), fr.fn = s[1].fn, HasFile(fr) => fr.file = s[1].file
  PROVE  /\ StackOK(<<fr>> \o Tail(s), y, h) /\ (<<fr>> \o Tail(s))[1] = fr
         /\ Hand(<<fr>> \o Tail(s)) = (IF Holds(fr) THEN {fr.pid} ELSE {})
<1>1. /\ Tail(s) \in Seq(Frames)
      /\ h => fr.fn \in {"fatal_error_signal", "reap_children", "die"}
  BY TopFacts
<1>2. HasFile(fr) => HasFile(s[1])
  BY DEF HasFile
<1>3. StackOK(<<fr>> \o Tail(s), y, h)
  BY <1>1, <1>2, GotoOK
<1>4. (<<fr>> \o Tail(s))[1] = fr
  BY <1>1, ConsFacts
<1>5. Hand(<<fr>> \o Tail(s)) = (IF Holds(fr) THEN {fr.pid} ELSE {})
  BY <1>1, HeadCons
<1> QED BY <1>3, <1>4, <1>5

\* The innermost call calls another.
LEMMA Calls ==
  ASSUME NEW s, NEW x, NEW h, StackOK(s, x, h), NEW fr \in Frames, FrameOK(fr, x),
         ~Holds(s[1]), ~Holds(fr), fr.fn # "update_goal_chain",
         fr.fn \in {"reap_children", "die"} \/
           s[1].fn \in {"update_goal_chain", "update_file_1", "new_job"},
         HasFile(fr) => \/ s[1].fn = "update_goal_chain"
                        \/ HasFile(s[1]) /\ Depth[s[1].file] < Depth[fr.file],
         h => fr.fn \in {"fatal_error_signal", "reap_children", "die"}
  PROVE  StackOK(<<fr>> \o s, x, h) /\ Hand(<<fr>> \o s) = {}
<1>1. s \in Seq(Frames)
  BY DEF StackOK
<1>2. StackOK(<<fr>> \o s, x, h)
  BY PushOK
<1> QED BY <1>1, <1>2, HeadCons

\* It goes on as fr after it has called another.
LEMMA GoesOnAndCalls ==
  ASSUME NEW s, NEW x, NEW y, NEW h, StackOK(s, x, h), BelowOK(s, y),
         NEW fr \in Frames, FrameOK(fr, y), fr.fn = s[1].fn, HasFile(fr) => fr.file = s[1].file,
         NEW to \in Frames, FrameOK(to, y), ~Holds(fr), ~Holds(to), to.fn # "update_goal_chain",
         to.fn \in {"reap_children", "die"} \/
           fr.fn \in {"update_goal_chain", "update_file_1", "new_job"},
         HasFile(to) => \/ fr.fn = "update_goal_chain"
                        \/ HasFile(fr) /\ Depth[fr.file] < Depth[to.file],
         h => to.fn \in {"fatal_error_signal", "reap_children", "die"}
  PROVE  StackOK(<<to, fr>> \o Tail(s), y, h) /\ Hand(<<to, fr>> \o Tail(s)) = {}
<1> DEFINE t == <<fr>> \o Tail(s)
<1>1. Tail(s) \in Seq(Frames) /\ (h => fr.fn \in {"fatal_error_signal", "reap_children", "die"})
  BY TopFacts
<1>2. StackOK(t, y, h) /\ t[1] = fr
  <2>1. HasFile(fr) => HasFile(s[1])
    BY DEF HasFile
  <2>2. StackOK(t, y, h)
    BY <1>1, <2>1, GotoOK
  <2>3. t[1] = fr
    BY <1>1, ConsFacts
  <2> QED BY <2>2, <2>3
<1>3. <<to, fr>> \o Tail(s) = <<to>> \o t
  BY <1>1, CallIsPush
<1> HIDE DEF t
<1> QED BY <1>2, <1>3, Calls

\* The innermost call returns.
LEMMA Returns ==
  ASSUME NEW s, NEW x, NEW y, NEW h, StackOK(s, x, h), BelowOK(s, y),
         s[1].fn \notin {"update_goal_chain", "die", "fatal_error_signal"}
  PROVE  StackOK(Tail(s), y, h) /\ Hand(Tail(s)) = {}
BY ReturnOK, TopFacts

\* Without a child in hand, before and after, nothing but the stack and the counters changes.
LEMMA QuietStep ==
  ASSUME JobsInv, UNCHANGED <<m, proc, lost, handling, signals, opts>>,
         dead' \in Nat, dying' \in BOOLEAN, exit' \in {"no", "0", "2", "signal"},
         StackOK(stack', m, handling), Hand(stack) = {}, Hand(stack') = {}, ExitOK'
  PROVE  JobsInv'
<1>1. Types'
  BY DEF JobsInv, Types
<1>2. StackOK(stack, m, handling)'
  OBVIOUS
<1>3. Chain' = Chain /\ Alive' = Alive /\ Waiting' = Waiting
  BY DEF Chain, Alive, Live, Zombies, Waiting
<1>4. ChainOK'
  BY <1>3 DEF JobsInv, ChainOK, NotStarted
<1>5. Holders' = Holders
  BY <1>3 DEF Holders
<1>6. ShareOK'
  BY <1>5 DEF JobsInv, ShareOK
<1> QED BY <1>1, <1>2, <1>4, <1>6 DEF JobsInv

\* What is known of the innermost call.
LEMMA TopKnown ==
  ASSUME JobsInv
  PROVE  /\ Types /\ StackOK(stack, m, handling) /\ BelowOK(stack, m)
         /\ Top = stack[1] /\ Top \in Frames /\ FrameOK(Top, m)
         /\ ~Holds(Top) => Hand(stack) = {}
         /\ dead \in Nat /\ dying \in BOOLEAN /\ exit \in {"no", "0", "2", "signal"}
         /\ handling => Top.fn \in {"fatal_error_signal", "reap_children", "die"}
         /\ stack \in Seq(Frames)
<1>1. Types /\ StackOK(stack, m, handling)
  BY DEF JobsInv
<1>2. BelowOK(stack, m)
  BY <1>1, BelowSame
<1> QED BY <1>1, <1>2, TopFacts DEF Types, Top, Hand

LEMMA WaitingReapsStep == ASSUME JobsInv, WaitingReaps PROVE JobsInv'
<1> USE DEF WaitingReaps, Running
<1>1. /\ Types /\ StackOK(stack, m, handling) /\ BelowOK(stack, m) /\ Top = stack[1]
      /\ Top \in WaitingFrames /\ Hand(stack) = {} /\ ~handling
  BY TopKnown, FrameKinds DEF Holds
<1>2. StackOK(stack', m, handling) /\ Hand(stack') = {}
  <2>1. CASE m.waiting_jobs = << >>
    BY <1>1, <2>1, Returns DEF Return
  <2>2. CASE m.waiting_jobs # << >>
    <3> DEFINE fr == [Top EXCEPT !.pc = "take"]
    <3>1. fr \in Frames /\ fr.fn = "start_waiting_jobs" /\ ~Holds(fr) /\ FrameOK(fr, m) /\ ~HasFile(fr)
      BY <1>1, <2>2 DEF Frames, WaitingFrames, Holds, FrameOK, Busy, HasFile
    <3>2. stack' = <<ReapCall(FALSE, FALSE), fr>> \o Tail(stack)
      BY <2>2 DEF Call
    <3> DEFINE to == ReapCall(FALSE, FALSE)
    <3>3. to \in Frames /\ to.fn = "reap_children" /\ ~Holds(to) /\ FrameOK(to, m) /\ ~HasFile(to)
      BY NewFrames DEF HasFile
    <3> HIDE DEF fr, to
    <3>4. StackOK(<<to, fr>> \o Tail(stack), m, handling) /\ Hand(<<to, fr>> \o Tail(stack)) = {}
      BY <1>1, <3>1, <3>3, GoesOnAndCalls
    <3> QED BY <3>2, <3>4 DEF to
  <2> QED BY <2>1, <2>2
<1> QED BY <1>1, <1>2, QuietStep, TopKnown DEF ExitOK, Live, JobsInv

LEMMA JobQuietStep ==
  ASSUME JobsInv, JobStartsWaiting \/ JobReaps \/ JobWaitsForSlot \/ JobIsLinear PROVE JobsInv'
<1> USE DEF JobStartsWaiting, JobReaps, JobWaitsForSlot, JobIsLinear, Running
<1>1. /\ Types /\ StackOK(stack, m, handling) /\ BelowOK(stack, m) /\ Top = stack[1]
      /\ Top \in JobFrames /\ Hand(stack) = {} /\ ~handling /\ FrameOK(Top, m) /\ ~Holds(Top)
      /\ Top.fn = "new_job"
  BY TopKnown, FrameKinds DEF Holds
<1>2. StackOK(stack', m, handling) /\ Hand(stack') = {}
  <2>1. CASE JobStartsWaiting
    <3> DEFINE fr == [Top EXCEPT !.pc = "reap"]
               to == WaitingCall
    <3>1. /\ fr \in Frames /\ fr.fn = "new_job" /\ ~Holds(fr) /\ FrameOK(fr, m)
          /\ fr.file = Top.file
      BY <1>1, <2>1 DEF Frames, JobFrames, Holds, FrameOK, Busy
    <3>2. stack' = <<to, fr>> \o Tail(stack)
      BY <2>1 DEF Call
    <3>3. /\ to \in Frames /\ to.fn = "start_waiting_jobs" /\ ~Holds(to) /\ FrameOK(to, m)
          /\ ~HasFile(to)
      BY NewFrames DEF HasFile
    <3> HIDE DEF fr, to
    <3> QED BY <1>1, <3>1, <3>2, <3>3, GoesOnAndCalls
  <2>2. CASE JobReaps
    <3> DEFINE fr == [Top EXCEPT !.pc = "slot"]
               to == ReapCall(FALSE, FALSE)
    <3>1. /\ fr \in Frames /\ fr.fn = "new_job" /\ ~Holds(fr) /\ FrameOK(fr, m)
          /\ fr.file = Top.file
      BY <1>1, <2>2 DEF Frames, JobFrames, Holds, FrameOK, Busy
    <3>2. stack' = <<to, fr>> \o Tail(stack)
      BY <2>2 DEF Call
    <3>3. /\ to \in Frames /\ to.fn = "reap_children" /\ ~Holds(to) /\ FrameOK(to, m)
          /\ ~HasFile(to)
      BY NewFrames DEF HasFile
    <3> HIDE DEF fr, to
    <3> QED BY <1>1, <3>1, <3>2, <3>3, GoesOnAndCalls
  <2>3. CASE stack' = <<ReapCall(TRUE, FALSE)>> \o stack
    <3> DEFINE to == ReapCall(TRUE, FALSE)
    <3>1. /\ to \in Frames /\ to.fn = "reap_children" /\ ~Holds(to) /\ FrameOK(to, m)
          /\ ~HasFile(to)
      BY NewFrames DEF HasFile
    <3>2. stack' = <<to>> \o stack
      BY <2>3
    <3> HIDE DEF to
    <3> QED BY <1>1, <3>1, <3>2, Calls
  <2>4. CASE stack' = Tail(stack)
    BY <1>1, <2>4, Returns
  <2> QED BY <2>1, <2>2, <2>3, <2>4 DEF Push, Return
<1> QED BY <1>1, <1>2, QuietStep, TopKnown DEF ExitOK, Live, JobsInv

\* When no slot is used, no process is left.
LEMMA NoSlotsNoProcess ==
  ASSUME JobsInv, m.job_slots_used = 0
  PROVE  Live = {} /\ Zombies = {}
<1>1. Len(m.children) = 0 /\ m.children \in Seq(Files)
  BY DEF JobsInv, ChainOK, Types, MakeData
<1>2. m.children = << >>
  BY <1>1
<1>3. Chain = {}
  BY <1>2 DEF Chain, ToSet
<1> QED BY <1>3 DEF JobsInv, ChainOK, Alive

LEMMA ReapQuietStep ==
  ASSUME JobsInv, ReapTests \/ ReapDecrements \/ ReapFindsNone \/ ReapHasNone PROVE JobsInv'
<1> USE DEF ReapTests, ReapDecrements, ReapFindsNone, ReapHasNone, Running
<1>1. /\ Types /\ StackOK(stack, m, handling) /\ BelowOK(stack, m) /\ Top = stack[1]
      /\ Top \in ReapFrames /\ Hand(stack) = {} /\ ~Holds(Top) /\ dead \in Nat
      /\ Top.fn = "reap_children" /\ exit = "no" /\ dying \in BOOLEAN
  BY TopKnown, FrameKinds DEF Holds
<1>2. StackOK(stack', m, handling) /\ Hand(stack') = {}
  <2>1. ASSUME NEW pc \in {"decrement", "wait"}, stack' = <<[Top EXCEPT !.pc = pc]>> \o Tail(stack)
        PROVE  StackOK(stack', m, handling) /\ Hand(stack') = {}
    <3> DEFINE fr == [Top EXCEPT !.pc = pc]
    <3>1. /\ fr \in Frames /\ fr.fn = "reap_children" /\ ~Holds(fr) /\ FrameOK(fr, m)
          /\ ~HasFile(fr)
      BY <1>1 DEF Frames, ReapFrames, Holds, FrameOK, Busy, HasFile
    <3>2. stack' = <<fr>> \o Tail(stack)
      BY <2>1
    <3> HIDE DEF fr
    <3> QED BY <1>1, <3>1, <3>2, GoesOn
  <2>2. CASE stack' = <<DieCall(2)>> \o stack
    <3> DEFINE to == DieCall(2)
    <3>1. /\ to \in Frames /\ to.fn = "die" /\ ~Holds(to) /\ FrameOK(to, m) /\ ~HasFile(to)
      BY NewFrames DEF HasFile, Status
    <3>2. stack' = <<to>> \o stack
      BY <2>2
    <3> HIDE DEF to
    <3> QED BY <1>1, <3>1, <3>2, Calls
  <2>3. CASE stack' = Tail(stack)
    BY <1>1, <2>3, Returns
  <2> QED BY <2>1, <2>2, <2>3 DEF Push, Return, Goto
<1>3. dead' \in Nat /\ UNCHANGED <<m, proc, lost, handling, signals, opts>>
  BY <1>1
<1>4. dying' \in BOOLEAN /\ exit' \in {"no", "2"} /\ (exit' = "2" => Live = {})
  BY <1>1
<1>5. ExitOK'
  BY <1>1, <1>3, <1>4 DEF ExitOK, Live
<1> QED BY <1>1, <1>2, <1>3, <1>4, <1>5, QuietStep

LEMMA DieStep == ASSUME JobsInv, DieWaits \/ DieExits PROVE JobsInv'
<1> USE DEF DieWaits, DieExits, Running
<1>1. /\ Types /\ StackOK(stack, m, handling) /\ BelowOK(stack, m) /\ Top = stack[1]
      /\ Top \in DieFrames /\ Hand(stack) = {} /\ dead \in Nat /\ dying \in BOOLEAN
      /\ Top.fn = "die" /\ exit = "no"
  BY TopKnown, FrameKinds DEF Holds
<1>2. CASE DieWaits
  <2> DEFINE fr == [Top EXCEPT !.err = FALSE]
             to == ReapCall(TRUE, Top.err)
  <2>1. fr \in Frames /\ fr.fn = "die" /\ ~Holds(fr) /\ FrameOK(fr, m) /\ ~HasFile(fr)
    BY <1>1 DEF Frames, DieFrames, Holds, FrameOK, Busy, HasFile
  <2>2. Top.err \in BOOLEAN
    BY <1>1 DEF DieFrames
  <2>3. /\ to \in Frames /\ to.fn = "reap_children" /\ ~Holds(to) /\ FrameOK(to, m)
        /\ ~HasFile(to)
    BY <2>2, NewFrames DEF HasFile
  <2>4. stack' = <<to, fr>> \o Tail(stack)
    BY <1>2 DEF Call
  <2> HIDE DEF fr, to
  <2>5. StackOK(stack', m, handling) /\ Hand(stack') = {}
    BY <1>1, <2>1, <2>3, <2>4, GoesOnAndCalls
  <2> QED BY <1>1, <1>2, <2>5, QuietStep DEF ExitOK, Live
<1>3. CASE DieExits
  <2>1. Live = {} /\ exit' \in {"0", "2"}
    BY <1>3, NoSlotsNoProcess
  <2>2. UNCHANGED <<m, proc, lost, handling, signals, opts, stack, dead, dying>>
    BY <1>3
  <2> HIDE DEF DieWaits, DieExits
  <2> QED BY <1>1, <2>1, <2>2, QuietStep DEF ExitOK, Live
<1> QED BY <1>2, <1>3

LEMMA SignalStep == ASSUME JobsInv, SignalReaps \/ SignalEnds PROVE JobsInv'
<1> USE DEF SignalReaps, SignalEnds, Running
<1>1. /\ Types /\ StackOK(stack, m, handling) /\ Top = stack[1] /\ ~Holds(Top)
      /\ Hand(stack) = {} /\ dead \in Nat /\ dying \in BOOLEAN /\ exit = "no"
  BY TopKnown DEF Holds
<1>2. CASE SignalReaps
  <2> DEFINE to == ReapCall(TRUE, FALSE)
  <2>1. /\ to \in Frames /\ to.fn = "reap_children" /\ ~Holds(to) /\ FrameOK(to, m)
        /\ ~HasFile(to)
    BY NewFrames DEF HasFile
  <2>2. stack' = <<to>> \o stack
    BY <1>2 DEF Push
  <2> HIDE DEF to
  <2>3. StackOK(stack', m, handling) /\ Hand(stack') = {}
    BY <1>1, <2>1, <2>2, Calls
  <2> QED BY <1>1, <1>2, <2>3, QuietStep DEF ExitOK, Live
<1>3. CASE SignalEnds
  <2>1. Live = {} /\ exit' = "signal"
    BY <1>3, NoSlotsNoProcess
  <2>2. UNCHANGED <<m, proc, lost, handling, signals, opts, stack, dead, dying>>
    BY <1>3
  <2> HIDE DEF SignalReaps, SignalEnds
  <2> QED BY <1>1, <2>1, <2>2, QuietStep DEF ExitOK, Live
<1> QED BY <1>2, <1>3

LEMMA UpdateQuietStep == ASSUME JobsInv, UpdateCalls \/ UpdateGoesOn PROVE JobsInv'
<1> USE DEF UpdateCalls, UpdateGoesOn, Running
<1>1. /\ Types /\ StackOK(stack, m, handling) /\ BelowOK(stack, m) /\ Top = stack[1]
      /\ Top \in UpdateFrames /\ Hand(stack) = {} /\ ~Holds(Top) /\ ~handling /\ FrameOK(Top, m)
      /\ Top.fn = "update_file_1" /\ exit = "no"
  BY TopKnown, FrameKinds DEF Holds
<1>2. /\ Top.file \in Files /\ Top.d \in Nat /\ Top.d >= 1 /\ Top.dep_status \in Status
      /\ Top.running \in BOOLEAN /\ Deps[Top.file] \in Seq(Files) /\ m \in MakeData
      /\ NotStarted(m, Top.file)
  BY <1>1, MakeJobsAssumption DEF UpdateFrames, FrameOK, Types, Busy
<1> DEFINE dep == Deps[Top.file][Top.d]
<1>3. CASE UpdateCalls
  <2> DEFINE fr == [Top EXCEPT !.pc = "result"]
             to == UpdateCall(dep)
  <2>1. Top.d \in DOMAIN Deps[Top.file] /\ dep \in Files
    BY <1>2, <1>3
  <2>2. /\ fr \in Frames /\ fr.fn = "update_file_1" /\ ~Holds(fr) /\ fr.file = Top.file
        /\ fr.d = Top.d
    BY <1>1 DEF Frames, UpdateFrames, Holds
  <2>3. FrameOK(fr, m)
    BY <1>2, <1>3, <2>2 DEF FrameOK, Busy, Holds
  <2>4. HasFile(fr) /\ HasFile(Top)
    BY <1>1, <2>2 DEF HasFile
  <2>5. \/ /\ stack' = <<to, fr>> \o Tail(stack) /\ NotStarted(m, dep)
        \/ stack' = <<fr>> \o Tail(stack)
    BY <1>3 DEF Call, Goto, Entered, State, NotStarted
  <2>6. Depth[Top.file] < Depth[dep]
    BY <1>2, <2>1, DepthFacts
  <2>7. NotStarted(m, dep) =>
          /\ to \in Frames /\ to.fn = "update_file_1" /\ ~Holds(to) /\ FrameOK(to, m)
          /\ to.file = dep
    BY <2>1, NewFrames
  <2> HIDE DEF fr, to, dep
  <2>8. CASE stack' = <<to, fr>> \o Tail(stack) /\ NotStarted(m, dep)
    <3>1. StackOK(stack', m, handling) /\ Hand(stack') = {}
      <4>1. /\ HasFile(fr) /\ Depth[fr.file] < Depth[to.file] /\ fr.file = stack[1].file
            /\ fr.fn = stack[1].fn /\ to.fn # "update_goal_chain" /\ to \in Frames
            /\ FrameOK(to, m) /\ ~Holds(to)
        BY <1>1, <2>2, <2>4, <2>6, <2>7, <2>8
      <4> HIDE DEF UpdateCalls, UpdateGoesOn, Running
      <4>2. /\ StackOK(<<to, fr>> \o Tail(stack), m, handling)
            /\ Hand(<<to, fr>> \o Tail(stack)) = {}
        BY <1>1, <2>2, <2>3, <4>1, GoesOnAndCalls
      <4> QED BY <2>8, <4>2
    <3> QED BY <1>1, <1>3, <3>1, QuietStep, TopKnown DEF ExitOK, Live
  <2>9. CASE stack' = <<fr>> \o Tail(stack)
    <3>1. StackOK(stack', m, handling) /\ Hand(stack') = {}
      BY <1>1, <2>2, <2>3, <2>9, GoesOn
    <3> QED BY <1>1, <1>3, <3>1, QuietStep, TopKnown DEF ExitOK, Live
  <2> QED BY <2>5, <2>8, <2>9
<1>4. CASE UpdateGoesOn
  <2> DEFINE deps == Deps[Top.file]
             status == IF Top.dep_status = 0 THEN Result(dep) ELSE Top.dep_status
             run == Top.running \/ State(dep) \in {"cs_running", "cs_deps_running"}
             d1 == IF status # 0 /\ ~opts.keep_going_flag THEN Len(deps) + 1 ELSE Top.d + 1
             fr == [Top EXCEPT !.pc = "dep", !.dep_status = status, !.running = run, !.d = d1]
  <2>1. Top.d \in DOMAIN Deps[Top.file] /\ dep \in Files
    <3>1. Top.pc = "result"
      BY <1>4
    <3> HIDE DEF UpdateCalls, UpdateGoesOn, Running, fr, d1, run, status
    <3>2. Top.d <= Len(Deps[Top.file])
      BY <1>1, <3>1 DEF FrameOK
    <3>3. Top.d \in DOMAIN Deps[Top.file]
      BY <1>2, <3>2
    <3> QED BY <1>2, <3>3
  <2>2. status \in Status
    BY <1>2, <2>1, FileFacts DEF Result, Status
  <2>3. run \in BOOLEAN
    OBVIOUS
  <2>4. d1 \in Nat /\ d1 >= 1
    BY <1>2
  <2>5. stack' = <<fr>> \o Tail(stack)
    BY <1>4 DEF Goto
  <2> HIDE DEF status, run, d1, dep
  <2>6. /\ fr \in Frames /\ fr.fn = "update_file_1" /\ ~Holds(fr) /\ fr.file = Top.file
        /\ fr.d = d1 /\ fr.pc = "dep"
    BY <1>1, <2>2, <2>3, <2>4 DEF Frames, UpdateFrames, Holds
  <2> HIDE DEF fr
  <2>7. FrameOK(fr, m)
    BY <1>2, <2>4, <2>6 DEF FrameOK, Busy, Holds
  <2>8. StackOK(stack', m, handling) /\ Hand(stack') = {}
    BY <1>1, <2>5, <2>6, <2>7, GoesOn
  <2> QED BY <1>1, <1>4, <2>8, QuietStep, TopKnown DEF ExitOK, Live
<1> QED BY <1>3, <1>4

\* A goal that is taken from the chain of goals leaves files behind.
LEMMA RemoveAtType ==
  ASSUME NEW S, NEW s \in Seq(S), NEW i \in 1..Len(s)
  PROVE  RemoveAt(s, i) \in Seq(S)
<1> DEFINE a == SubSeq(s, 1, i - 1)
           b == SubSeq(s, i + 1, Len(s))
<1>1. a \in Seq(S)
  OBVIOUS
<1>2. b \in Seq(S)
  <2>1. i + 1 \in Int /\ Len(s) \in Int /\ \A k \in (i + 1)..Len(s) : s[k] \in S
    OBVIOUS
  <2> QED BY <2>1, SubSeqProperties
<1> HIDE DEF a, b
<1>3. a \o b \in Seq(S)
  BY <1>1, <1>2
<1> QED BY <1>3 DEF RemoveAt, a, b

NextGoals(fr, pc, i, status, goals) ==
  [fr EXCEPT !.pc = pc, !.i = i, !.status = status, !.goals = goals]

LEMMA GoalsFrameOK ==
  ASSUME NEW fr \in GoalsFrames, NEW pc \in {"start", "reap", "goal", "result"},
         NEW i \in Nat, i >= 1, NEW status \in Status, NEW goals \in Seq(Files),
         pc = "result" => i <= Len(goals), NEW x, NEW to, to = NextGoals(fr, pc, i, status, goals)
  PROVE  /\ to \in Frames /\ to.fn = "update_goal_chain" /\ ~Holds(to) /\ ~HasFile(to)
         /\ FrameOK(to, x)
<1>1. /\ to \in GoalsFrames /\ to.fn = "update_goal_chain" /\ to.pc = pc /\ to.i = i
      /\ to.goals = goals
  BY DEF GoalsFrames, NextGoals
<1>2. /\ to \in Frames /\ to.fn = "update_goal_chain" /\ ~Holds(to) /\ ~HasFile(to)
      /\ FrameOK(to, x)
  BY <1>1 DEF Frames, FrameOK, Holds, HasFile, Busy
<1> QED BY <1>2

LEMMA GoalsStep ==
  ASSUME JobsInv, GoalsStartWaiting \/ GoalsReap \/ GoalsUpdate \/ GoalsGoOn \/ GoalsEnd
  PROVE  JobsInv'
<1> USE DEF GoalsStartWaiting, GoalsReap, GoalsUpdate, GoalsGoOn, GoalsEnd, Running
<1>1. /\ Types /\ StackOK(stack, m, handling) /\ BelowOK(stack, m) /\ Top = stack[1]
      /\ Top \in GoalsFrames /\ Hand(stack) = {} /\ ~Holds(Top) /\ ~handling /\ FrameOK(Top, m)
      /\ Top.fn = "update_goal_chain" /\ exit = "no" /\ dying' \in BOOLEAN
  BY TopKnown, FrameKinds DEF Holds
<1>2. /\ Top.goals \in Seq(Files) /\ Top.i \in Nat /\ Top.i >= 1 /\ Top.status \in Status
      /\ m \in MakeData
      /\ Top.pc = "result" => Top.i <= Len(Top.goals)
  BY <1>1 DEF GoalsFrames, FrameOK, Types
<1>3. ASSUME NEW pc \in {"start", "reap", "goal", "result"}, NEW i \in Nat, i >= 1,
             NEW status \in Status, NEW goals \in Seq(Files), pc = "result" => i <= Len(goals),
             NEW fr, fr = NextGoals(Top, pc, i, status, goals)
      PROVE  /\ fr \in Frames /\ fr.fn = "update_goal_chain" /\ ~Holds(fr) /\ ~HasFile(fr)
             /\ FrameOK(fr, m)
  <2> HIDE DEF GoalsStartWaiting, GoalsReap, GoalsUpdate, GoalsGoOn, GoalsEnd, Running
  <2>1. Top \in GoalsFrames
    BY <1>1
  <2> QED BY <1>3, <2>1, GoalsFrameOK
<1>4. ASSUME NEW fr \in Frames, fr.fn = "update_goal_chain", ~Holds(fr), ~HasFile(fr),
             FrameOK(fr, m), stack' = <<fr>> \o Tail(stack)
      PROVE  StackOK(stack', m, handling) /\ Hand(stack') = {}
  BY <1>1, <1>4, GoesOn
<1>5. ASSUME NEW fr \in Frames, fr.fn = "update_goal_chain", ~Holds(fr), ~HasFile(fr),
             FrameOK(fr, m), NEW to \in Frames, FrameOK(to, m), ~Holds(to),
             to.fn # "update_goal_chain", stack' = <<to, fr>> \o Tail(stack)
      PROVE  StackOK(stack', m, handling) /\ Hand(stack') = {}
  <2> HIDE DEF GoalsStartWaiting, GoalsReap, GoalsUpdate, GoalsGoOn, GoalsEnd, Running
  <2>1. /\ StackOK(<<to, fr>> \o Tail(stack), m, handling)
        /\ Hand(<<to, fr>> \o Tail(stack)) = {}
    BY <1>1, <1>5, GoesOnAndCalls
  <2> QED BY <1>5, <2>1
<1>6. StackOK(stack', m, handling) /\ Hand(stack') = {}
  <2>1. CASE GoalsStartWaiting
    <3> DEFINE fr == [Top EXCEPT !.pc = "reap"]
    <3>1. fr = NextGoals(Top, "reap", Top.i, Top.status, Top.goals)
      BY <1>1 DEF GoalsFrames, NextGoals
    <3>2. stack' = <<WaitingCall, fr>> \o Tail(stack)
      BY <2>1 DEF Call
    <3> HIDE DEF fr
    <3>3. /\ fr \in Frames /\ fr.fn = "update_goal_chain" /\ ~Holds(fr) /\ ~HasFile(fr)
          /\ FrameOK(fr, m)
      BY <1>2, <1>3, <3>1
    <3> QED BY <1>5, <3>2, <3>3, NewFrames
  <2>2. CASE GoalsReap
    <3> DEFINE fr == [Top EXCEPT !.pc = "goal", !.i = 1]
    <3>1. fr = NextGoals(Top, "goal", 1, Top.status, Top.goals)
      BY <1>1 DEF GoalsFrames, NextGoals
    <3>2. stack' = <<ReapCall(TRUE, FALSE), fr>> \o Tail(stack)
      BY <2>2 DEF Call
    <3>3. 1 \in Nat /\ 1 >= 1
      OBVIOUS
    <3> HIDE DEF fr
    <3>4. /\ fr \in Frames /\ fr.fn = "update_goal_chain" /\ ~Holds(fr) /\ ~HasFile(fr)
          /\ FrameOK(fr, m)
      BY <1>2, <1>3, <3>1, <3>3
    <3> QED BY <1>5, <3>2, <3>4, NewFrames
  <2>3. CASE GoalsUpdate
    <3>1. CASE Top.i > Len(Top.goals)
      <4> DEFINE fr == [Top EXCEPT !.pc = "start"]
      <4>1. fr = NextGoals(Top, "start", Top.i, Top.status, Top.goals)
        BY <1>1 DEF GoalsFrames, NextGoals
      <4>2. stack' = <<fr>> \o Tail(stack)
        BY <2>3, <3>1 DEF Goto
      <4> HIDE DEF fr
      <4>3. /\ fr \in Frames /\ fr.fn = "update_goal_chain" /\ ~Holds(fr) /\ ~HasFile(fr)
            /\ FrameOK(fr, m)
        BY <1>2, <1>3, <4>1
      <4> QED BY <1>4, <4>2, <4>3
    <3>2. CASE ~(Top.i > Len(Top.goals))
      <4> DEFINE goal == Top.goals[Top.i]
                 fr == [Top EXCEPT !.pc = "result"]
      <4>1. fr = NextGoals(Top, "result", Top.i, Top.status, Top.goals)
        BY <1>1 DEF GoalsFrames, NextGoals
      <4>2. \/ stack' = <<fr>> \o Tail(stack)
            \/ stack' = <<UpdateCall(goal), fr>> \o Tail(stack) /\ NotStarted(m, goal)
        BY <2>3, <3>2 DEF Goto, Call, Entered, State, NotStarted
      <4>3. goal \in Files /\ Top.i <= Len(Top.goals)
        BY <1>2, <3>2
      <4> HIDE DEF fr, goal
      <4>4. /\ fr \in Frames /\ fr.fn = "update_goal_chain" /\ ~Holds(fr) /\ ~HasFile(fr)
            /\ FrameOK(fr, m)
        BY <1>2, <1>3, <4>1, <4>3
      <4>5. CASE stack' = <<fr>> \o Tail(stack)
        BY <1>4, <4>4, <4>5
      <4>6. CASE stack' = <<UpdateCall(goal), fr>> \o Tail(stack) /\ NotStarted(m, goal)
        BY <1>5, <4>3, <4>4, <4>6, NewFrames
      <4> QED BY <4>2, <4>5, <4>6
    <3> QED BY <3>1, <3>2
  <2>4. CASE GoalsGoOn
    <3> DEFINE goal == Top.goals[Top.i]
               failed == Top.status = 0 /\ Result(goal) # 0
               stop == failed /\ ~opts.keep_going_flag
               done == State(goal) = "cs_finished"
               status == IF failed THEN Result(goal) ELSE Top.status
               goals == IF done THEN RemoveAt(Top.goals, Top.i) ELSE Top.goals
               i == IF done THEN Top.i ELSE Top.i + 1
               pc == IF stop THEN "start" ELSE "goal"
               fr == [Top EXCEPT !.status = status, !.goals = goals, !.i = i, !.pc = pc]
    <3>1. goal \in Files /\ Top.i \in 1..Len(Top.goals)
      BY <1>2, <2>4
    <3>2. status \in Status
      BY <1>2, <3>1, FileFacts DEF Result, Status
    <3>3. goals \in Seq(Files)
      BY <1>2, <3>1, RemoveAtType
    <3>4. i \in Nat /\ i >= 1 /\ pc \in {"start", "goal"}
      BY <1>2
    <3>5. stack' = <<fr>> \o Tail(stack)
      BY <2>4 DEF Goto
    <3> HIDE DEF status, goals, i, pc
    <3>6. fr = NextGoals(Top, pc, i, status, goals)
      BY <1>1 DEF GoalsFrames, NextGoals
    <3> HIDE DEF fr
    <3>7. /\ fr \in Frames /\ fr.fn = "update_goal_chain" /\ ~Holds(fr) /\ ~HasFile(fr)
          /\ FrameOK(fr, m)
      BY <1>3, <3>2, <3>3, <3>4, <3>6
    <3> QED BY <1>4, <3>5, <3>7
  <2>5. CASE GoalsEnd
    <3> DEFINE fr == DieCall(Top.status)
    <3>1. fr \in Frames /\ fr.fn = "die" /\ ~Holds(fr) /\ ~HasFile(fr) /\ FrameOK(fr, m)
      BY <1>2, NewFrames DEF HasFile
    <3>2. stack' = <<fr>> \o Tail(stack)
      BY <2>5 DEF Goto
    <3> HIDE DEF fr
    <3>3. StackOK(<<fr>> \o Tail(stack), m, handling)
      BY <1>1, <3>1, GotoOK
    <3>4. Hand(<<fr>> \o Tail(stack)) = {}
      BY <1>1, <3>1, HeadCons, TopFacts
    <3> QED BY <3>2, <3>3, <3>4
  <2> QED BY <2>1, <2>2, <2>3, <2>4, <2>5
<1>7. UNCHANGED <<m, proc, lost, handling, signals, opts, exit, dead>>
  OBVIOUS
<1> HIDE DEF GoalsStartWaiting, GoalsReap, GoalsUpdate, GoalsGoOn, GoalsEnd, Running
<1> QED BY <1>1, <1>6, <1>7, QuietStep, TopKnown DEF ExitOK, Live

\* A stack of one call.
LEMMA OneCall ==
  ASSUME NEW x, NEW h, NEW fr \in Frames, FrameOK(fr, x), ~Holds(fr), ~HasFile(fr),
         fr.fn \in {"update_goal_chain", "die", "fatal_error_signal"},
         h => fr.fn \in {"fatal_error_signal", "reap_children", "die"}
  PROVE  StackOK(<<fr>>, x, h) /\ Hand(<<fr>>) = {}
<1> DEFINE s == <<fr>>
<1>1. s \in Seq(Frames) /\ s # << >> /\ Len(s) = 1 /\ DOMAIN s = {1} /\ s[1] = fr /\ Head(s) = fr
  OBVIOUS
<1> HIDE DEF s
<1>2. StackOK(s, x, h)
  BY <1>1 DEF StackOK
<1>3. Hand(s) = {}
  BY <1>1 DEF Hand
<1> QED BY <1>2, <1>3 DEF s

LEMMA FatalStep == ASSUME JobsInv, fatal_error_signal PROVE JobsInv'
<1> USE DEF fatal_error_signal
<1>1. StackOK(stack', m, TRUE) /\ Hand(stack') = {}
  BY OneCall, NewFrames DEF HasFile
<1>2. handling' = TRUE /\ UNCHANGED <<m, proc, lost, dead, dying, exit, opts>>
  OBVIOUS
<1>3. Types'
  <2>1. MaxSignals \in Nat /\ signals \in 0..MaxSignals
    BY MakeJobsAssumption DEF JobsInv, Types
  <2>2. signals' \in 0..MaxSignals
    BY <2>1
  <2>3. handling' \in BOOLEAN
    BY <1>2
  <2> HIDE DEF fatal_error_signal
  <2> QED BY <1>2, <2>2, <2>3 DEF JobsInv, Types
<1>4. StackOK(stack, m, handling)'
  BY <1>1, <1>2
<1>5. Chain' = Chain /\ Alive' = Alive /\ Waiting' = Waiting
  BY <1>2 DEF Chain, Alive, Live, Zombies, Waiting
<1>6. ChainOK'
  BY <1>1, <1>2, <1>5 DEF JobsInv, ChainOK, NotStarted
<1>7. Holders' \subseteq Holders
  BY <1>1, <1>2, <1>5 DEF Holders
<1>8. ShareOK'
  BY <1>2, <1>7 DEF JobsInv, ShareOK
<1>9. ExitOK'
  BY <1>2 DEF JobsInv, ExitOK, Live
<1> QED BY <1>3, <1>4, <1>6, <1>8, <1>9 DEF JobsInv

LEMMA ExitsStep == ASSUME JobsInv, NEW f \in Files, Exits(f) PROVE JobsInv'
<1> USE DEF Exits
<1>1. /\ Types /\ StackOK(stack, m, handling) /\ BelowOK(stack, m) /\ Top = stack[1]
      /\ Top \in Frames /\ stack \in Seq(Frames)
  BY TopKnown
<1>2. UNCHANGED <<m, handling, exit, opts, signals, dying>> /\ exit = "no"
  OBVIOUS
<1>3. StackOK(stack', m, handling) /\ Hand(stack') = Hand(stack) /\ (Hand(stack) # {} => stack' = stack)
  <2>1. CASE stack' = stack
    BY <1>1, <2>1
  <2>2. CASE Top.fn = "reap_children" /\ Top.pc = "wait" /\ Goto([Top EXCEPT !.pc = "test"])
    <3> DEFINE fr == [Top EXCEPT !.pc = "test"]
    <3>1. Top \in ReapFrames
      BY <1>1, <2>2, FrameKinds
    <3>2. /\ fr \in Frames /\ fr.fn = "reap_children" /\ ~Holds(fr) /\ FrameOK(fr, m)
          /\ ~HasFile(fr)
      BY <3>1 DEF Frames, ReapFrames, Holds, FrameOK, Busy, HasFile
    <3>3. stack' = <<fr>> \o Tail(stack)
      BY <2>2 DEF Goto
    <3>4. Hand(stack) = {}
      BY <1>1, <2>2 DEF Hand, Holds, Top
    <3> HIDE DEF fr
    <3> QED BY <1>1, <2>2, <3>2, <3>3, <3>4, GoesOn
  <2> QED BY <2>1, <2>2 DEF child_handler
<1>4. /\ proc' \in [Files -> {"none", "run", "won", "lost"}] /\ Alive' = Alive
      /\ lost' \subseteq Files
  BY <1>1 DEF Types, Alive, Live, Zombies
<1>5. dead' \in Nat
  BY <1>1 DEF Types, child_handler
<1>6. Types'
  BY <1>1, <1>2, <1>4, <1>5 DEF Types
<1>7. StackOK(stack, m, handling)'
  BY <1>2, <1>3
<1>8. Chain' = Chain /\ Waiting' = Waiting
  BY <1>2 DEF Chain, Waiting
<1>9. ChainOK'
  BY <1>2, <1>3, <1>4, <1>8 DEF JobsInv, ChainOK, NotStarted
<1>10. Holders' = Holders
  BY <1>2, <1>3, <1>4 DEF Holders
<1>11. ShareOK'
  BY <1>2, <1>10 DEF JobsInv, ShareOK
<1>12. ExitOK'
  BY <1>2 DEF ExitOK
<1> QED BY <1>6, <1>7, <1>9, <1>11, <1>12 DEF JobsInv

LEMMA JobsInit == ASSUME Init PROVE JobsInv
<1> USE DEF Init
<1>1. m \in MakeData
  <2>1. PICK left \in [Files -> Nat \cap UNION {Lines[f] : f \in Files}] :
          m = [file |-> [f \in Files |-> [command_state |-> "cs_not_started", update_status |-> 0,
                                          left |-> left[f], good_stdin |-> FALSE]],
               children |-> <<>>, waiting_jobs |-> <<>>, job_slots_used |-> 0,
               good_stdin_used |-> FALSE]
    OBVIOUS
  <2>2. \A f \in Files : left[f] \in Nat
    OBVIOUS
  <2> QED BY <2>1, <2>2 DEF MakeData, FileData, States, Status
<1>2. /\ m.children = << >> /\ m.waiting_jobs = << >> /\ m.job_slots_used = 0
      /\ ~m.good_stdin_used
  OBVIOUS
<1>3. Types
  <2>1. MaxSignals \in Nat
    BY MakeJobsAssumption
  <2>4. signals = 0 /\ dead = 0 /\ dying = FALSE /\ handling = FALSE
    BY Zenon
  <2>2. signals \in 0..MaxSignals /\ dead \in Nat /\ dying \in BOOLEAN /\ handling \in BOOLEAN
    <3> HIDE DEF Init
    <3>1. signals \in 0..MaxSignals /\ dead \in Nat
      BY <2>1, <2>4
    <3>2. dying \in BOOLEAN /\ handling \in BOOLEAN
      BY <2>4, Zenon
    <3> QED BY <3>1, <3>2
  <2>3. proc \in [Files -> {"none", "run", "won", "lost"}]
    OBVIOUS
  <2> QED BY <1>1, <2>2, <2>3 DEF Types
<1>4. StackOK(stack, m, handling) /\ Hand(stack) = {}
  <2>1. /\ GoalsCall \in Frames /\ GoalsCall.fn = "update_goal_chain" /\ ~Holds(GoalsCall)
        /\ ~HasFile(GoalsCall) /\ FrameOK(GoalsCall, m)
    BY MakeJobsAssumption
       DEF GoalsCall, Frames, GoalsFrames, Status, Holds, HasFile, FrameOK, Busy
  <2> QED BY <2>1, OneCall
<1>5. Chain = {} /\ Waiting = {} /\ Alive = {}
  BY <1>2 DEF Chain, Waiting, ToSet, Alive, Live, Zombies
<1>6. ChainOK
  <2>1. IsInjective(<< >>) /\ Len(<< >>) = 0
    BY DEF IsInjective
  <2> HIDE DEF Init
  <2> QED BY <1>2, <1>4, <1>5, <2>1 DEF ChainOK
<1>7. Holders = {}
  BY <1>4, <1>5 DEF Holders
<1>8. ShareOK
  <2>1. \A o \in Options : o.job_slots \in Nat
    BY MakeJobsAssumption
  <2> QED BY <1>2, <1>7, <2>1 DEF ShareOK
<1> QED BY <1>3, <1>4, <1>6, <1>8 DEF JobsInv, ExitOK

\* A file that is neither on the chain nor waiting changes.
LEMMA DataStep ==
  ASSUME JobsInv, NEW c \in Files, c \notin Chain, c \notin Waiting,
         m' \in MakeData, Others(m, m', c), Lists(m, m'),
         m'.good_stdin_used = m.good_stdin_used,
         UNCHANGED <<proc, lost, dead, dying, handling, signals, exit, opts>>,
         StackOK(stack', m', handling), Hand(stack) = {}, Hand(stack') = {}
  PROVE  JobsInv'
<1>1. Types'
  BY DEF JobsInv, Types
<1>2. Chain' = Chain /\ Waiting' = Waiting /\ Alive' = Alive /\ Live' = Live
  BY DEF Chain, Waiting, Alive, Live, Zombies, Lists
<1>3. Chain \subseteq Files /\ Waiting \subseteq Files /\ Alive \subseteq Chain
  <2>1. m.children \in Seq(Files) /\ m.waiting_jobs \in Seq(Files)
    BY DEF JobsInv, Types, MakeData
  <2> QED BY <2>1 DEF Chain, Waiting, ToSet, JobsInv, ChainOK
<1>4. \A f \in Chain \cup Waiting : m'.file[f] = m.file[f]
  BY <1>3 DEF Others
<1>5. ChainOK'
  BY <1>2, <1>4 DEF JobsInv, ChainOK, NotStarted, Lists
<1>6. Holders' = Holders
  BY <1>2, <1>3, <1>4 DEF Holders
<1>7. ShareOK'
  BY <1>6 DEF JobsInv, ShareOK, Lists
<1>8. ExitOK'
  BY <1>2 DEF JobsInv, ExitOK
<1> QED BY <1>1, <1>5, <1>7, <1>8 DEF JobsInv

LEMMA UpdateEndsStep == ASSUME JobsInv, UpdateEnds PROVE JobsInv'
<1>1. /\ Types /\ StackOK(stack, m, handling) /\ BelowOK(stack, m) /\ Top = stack[1]
      /\ Top \in UpdateFrames /\ Hand(stack) = {} /\ ~Holds(Top) /\ ~handling /\ FrameOK(Top, m)
      /\ Top.fn = "update_file_1" /\ exit = "no"
  BY TopKnown, FrameKinds DEF Holds, UpdateEnds, Running
<1> DEFINE f == Top.file
           q == m.file[f]
<1>2. f \in Files /\ Top.dep_status \in Status /\ m \in MakeData /\ NotStarted(m, f) /\ HasFile(Top)
  BY <1>1 DEF UpdateFrames, FrameOK, Types, Busy, HasFile
<1>3. f \notin Chain /\ f \notin Waiting
  BY <1>2 DEF JobsInv, ChainOK
<1>4. q \in FileData /\ m.good_stdin_used \in BOOLEAN
  BY <1>2, FileFacts
<1>5. UNCHANGED <<proc, lost, dead, dying, handling, signals, exit, opts>>
  BY DEF UpdateEnds
<1>6. /\ \/ /\ stack' = Tail(stack)
            /\ \/ m' = [m EXCEPT !.file[f].command_state = "cs_deps_running"]
               \/ \E st \in Status : m' = Finished(m, f, st)
         \/ /\ stack' = <<JobCall(f)>> \o Tail(stack)
            /\ m' = [m EXCEPT !.file[f].command_state = "cs_not_started"]
  BY <1>2 DEF UpdateEnds, Return, Goto, Status
<1> HIDE DEF f, q
<1>7. \E r \in FileData : /\ m' = SetFile(m, f, r, m.good_stdin_used)
                          /\ stack' = Tail(stack) \/ r.command_state = "cs_not_started"
  <2>1. ASSUME NEW st \in States, m' = [m EXCEPT !.file[f].command_state = st]
        PROVE  \E r \in FileData : m' = SetFile(m, f, r, m.good_stdin_used) /\ r.command_state = st
    <3>1. [q EXCEPT !.command_state = st] \in FileData
      BY <1>4 DEF FileData
    <3>2. m' = SetFile(m, f, [q EXCEPT !.command_state = st], m.good_stdin_used)
      BY <1>2, <2>1 DEF SetFile, MakeData, q
    <3>3. [q EXCEPT !.command_state = st].command_state = st
      BY <1>4 DEF FileData
    <3> QED BY <3>1, <3>2, <3>3
  <2>2. ASSUME NEW st \in Status, m' = Finished(m, f, st)
        PROVE  \E r \in FileData : m' = SetFile(m, f, r, m.good_stdin_used)
    BY <1>2, <2>2, FinishedFacts
  <2>3. "cs_deps_running" \in States /\ "cs_not_started" \in States
    BY DEF States
  <2> QED BY <1>6, <2>1, <2>2, <2>3
<1>8. PICK r \in FileData : /\ m' = SetFile(m, f, r, m.good_stdin_used)
                            /\ stack' = Tail(stack) \/ r.command_state = "cs_not_started"
  BY <1>7
<1>9. /\ m' \in MakeData /\ Others(m, m', f) /\ Lists(m, m')
      /\ m'.good_stdin_used = m.good_stdin_used /\ m'.file[f] = r
  BY <1>2, <1>4, <1>8, SetFileFacts
<1>10. BelowOK(stack, m')
  <2>1. \A g \in Files : (g # f /\ NotStarted(m, g)) => NotStarted(m', g)
    BY <1>9 DEF Others, NotStarted
  <2>2. stack[1].file = f /\ stack[1].fn \notin {"reap_children", "die"} /\ HasFile(stack[1])
    BY <1>1, <1>2 DEF f
  <2> QED BY <1>1, <1>2, <2>1, <2>2, BelowKept
<1>11. StackOK(stack', m', handling) /\ Hand(stack') = {}
  <2>1. CASE stack' = Tail(stack)
    BY <1>1, <1>10, <2>1, Returns
  <2>2. CASE stack' # Tail(stack)
    <3> DEFINE fr == JobCall(f)
    <3>1. NotStarted(m', f)
      BY <1>8, <1>9, <2>2 DEF NotStarted
    <3>2. fr \in Frames /\ fr.fn = "new_job" /\ fr.file = f /\ ~Holds(fr) /\ FrameOK(fr, m')
      BY <1>2, <3>1, NewFrames
    <3>3. stack' = <<fr>> \o Tail(stack)
      BY <1>6, <2>2
    <3> HIDE DEF fr
    <3>4. HasFile(stack[1]) /\ fr.file = stack[1].file /\ stack[1].fn = "update_file_1"
      BY <1>1, <1>2, <3>2 DEF f
    <3>5. StackOK(<<fr>> \o Tail(stack), m', handling)
      BY <1>1, <1>10, <3>2, <3>4, GotoOK
    <3>6. Hand(<<fr>> \o Tail(stack)) = {}
      BY <1>1, <3>2, HeadCons, TopFacts
    <3> QED BY <3>3, <3>5, <3>6
  <2> QED BY <2>1, <2>2
<1> QED BY <1>1, <1>2, <1>3, <1>5, <1>9, <1>11, DataStep

\* start_waiting_job has dealt with a file that was neither on the chain nor, in x, waiting.
LEMMA StartStep ==
  ASSUME JobsInv, NEW x \in MakeData, NEW f \in Files, NEW o \in start_waiting_job(x, f),
         x.file = m.file, x.children = m.children, x.job_slots_used = m.job_slots_used,
         x.good_stdin_used = m.good_stdin_used, IsInjective(x.waiting_jobs),
         ToSet(x.waiting_jobs) \subseteq Waiting, f \notin Chain, f \notin ToSet(x.waiting_jobs),
         (opts.job_slots # 0 /\ ~opts.load) =>
            x.waiting_jobs = << >> /\ m.job_slots_used < opts.job_slots,
         m' = o.m, Fork(o, f), UNCHANGED <<dead, dying, handling, signals, exit, opts>>,
         exit = "no", StackOK(stack', m', handling), Hand(stack) = {}, Hand(stack') = {}, ~handling
  PROVE  JobsInv'
<1>1. /\ Types /\ ChainOK /\ ShareOK
  BY DEF JobsInv
<1>2. WaitingStartedOK(x, f, o)
  BY WaitingFacts
<1>3. m' \in MakeData /\ Others(m, m', f)
  BY <1>2 DEF WaitingStartedOK, Others
<1>4. /\ x.children \in Seq(Files) /\ x.waiting_jobs \in Seq(Files) /\ x.job_slots_used \in Nat
      /\ m.children \in Seq(Files) /\ m.waiting_jobs \in Seq(Files)
  BY <1>1 DEF MakeData, Types
<1>5. Chain \subseteq Files /\ Waiting \subseteq Files /\ Alive \subseteq Chain /\ f \notin Alive
  BY <1>1, <1>4 DEF Chain, Waiting, ToSet, ChainOK
<1>6. \A g \in Chain \cup ToSet(x.waiting_jobs) : g # f /\ m'.file[g] = m.file[g]
  BY <1>3, <1>5 DEF Others
<1>7. Types'
  <2>1. proc' \in [Files -> {"none", "run", "won", "lost"}] /\ lost' \subseteq Files
    BY <1>1 DEF Types, Fork
  <2> QED BY <1>1, <1>3, <2>1 DEF Types
<1>8. Alive' = IF o.vfork = "done" THEN Alive \cup {f} ELSE Alive
  <2>1. CASE o.vfork = "done"
    BY <1>1, <2>1 DEF Fork, Alive, Live, Zombies, Types
  <2>2. CASE o.vfork # "done"
    BY <1>1, <2>2 DEF Fork, Alive, Live, Zombies, Types
  <2> QED BY <2>1, <2>2
<1>9. opts.job_slots \in Nat /\ opts.load \in BOOLEAN /\ opts.forks \in BOOLEAN
  BY <1>1, MakeJobsAssumption DEF Types
<1>10. ChainOK'
  <2>1. CASE o.m.children = x.children /\ o.m.waiting_jobs = x.waiting_jobs
             /\ o.m.job_slots_used = x.job_slots_used /\ o.vfork # "done"
    <3>1. Chain' = Chain /\ Waiting' = ToSet(x.waiting_jobs) /\ Alive' = Alive
      BY <1>8, <2>1 DEF Chain, Waiting
    <3>2. \A g \in (Chain \cup Waiting)' : ~NotStarted(m', g)
      BY <1>1, <1>6, <3>1 DEF ChainOK, NotStarted
    <3> QED BY <1>1, <2>1, <3>1, <3>2 DEF ChainOK
  <2>2. CASE o.m.children = x.children /\ o.m.waiting_jobs = <<f>> \o x.waiting_jobs
             /\ o.m.job_slots_used = x.job_slots_used /\ o.vfork # "done"
             /\ o.m.file[f].command_state = "cs_running"
    <3>1. Chain' = Chain /\ Alive' = Alive
      BY <1>8, <2>2 DEF Chain
    <3>2. Waiting' = {f} \cup ToSet(x.waiting_jobs) /\ IsInjective(o.m.waiting_jobs)
      BY <1>4, <2>2, ConsList DEF Waiting
    <3>3. \A g \in (Chain \cup Waiting)' : ~NotStarted(m', g)
      BY <1>1, <1>6, <2>2, <3>1, <3>2 DEF ChainOK, NotStarted
    <3> QED BY <1>1, <2>2, <3>1, <3>2, <3>3 DEF ChainOK
  <2>3. CASE o.m.children = <<f>> \o x.children /\ o.m.waiting_jobs = x.waiting_jobs
             /\ o.m.job_slots_used = x.job_slots_used + 1 /\ o.vfork = "done"
             /\ o.m.file[f].command_state = "cs_running"
    <3>1. Waiting' = ToSet(x.waiting_jobs) /\ Alive' = Alive \cup {f}
      BY <1>8, <2>3 DEF Waiting
    <3>2. Chain' = {f} \cup Chain /\ IsInjective(o.m.children)
      BY <1>1, <1>4, <2>3, ConsList DEF Chain, ChainOK
    <3>3. \A g \in (Chain \cup Waiting)' : ~NotStarted(m', g)
      BY <1>1, <1>6, <2>3, <3>1, <3>2 DEF ChainOK, NotStarted
    <3>4. o.m.job_slots_used = Len(o.m.children)
      <4>1. m.job_slots_used = Len(m.children)
        BY <1>1 DEF ChainOK
      <4>2. Len(<<f>> \o m.children) = Len(m.children) + 1
        BY <1>4, ConsFacts
      <4> QED BY <2>3, <4>1, <4>2
    <3> QED BY <1>1, <2>3, <3>1, <3>2, <3>3, <3>4 DEF ChainOK
  <2> QED BY <1>2, <2>1, <2>2, <2>3 DEF WaitingStartedOK, Lists
<1>11. Holders = {g \in Alive : m.file[g].good_stdin} /\ Alive \subseteq Files
  BY <1>5 DEF Holders
<1>12. \A g \in Alive : m'.file[g] = m.file[g]
  BY <1>5, <1>6
<1>13. Holders' = IF o.vfork = "done" /\ m'.file[f].good_stdin THEN Holders \cup {f} ELSE Holders
  <2>1. Holders' = {g \in Alive' : m'.file[g].good_stdin}
    BY <1>5, <1>8 DEF Holders
  <2> QED BY <1>8, <1>11, <1>12, <2>1
<1>14. ShareOK'
  <2>1. CASE o.vfork = "done"
    <3>1. /\ o.m.file[f].good_stdin = ~m.good_stdin_used /\ o.m.good_stdin_used
          /\ o.m.waiting_jobs = x.waiting_jobs /\ o.m.job_slots_used = m.job_slots_used + 1
      BY <1>2, <2>1 DEF WaitingStartedOK
    <3>2. m.good_stdin_used \in BOOLEAN
      BY <1>1 DEF Types, MakeData
    <3>3. CASE m.good_stdin_used
      <4>1. Holders' = Holders
        BY <1>13, <2>1, <3>1, <3>3
      <4>2. (opts.job_slots # 0 /\ ~opts.load) =>
              m'.waiting_jobs = << >> /\ m'.job_slots_used <= opts.job_slots
        BY <1>4, <1>9, <3>1
      <4> QED BY <1>1, <3>1, <3>3, <4>1, <4>2 DEF ShareOK
    <3>4. CASE ~m.good_stdin_used
      <4>1. Holders = {}
        BY <1>1, <3>4 DEF ShareOK
      <4>2. Holders' = {f}
        BY <1>13, <2>1, <3>1, <3>4, <4>1
      <4>3. (opts.job_slots # 0 /\ ~opts.load) =>
              m'.waiting_jobs = << >> /\ m'.job_slots_used <= opts.job_slots
        BY <1>4, <1>9, <3>1
      <4> QED BY <3>1, <4>2, <4>3 DEF ShareOK
    <3> QED BY <3>2, <3>3, <3>4
  <2>2. CASE o.vfork # "done"
    <3>1. Holders' = Holders
      BY <1>13, <2>2
    <3>2. /\ o.m.job_slots_used = m.job_slots_used
          /\ o.m.waiting_jobs = x.waiting_jobs \/ opts.load
          /\ (o.m.good_stdin_used = m.good_stdin_used) \/ (opts.forks /\ o.m.good_stdin_used)
      BY <1>2, <2>2 DEF WaitingStartedOK, Lists
    <3>3. (opts.job_slots # 0 /\ ~opts.load) =>
            m'.waiting_jobs = << >> /\ m'.job_slots_used <= opts.job_slots
      BY <1>4, <1>9, <3>2
    <3> QED BY <1>1, <3>1, <3>2, <3>3 DEF ShareOK
  <2> QED BY <2>1, <2>2
<1>15. ExitOK'
  BY DEF ExitOK
<1> QED BY <1>7, <1>10, <1>14, <1>15 DEF JobsInv

LEMMA WaitingTakesStep == ASSUME JobsInv, WaitingTakes PROVE JobsInv'
<1>1. /\ Types /\ StackOK(stack, m, handling) /\ BelowOK(stack, m) /\ Top = stack[1]
      /\ Top \in WaitingFrames /\ Hand(stack) = {} /\ ~handling /\ FrameOK(Top, m)
      /\ Top.fn = "start_waiting_jobs" /\ Top.pc = "take" /\ exit = "no"
  BY TopKnown, FrameKinds DEF Holds, WaitingTakes, Running
<1> DEFINE f == Head(m.waiting_jobs)
           w == Tail(m.waiting_jobs)
           x == [m EXCEPT !.waiting_jobs = w]
<1>2. m \in MakeData /\ m.waiting_jobs \in Seq(Files) /\ m.waiting_jobs # << >>
  BY <1>1 DEF Types, MakeData, FrameOK
<1>3. f \in Files /\ w \in Seq(Files) /\ f \in Waiting
  BY <1>2 DEF Waiting, ToSet
<1>4. ToSet(w) = Waiting \ {f} /\ IsInjective(w)
  BY <1>2, TailList DEF JobsInv, ChainOK, Waiting
<1>5. PICK o \in start_waiting_job(x, f) :
        /\ m' = o.m /\ Fork(o, f)
        /\ stack' = <<[Top EXCEPT !.pc = "reap"]>> \o Tail(stack) \/ stack' = Tail(stack)
  BY DEF WaitingTakes, Goto, Return
<1>6. UNCHANGED <<dead, dying, handling, signals, exit, opts>>
  BY DEF WaitingTakes
<1> HIDE DEF f, w
<1>7. /\ x \in MakeData /\ x.file = m.file /\ x.children = m.children /\ x.waiting_jobs = w
      /\ x.job_slots_used = m.job_slots_used /\ x.good_stdin_used = m.good_stdin_used
  BY <1>2, <1>3 DEF MakeData
<1> HIDE DEF x
<1>8. f \notin Chain /\ ~NotStarted(m, f)
  BY <1>3 DEF JobsInv, ChainOK
<1>9. Others(m, m', f)
  <2>1. WaitingStartedOK(x, f, o)
    BY <1>3, <1>5, <1>7, WaitingFacts
  <2> QED BY <1>5, <1>7, <2>1 DEF WaitingStartedOK, Others
<1>10. BelowOK(stack, m')
  <2>1. \A g \in Files : (g # f /\ NotStarted(m, g)) => NotStarted(m', g)
    BY <1>9 DEF Others, NotStarted
  <2>2. stack[1].fn \notin {"reap_children", "die"}
    BY <1>1
  <2> QED BY <1>1, <1>8, <2>1, <2>2, BelowKept
<1>11. StackOK(stack', m', handling) /\ Hand(stack') = {}
  <2>1. CASE stack' = Tail(stack)
    BY <1>1, <1>10, <2>1, Returns
  <2>2. CASE stack' = <<[Top EXCEPT !.pc = "reap"]>> \o Tail(stack)
    <3> DEFINE fr == [Top EXCEPT !.pc = "reap"]
    <3>1. /\ fr \in Frames /\ fr.fn = "start_waiting_jobs" /\ ~Holds(fr) /\ FrameOK(fr, m')
          /\ ~HasFile(fr)
      BY <1>1 DEF Frames, WaitingFrames, Holds, FrameOK, Busy, HasFile
    <3>2. stack' = <<fr>> \o Tail(stack)
      BY <2>2
    <3> HIDE DEF fr
    <3> QED BY <1>1, <1>10, <3>1, <3>2, GoesOn
  <2> QED BY <1>5, <2>1, <2>2
<1>12. ~(opts.job_slots # 0 /\ ~opts.load)
  BY <1>2 DEF JobsInv, ShareOK
<1>13. IsInjective(x.waiting_jobs) /\ ToSet(x.waiting_jobs) \subseteq Waiting
       /\ f \notin ToSet(x.waiting_jobs)
  BY <1>4, <1>7
<1> QED BY <1>1, <1>3, <1>5, <1>6, <1>7, <1>8, <1>11, <1>12, <1>13, StartStep

LEMMA JobStartsStep == ASSUME JobsInv, JobStarts PROVE JobsInv'
<1>1. /\ Types /\ StackOK(stack, m, handling) /\ BelowOK(stack, m) /\ Top = stack[1]
      /\ Top \in JobFrames /\ Hand(stack) = {} /\ ~handling /\ FrameOK(Top, m)
      /\ Top.fn = "new_job" /\ Top.pc = "slot" /\ exit = "no" /\ ~NoSlot
  BY TopKnown, FrameKinds DEF Holds, JobStarts, Running
<1> DEFINE f == Top.file
<1>2. m \in MakeData /\ f \in Files /\ NotStarted(m, f) /\ HasFile(Top)
  BY <1>1 DEF Types, FrameOK, Busy, HasFile, JobFrames
<1>3. f \notin Chain /\ f \notin Waiting
  BY <1>2 DEF JobsInv, ChainOK
<1>4. PICK o \in start_waiting_job(m, f) : m' = o.m /\ Fork(o, f)
  BY DEF JobStarts
<1>5. /\ stack' = <<[Top EXCEPT !.pc = "linear"]>> \o Tail(stack) \/ stack' = Tail(stack)
      /\ UNCHANGED <<dead, dying, handling, signals, exit, opts>>
  BY DEF JobStarts, Goto, Return
<1>6. Others(m, m', f)
  BY <1>2, <1>4, WaitingFacts DEF WaitingStartedOK, Others
<1>7. BelowOK(stack, m')
  <2>1. \A g \in Files : (g # f /\ NotStarted(m, g)) => NotStarted(m', g)
    BY <1>6 DEF Others, NotStarted
  <2>2. stack[1].fn \notin {"reap_children", "die"} /\ HasFile(stack[1]) /\ stack[1].file = f
    BY <1>1, <1>2
  <2> QED BY <1>1, <1>2, <2>1, <2>2, BelowKept
<1>8. StackOK(stack', m', handling) /\ Hand(stack') = {}
  <2>1. CASE stack' = Tail(stack)
    BY <1>1, <1>7, <2>1, Returns
  <2>2. CASE stack' = <<[Top EXCEPT !.pc = "linear"]>> \o Tail(stack)
    <3> DEFINE fr == [Top EXCEPT !.pc = "linear"]
    <3>1. /\ fr \in Frames /\ fr.fn = "new_job" /\ ~Holds(fr) /\ FrameOK(fr, m')
          /\ fr.file = Top.file
      BY <1>1 DEF Frames, JobFrames, Holds, FrameOK, Busy
    <3>2. stack' = <<fr>> \o Tail(stack)
      BY <2>2
    <3> HIDE DEF fr
    <3> QED BY <1>1, <1>7, <3>1, <3>2, GoesOn
  <2> QED BY <1>5, <2>1, <2>2
<1>9. (opts.job_slots # 0 /\ ~opts.load) =>
        m.waiting_jobs = << >> /\ m.job_slots_used < opts.job_slots
  <2>1. opts.job_slots \in Nat /\ m.job_slots_used \in Nat
    BY <1>1, <1>2, MakeJobsAssumption DEF Types, MakeData
  <2> QED BY <1>1, <2>1 DEF NoSlot, JobsInv, ShareOK
<1>10. IsInjective(m.waiting_jobs) /\ ToSet(m.waiting_jobs) = Waiting
  BY DEF JobsInv, ChainOK, Waiting
<1> HIDE DEF f
<1> QED BY <1>1, <1>2, <1>3, <1>4, <1>5, <1>8, <1>9, <1>10, StartStep

LEMMA ReapGetsStep == ASSUME JobsInv, ReapGets PROVE JobsInv'
<1>1. /\ Types /\ StackOK(stack, m, handling) /\ BelowOK(stack, m) /\ Top = stack[1]
      /\ Top \in ReapFrames /\ Hand(stack) = {} /\ exit = "no" /\ Top.fn = "reap_children"
  BY TopKnown, FrameKinds DEF Holds, ReapGets, Running
<1>2. PICK f \in Zombies :
        /\ proc' = [proc EXCEPT ![f] = "none"]
        /\ Goto([Top EXCEPT !.pc = "process", !.pid = f, !.failed = proc[f] = "lost"])
  BY DEF ReapGets
<1>3. UNCHANGED <<m, lost, dead, dying, handling, signals, exit, opts>>
  BY DEF ReapGets
<1> DEFINE b == proc[f] = "lost"
           fr == [Top EXCEPT !.pc = "process", !.pid = f, !.failed = b]
<1>4. f \in Files /\ f \in Alive /\ b \in BOOLEAN
  BY <1>2 DEF Zombies, Alive
<1>5. stack' = <<fr>> \o Tail(stack)
  BY <1>2 DEF Goto
<1> HIDE DEF b
<1>6. /\ fr \in ReapFrames /\ fr.fn = "reap_children" /\ fr.pc = "process" /\ fr.pid = f
  BY <1>1, <1>4 DEF ReapFrames
<1> HIDE DEF fr
<1>7. fr \in Frames /\ Holds(fr) /\ ~HasFile(fr) /\ FrameOK(fr, m)
  BY <1>4, <1>6 DEF Frames, Holds, HasFile, FrameOK, Busy
<1>8. StackOK(stack', m, handling) /\ Hand(stack') = {f} /\ Head(stack') = fr
  <2>1. StackOK(<<fr>> \o Tail(stack), m, handling)
        /\ Hand(<<fr>> \o Tail(stack)) = (IF Holds(fr) THEN {fr.pid} ELSE {})
    BY <1>1, <1>6, <1>7, GoesOn
  <2>2. Head(<<fr>> \o Tail(stack)) = fr
    BY <1>1, <1>7, HeadCons, TopFacts
  <2> QED BY <1>5, <1>6, <1>7, <2>1, <2>2
<1>9. Alive' = Alive \ {f} /\ proc' \in [Files -> {"none", "run", "won", "lost"}]
  BY <1>1, <1>2, <1>4 DEF Alive, Live, Zombies, Types
<1>10. Types'
  BY <1>1, <1>3, <1>9 DEF Types
<1>11. Chain' = Chain /\ Waiting' = Waiting
  BY <1>3 DEF Chain, Waiting
<1>12. ChainOK'
  BY <1>1, <1>3, <1>4, <1>8, <1>9, <1>11 DEF JobsInv, ChainOK, NotStarted
<1>13. Holders' = Holders
  BY <1>1, <1>3, <1>4, <1>6, <1>8, <1>9 DEF Holders
<1>14. ShareOK'
  BY <1>3, <1>13 DEF JobsInv, ShareOK
<1>15. ExitOK'
  BY <1>1, <1>3 DEF ExitOK
<1> QED BY <1>3, <1>8, <1>10, <1>12, <1>14, <1>15 DEF JobsInv

LEMMA ReapProcessesStep == ASSUME JobsInv, ReapProcesses PROVE JobsInv'
<1>1. /\ Types /\ StackOK(stack, m, handling) /\ BelowOK(stack, m) /\ Top = stack[1]
      /\ Top \in ReapFrames /\ exit = "no" /\ Top.fn = "reap_children" /\ Top.pc = "process"
      /\ Holds(Top) /\ FrameOK(Top, m) /\ ChainOK /\ ShareOK
  BY TopKnown, FrameKinds DEF Holds, ReapProcesses, Running, JobsInv
<1> DEFINE c == Top.pid
<1>2. m \in MakeData /\ c \in Files /\ Top.failed \in BOOLEAN /\ Hand(stack) = {c}
  BY <1>1 DEF Types, FrameOK, ReapFrames, Hand, Top
<1>3. c \in Chain /\ c \notin Alive /\ ~NotStarted(m, c) /\ Alive \subseteq Files
  BY <1>1, <1>2 DEF ChainOK, Alive, Live, Zombies
<1>4. PICK o \in Process(c, Top.failed) :
        /\ m' = o.m /\ Fork(o, c)
        /\ stack' = <<[Top EXCEPT !.pc = o.pc, !.failed = o.failed]>> \o Tail(stack)
  BY DEF ReapProcesses, Goto
<1>5. UNCHANGED <<dead, dying, handling, signals, exit, opts>>
  BY DEF ReapProcesses
<1>6. ProcessedOK(c, Top.failed, o)
  BY <1>2, ProcessFacts
<1> HIDE DEF c
<1> DEFINE fr == [Top EXCEPT !.pc = o.pc, !.failed = o.failed]
<1>7. /\ m' \in MakeData /\ Others(m, m', c) /\ Lists(m, m') /\ o.failed \in BOOLEAN
      /\ o.pc \in {"test", "remove"} /\ (o.pc = "test" <=> o.vfork = "done")
      /\ m'.file[c].command_state \in {"cs_running", "cs_finished", m.file[c].command_state}
  BY <1>4, <1>6 DEF ProcessedOK
<1>8. /\ fr \in ReapFrames /\ fr.fn = "reap_children" /\ fr.pc = o.pc /\ fr.pid = c
  BY <1>1, <1>7 DEF ReapFrames, c
<1>9. stack' = <<fr>> \o Tail(stack)
  BY <1>4
<1> HIDE DEF fr
<1>10. fr \in Frames /\ ~HasFile(fr) /\ FrameOK(fr, m') /\ (Holds(fr) <=> o.pc = "remove")
  BY <1>2, <1>7, <1>8 DEF Frames, Holds, HasFile, FrameOK, Busy
<1>11. BelowOK(stack, m')
  <2>1. \A g \in Files : (g # c /\ NotStarted(m, g)) => NotStarted(m', g)
    BY <1>7 DEF Others, NotStarted
  <2>2. m'.waiting_jobs = m.waiting_jobs
    BY <1>7 DEF Lists
  <2> QED BY <1>1, <1>3, <2>1, <2>2, BelowKept
<1>12. /\ StackOK(stack', m', handling) /\ Head(stack') = fr
       /\ Hand(stack') = IF o.pc = "remove" THEN {c} ELSE {}
  <2>1. StackOK(<<fr>> \o Tail(stack), m', handling)
        /\ Hand(<<fr>> \o Tail(stack)) = (IF Holds(fr) THEN {fr.pid} ELSE {})
    BY <1>1, <1>8, <1>10, <1>11, GoesOn
  <2>2. Head(<<fr>> \o Tail(stack)) = fr
    BY <1>1, <1>10, HeadCons, TopFacts
  <2> QED BY <1>8, <1>9, <1>10, <2>1, <2>2
<1>13. Types'
  <2>1. proc' \in [Files -> {"none", "run", "won", "lost"}] /\ lost' \subseteq Files
    BY <1>1, <1>2, <1>4 DEF Types, Fork
  <2> QED BY <1>1, <1>5, <1>7, <2>1 DEF Types
<1>14. Alive' = IF o.vfork = "done" THEN Alive \cup {c} ELSE Alive
  <2>1. CASE o.vfork = "done"
    BY <1>1, <1>2, <1>4, <2>1 DEF Fork, Alive, Live, Zombies, Types
  <2>2. CASE o.vfork # "done"
    BY <1>1, <1>4, <2>2 DEF Fork, Alive, Live, Zombies, Types
  <2> QED BY <2>1, <2>2
<1>15. Chain' = Chain /\ Waiting' = Waiting /\ Chain \subseteq Files /\ Waiting \subseteq Files
  <2>1. m.children \in Seq(Files) /\ m.waiting_jobs \in Seq(Files)
    BY <1>2 DEF MakeData
  <2> QED BY <1>7, <2>1 DEF Chain, Waiting, Lists, ToSet
<1>16. \A g \in Chain \cup Waiting : ~NotStarted(m', g)
  <2>1. ~NotStarted(m', c)
    BY <1>3, <1>7 DEF NotStarted
  <2> QED BY <1>1, <1>7, <1>15, <2>1 DEF ChainOK, Others, NotStarted
<1>17. ChainOK'
  BY <1>1, <1>2, <1>3, <1>5, <1>7, <1>12, <1>14, <1>15, <1>16 DEF ChainOK, Lists
<1>18. ShareOK'
  <2> DEFINE A == {g \in Alive : m.file[g].good_stdin}
  <2>1. Holders = A \cup {g \in {c} : m.file[c].good_stdin}
    BY <1>1, <1>2, <1>3 DEF Holders, Top
  <2>2. \A g \in Alive : m'.file[g] = m.file[g]
    BY <1>3, <1>7 DEF Others
  <2>3. Holders' = A \cup {g \in {c} : o.vfork = "done" /\ m'.file[c].good_stdin}
    BY <1>2, <1>3, <1>7, <1>8, <1>12, <1>14, <2>2 DEF Holders
  <2> HIDE DEF A
  <2>4. m.good_stdin_used \in BOOLEAN /\ m.file[c].good_stdin \in BOOLEAN /\ c \notin A
    BY <1>2, <1>3, FileFacts DEF A
  <2>5. /\ \A g, h \in Holders : g = h
        /\ Holders # {} => m.good_stdin_used
        /\ (m.good_stdin_used /\ ~opts.forks /\ ~handling) => Holders # {}
    BY <1>1 DEF ShareOK
  <2>6. \/ o.vfork = "none" /\ m'.good_stdin_used = Freed(c)
        \/ o.vfork = "done" /\ m'.file[c].good_stdin = ~Freed(c) /\ m'.good_stdin_used
        \/ o.vfork = "failed" /\ opts.forks /\ m'.good_stdin_used
    BY <1>4, <1>6 DEF ProcessedOK
  <2>7. Freed(c) <=> (m.good_stdin_used /\ ~m.file[c].good_stdin)
    BY DEF Freed
  <2>8. /\ \A g, h \in Holders' : g = h
        /\ Holders' # {} => m'.good_stdin_used
        /\ (m'.good_stdin_used /\ ~opts.forks /\ ~handling) => Holders' # {}
    <3>1. CASE m.file[c].good_stdin
      <4>1. c \in Holders /\ A = {} /\ ~Freed(c)
        BY <2>1, <2>4, <2>5, <2>7, <3>1
      <4> QED BY <2>3, <2>6, <4>1
    <3>2. CASE ~m.file[c].good_stdin
      <4>1. Holders = A /\ (Freed(c) <=> m.good_stdin_used)
        BY <2>1, <2>7, <3>2
      <4>2. CASE m.good_stdin_used
        BY <2>3, <2>5, <2>6, <4>1, <4>2
      <4>3. CASE ~m.good_stdin_used
        BY <2>3, <2>5, <2>6, <4>1, <4>3
      <4> QED BY <2>4, <4>2, <4>3
    <3> QED BY <2>4, <3>1, <3>2
  <2> QED BY <1>1, <1>5, <1>7, <2>8 DEF ShareOK, Lists
<1>19. ExitOK'
  BY <1>1, <1>5 DEF ExitOK
<1> QED BY <1>5, <1>12, <1>13, <1>17, <1>18, <1>19 DEF JobsInv

LEMMA ReapRemovesStep == ASSUME JobsInv, ReapRemoves PROVE JobsInv'
<1>1. /\ Types /\ StackOK(stack, m, handling) /\ BelowOK(stack, m) /\ Top = stack[1]
      /\ Top \in ReapFrames /\ exit = "no" /\ Top.fn = "reap_children" /\ Top.pc = "remove"
      /\ Holds(Top) /\ FrameOK(Top, m) /\ ChainOK /\ ShareOK
  BY TopKnown, FrameKinds DEF Holds, ReapRemoves, Running, JobsInv
<1> DEFINE c == Top.pid
           fr == [Top EXCEPT !.pc = "test", !.block = FALSE, !.pid = "none", !.failed = FALSE]
           to == DieCall(2)
<1>2. m \in MakeData /\ c \in Files /\ Hand(stack) = {c}
  BY <1>1 DEF Types, FrameOK, ReapFrames, Hand, Top
<1>3. c \in Chain /\ c \notin Alive /\ ~NotStarted(m, c) /\ Alive \subseteq Files
  BY <1>1, <1>2 DEF ChainOK, Alive, Live, Zombies
<1>4. /\ m' = Removed(c)
      /\ \/ /\ stack' = <<to, fr>> \o Tail(stack) /\ FailureIsFatal
            /\ dying' \in {TRUE, dying} /\ exit' \in {"2", "no"}
         \/ stack' = <<fr>> \o Tail(stack) /\ UNCHANGED <<dying, exit>>
      /\ UNCHANGED <<proc, lost, dead, handling, signals, opts>>
  BY <1>1 DEF ReapRemoves, Call, Goto
<1>5. /\ m' \in MakeData /\ Others(m, m', c) /\ m'.waiting_jobs = m.waiting_jobs
      /\ ToSet(m'.children) = Chain \ {c} /\ IsInjective(m'.children)
      /\ Len(m'.children) = Len(m.children) - 1 /\ m'.job_slots_used = m.job_slots_used - 1
      /\ m'.good_stdin_used = m.good_stdin_used
      /\ m'.file[c].command_state \in {m.file[c].command_state, "cs_finished"}
  BY <1>1, <1>2, <1>3, <1>4, RemovedFacts DEF ChainOK
<1> HIDE DEF c
<1>6. fr \in Frames /\ fr.fn = "reap_children" /\ ~Holds(fr) /\ ~HasFile(fr) /\ FrameOK(fr, m')
  BY <1>1 DEF ReapFrames, Frames, Holds, HasFile, FrameOK, Busy
<1>7. to \in Frames /\ to.fn = "die" /\ ~Holds(to) /\ ~HasFile(to) /\ FrameOK(to, m')
  BY NewFrames DEF Status, HasFile
<1> HIDE DEF fr, to
<1>8. BelowOK(stack, m')
  <2>1. \A g \in Files : (g # c /\ NotStarted(m, g)) => NotStarted(m', g)
    BY <1>5 DEF Others, NotStarted
  <2> QED BY <1>1, <1>3, <1>5, <2>1, BelowKept
<1>9. StackOK(stack', m', handling) /\ Hand(stack') = {}
  <2>1. CASE stack' = <<to, fr>> \o Tail(stack)
    BY <1>1, <1>6, <1>7, <1>8, <2>1, GoesOnAndCalls
  <2>2. CASE stack' = <<fr>> \o Tail(stack)
    BY <1>1, <1>6, <1>8, <2>2, GoesOn
  <2> QED BY <1>4, <2>1, <2>2
<1>10. dying' \in BOOLEAN /\ exit' \in {"no", "2"}
  BY <1>1, <1>4 DEF Types
<1>11. Types'
  BY <1>1, <1>4, <1>5, <1>10 DEF Types
<1>12. Chain' = Chain \ {c} /\ Waiting' = Waiting /\ Alive' = Alive /\ Waiting \subseteq Files
       /\ Chain \subseteq Files
  <2>1. m.children \in Seq(Files) /\ m.waiting_jobs \in Seq(Files)
    BY <1>2 DEF MakeData
  <2>2. Chain' = Chain \ {c} /\ Waiting' = Waiting
    BY <1>5 DEF Chain, Waiting
  <2>3. Alive' = Alive
    BY <1>4 DEF Alive, Live, Zombies
  <2>4. Chain \subseteq Files /\ Waiting \subseteq Files
    BY <2>1 DEF Chain, Waiting, ToSet
  <2> QED BY <2>2, <2>3, <2>4
<1>13. \A g \in Chain \cup Waiting : ~NotStarted(m', g)
  <2>1. ~NotStarted(m', c)
    BY <1>3, <1>5 DEF NotStarted
  <2> QED BY <1>1, <1>5, <1>12, <2>1 DEF ChainOK, Others, NotStarted
<1>14. ChainOK'
  <2>1. m'.job_slots_used = Len(m'.children)
    BY <1>1, <1>5 DEF ChainOK
  <2> QED BY <1>1, <1>2, <1>3, <1>4, <1>5, <1>9, <1>12, <1>13, <2>1 DEF ChainOK
<1>15. Holders' = Holders
  <2>1. \A g \in Alive : m'.file[g] = m.file[g]
    BY <1>3, <1>5 DEF Others
  <2>2. Holders = {g \in Alive : m.file[g].good_stdin}
    BY <1>1, <1>2, <1>3 DEF Holders, Top
  <2>3. Holders' = {g \in Alive' : m'.file[g].good_stdin}
    BY <1>3, <1>9, <1>12 DEF Holders
  <2> QED BY <1>12, <2>1, <2>2, <2>3
<1>16. ShareOK'
  <2>1. m.job_slots_used \in Nat /\ opts.job_slots \in Nat
    BY <1>1, <1>2, MakeJobsAssumption DEF Types, MakeData
  <2> QED BY <1>1, <1>4, <1>5, <1>15, <2>1 DEF ShareOK
<1>17. ExitOK'
  BY <1>1, <1>4 DEF ExitOK, FailureIsFatal
<1> QED BY <1>4, <1>9, <1>11, <1>14, <1>16, <1>17 DEF JobsInv

-----------------------------------------------------------------------------
(* The invariant, and what follows from it.                                *)

\* Every step of make, of a process or of a signal preserves the invariant.
LEMMA JobsNext == ASSUME JobsInv, [Next]_vars PROVE JobsInv'
<1>1. CASE Make
  BY <1>1, WaitingReapsStep, WaitingTakesStep, JobQuietStep, JobStartsStep, ReapQuietStep,
     ReapGetsStep, ReapProcessesStep, ReapRemovesStep, DieStep, SignalStep, UpdateQuietStep,
     UpdateEndsStep, GoalsStep
     DEF Make
<1>2. CASE \E f \in Files : Exits(f)
  BY <1>2, ExitsStep
<1>3. CASE fatal_error_signal
  BY <1>3, FatalStep
<1>4. CASE UNCHANGED vars
  <2>1. UNCHANGED <<m, proc, dead, stack, dying, handling, signals, exit, lost, opts>>
    BY <1>4 DEF vars
  <2>2. Chain' = Chain /\ Waiting' = Waiting /\ Alive' = Alive /\ Live' = Live
    BY <2>1 DEF Chain, Waiting, Alive, Live, Zombies
  <2>3. Holders' = Holders
    BY <2>1, <2>2 DEF Holders
  <2>4. Types' /\ StackOK(stack, m, handling)'
    BY <2>1 DEF JobsInv, Types
  <2>5. ChainOK'
    BY <2>1, <2>2 DEF JobsInv, ChainOK
  <2>6. ShareOK' /\ ExitOK'
    BY <2>1, <2>2, <2>3 DEF JobsInv, ShareOK, ExitOK
  <2> QED BY <2>4, <2>5, <2>6 DEF JobsInv
<1> QED BY <1>1, <1>2, <1>3, <1>4 DEF Next, Ended

LEMMA JobsAlways == Spec => []JobsInv
<1>1. Init => JobsInv
  BY JobsInit
<1>2. JobsInv /\ [Next]_vars => JobsInv'
  BY JobsNext
<1> QED BY <1>1, <1>2, PTL DEF Spec

\* A sequence without repetitions is no longer than the set of its elements is large.
LEMMA ListLength ==
  ASSUME NEW s \in Seq(Files), IsInjective(s)
  PROVE  /\ IsFiniteSet(Files) /\ Len(s) <= Cardinality(Files) /\ Cardinality(Files) \in Nat
         /\ \A T : T \subseteq ToSet(s) => IsFiniteSet(T) /\ Cardinality(T) <= Len(s)
<1>1. IsFiniteSet(Files) /\ Cardinality(Files) \in Nat
  BY MakeJobsAssumption, FS_CardinalityType
<1>2. Len(s) \in Nat /\ DOMAIN s = 1..Len(s) /\ s \in [1..Len(s) -> Files]
  OBVIOUS
<1>3. IsFiniteSet(1..Len(s)) /\ Cardinality(1..Len(s)) = Len(s)
  BY <1>2, FS_Interval
<1>4. s \in Injection(1..Len(s), Files)
  BY <1>2 DEF Injection, IsInjective
<1>5. Len(s) <= Cardinality(Files)
  BY <1>1, <1>3, <1>4, FS_Injection
<1>6. s \in Surjection(1..Len(s), ToSet(s))
  BY <1>2 DEF Surjection, ToSet
<1>7. IsFiniteSet(ToSet(s)) /\ Cardinality(ToSet(s)) <= Len(s)
  BY <1>3, <1>6, FS_Surjection
<1>8. ASSUME NEW T, T \subseteq ToSet(s) PROVE IsFiniteSet(T) /\ Cardinality(T) <= Len(s)
  <2>1. IsFiniteSet(T) /\ Cardinality(T) <= Cardinality(ToSet(s))
    BY <1>7, <1>8, FS_Subset
  <2>2. Cardinality(T) \in Nat /\ Cardinality(ToSet(s)) \in Nat
    BY <1>7, <2>1, FS_CardinalityType
  <2> QED BY <1>2, <1>7, <2>1, <2>2
<1> QED BY <1>1, <1>5, <1>8

\* Two sequences without repetitions that share nothing make one.
LEMMA TwoLists ==
  ASSUME NEW s \in Seq(Files), NEW t \in Seq(Files), IsInjective(s), IsInjective(t),
         ToSet(s) \cap ToSet(t) = {}
  PROVE  IsInjective(s \o t)
<1> DEFINE u == s \o t
<1>1. /\ Len(s) \in Nat /\ Len(t) \in Nat /\ DOMAIN s = 1..Len(s) /\ DOMAIN t = 1..Len(t)
      /\ DOMAIN u = 1..(Len(s) + Len(t))
      /\ \A i \in 1..(Len(s) + Len(t)) : u[i] = IF i <= Len(s) THEN s[i] ELSE t[i - Len(s)]
  OBVIOUS
<1> HIDE DEF u
<1>2. ASSUME NEW i \in DOMAIN u, NEW j \in DOMAIN u, u[i] = u[j] PROVE i = j
  <2>1. CASE i <= Len(s) /\ j <= Len(s)
    BY <1>1, <1>2, <2>1 DEF IsInjective
  <2>2. CASE i > Len(s) /\ j > Len(s)
    <3>1. i - Len(s) \in DOMAIN t /\ j - Len(s) \in DOMAIN t /\ t[i - Len(s)] = t[j - Len(s)]
      BY <1>1, <1>2, <2>2
    <3>2. i - Len(s) = j - Len(s)
      BY <3>1 DEF IsInjective
    <3> QED BY <1>1, <3>2
  <2>3. CASE i <= Len(s) /\ j > Len(s)
    <3>1. i \in DOMAIN s /\ j - Len(s) \in DOMAIN t /\ s[i] = t[j - Len(s)]
      BY <1>1, <1>2, <2>3
    <3> QED BY <3>1 DEF ToSet
  <2>4. CASE i > Len(s) /\ j <= Len(s)
    <3>1. j \in DOMAIN s /\ i - Len(s) \in DOMAIN t /\ s[j] = t[i - Len(s)]
      BY <1>1, <1>2, <2>4
    <3> QED BY <3>1 DEF ToSet
  <2> QED BY <1>1, <2>1, <2>2, <2>3, <2>4
<1>3. IsInjective(u)
  BY <1>2 DEF IsInjective
<1> QED BY <1>3 DEF u

\* The invariant says at least what the run checks.
LEMMA InvSound == ASSUME JobsInv PROVE JobsSound
<1>1. /\ Types /\ ChainOK /\ ShareOK /\ StackOK(stack, m, handling)
      /\ m.children \in Seq(Files) /\ m.waiting_jobs \in Seq(Files)
  BY DEF JobsInv, Types, MakeData
<1>2. stack \in Seq(Frames) /\ stack # << >> /\ Head(stack) = stack[1] /\ FrameOK(stack[1], m)
  BY <1>1, TopFacts
<1>3. /\ Len(m.children) <= Cardinality(Files) /\ Cardinality(Files) \in Nat
      /\ \A T : T \subseteq Chain => IsFiniteSet(T) /\ Cardinality(T) <= Len(m.children)
  BY <1>1, ListLength DEF ChainOK, Chain
<1>4. TypeOK
  <2>1. Len(m.children) \in Nat /\ m.job_slots_used \in 0..Cardinality(Files)
    BY <1>1, <1>3 DEF ChainOK
  <2>2. m \in [file : [Files -> FileData], children : Seq(Files), waiting_jobs : Seq(Files),
               job_slots_used : 0..Cardinality(Files), good_stdin_used : BOOLEAN]
    BY <1>1, <2>1 DEF Types, MakeData
  <2> QED BY <1>1, <1>2, <2>2 DEF TypeOK, Types, FileData
<1>5. Hand(stack) \subseteq InHand
  <2>1. CASE Holds(stack[1])
    <3>1. 1 \in DOMAIN stack
      BY <1>2
    <3>2. stack[1].fn = "reap_children" /\ stack[1].pid \in Files
      BY <1>2, <2>1 DEF Holds, FrameOK
    <3>3. stack[1].pid \in InHand
      BY <3>1, <3>2 DEF InHand
    <3> QED BY <1>2, <3>3 DEF Hand
  <2>2. CASE ~Holds(stack[1])
    BY <1>2, <2>2 DEF Hand
  <2> QED BY <2>1, <2>2
<1>6. ChainRight
  <2>1. IsInjective(m.children \o m.waiting_jobs)
    BY <1>1, TwoLists DEF ChainOK, Chain, Waiting
  <2> QED BY <1>1, <1>5, <2>1 DEF ChainRight, ChainOK, Alive
<1>7. StdinShared
  <2> DEFINE H == {f \in Live \cup Zombies : m.file[f].good_stdin}
  <2>1. H \subseteq Holders
    BY DEF Holders, Alive, Live, Zombies
  <2>2. H \subseteq Chain
    BY <1>1 DEF ChainOK, Alive
  <2>3. Cardinality(H) <= 1
    <3>1. CASE H = {}
      BY <3>1, FS_EmptySet
    <3>2. CASE H # {}
      <4>1. PICK f : f \in H
        BY <3>2
      <4>2. H = {f}
        BY <1>1, <2>1, <4>1 DEF ShareOK
      <4>3. Cardinality({f}) = 1
        BY FS_Singleton
      <4> HIDE DEF H
      <4> QED BY <4>2, <4>3
    <3> QED BY <3>1, <3>2
  <2>4. ASSUME ~opts.forks, ~handling, InHand = {} PROVE m.good_stdin_used <=> H # {}
    <3>1. Hand(stack) = {}
      BY <1>5, <2>4
    <3>2. Holders = H
      BY <3>1 DEF Holders, Alive, Live, Zombies
    <3> HIDE DEF H
    <3> QED BY <1>1, <2>4, <3>2 DEF ShareOK
  <2> QED BY <2>3, <2>4 DEF StdinShared
<1>8. SlotLimit
  <2>1. Live \cup Zombies \subseteq Chain
    BY <1>1 DEF ChainOK, Alive
  <2> DEFINE L == Live \cup Zombies
  <2>2. IsFiniteSet(L) /\ Cardinality(L) <= Len(m.children)
    BY <1>3, <2>1
  <2> HIDE DEF L
  <2>3. Cardinality(L) \in Nat /\ Len(m.children) \in Nat
    BY <1>1, <2>2, FS_CardinalityType
  <2>4. ASSUME opts.job_slots # 0, ~opts.load PROVE Cardinality(L) <= opts.job_slots
    <3>1. m.job_slots_used <= opts.job_slots /\ m.job_slots_used = Len(m.children)
      BY <1>1, <2>4 DEF ShareOK, ChainOK
    <3>2. opts.job_slots \in Nat
      BY <1>1, MakeJobsAssumption DEF Types
    <3> QED BY <2>2, <2>3, <3>1, <3>2
  <2> QED BY <2>4 DEF SlotLimit, L
<1> QED BY <1>4, <1>6, <1>7, <1>8 DEF JobsSound

\* Whatever the options, however the processes end and whenever fatal signals come: every
\* process is that of one child on the chain, job_slots_used counts the chain, at most one
\* command has the good standard input, and -j N holds (job.c: start_waiting_job,
\* start_job_command, reap_children).
THEOREM ChildrenAccounted == Spec => []JobsSound
<1>1. JobsInv => JobsSound
  BY InvSound
<1> QED BY <1>1, JobsAlways, PTL

\* With -k make never exits, or dies of a signal, while a command runs: the only exit that does
\* not wait is that of a second die, and with processes left only a failure without -k calls
\* it from reap_children.
THEOREM NothingLeftBehind == Spec => []AllReapedKeepGoing
<1>1. JobsInv => AllReapedKeepGoing
  BY DEF JobsInv, ExitOK, AllReapedKeepGoing, AllReaped
<1> QED BY <1>1, JobsAlways, PTL

-----------------------------------------------------------------------------
(* No command runs before all the dependencies of its target were made,    *)
(* and make's exit status is true.  The invariant for that says what each  *)
(* active call knows about the files it has considered (StackKnows, TopOK) *)
(* and what make's data says of each file (FileOK).  A file that is done   *)
(* stays as it is; that is why a call that was interrupted by others can   *)
(* rely on what it found.                                                  *)

\* The file was made.
Done(x, f) == x.file[f].command_state = "cs_finished" /\ x.file[f].update_status = 0
DepsDone(x, f) == \A i \in DOMAIN Deps[f] : Done(x, Deps[f][i])

\* Something has gone wrong that justifies the exit status 2.
Bad == lost # {} \/ handling

\* What a call knows of the files it has considered; bad says whether something went wrong.
FrameKnows(fr, x, bad) ==
  /\ fr.fn = "update_file_1" =>
       /\ (~fr.running /\ fr.dep_status = 0) =>
             \A k \in DOMAIN Deps[fr.file] : k < fr.d => Done(x, Deps[fr.file][k])
       /\ fr.dep_status # 0 => bad
  /\ (fr.fn = "new_job" /\ fr.pc # "linear") => DepsDone(x, fr.file)
  /\ (fr.fn = "new_job" /\ fr.pc = "linear") => ~NotStarted(x, fr.file)
  /\ fr.fn = "update_goal_chain" =>
       /\ fr.status = 0 => \A g \in ToSet(Goals) : g \in ToSet(fr.goals) \/ Done(x, g)
       /\ fr.status # 0 => bad
  /\ fr.fn = "die" => /\ fr.status = 0 => \A g \in ToSet(Goals) : Done(x, g)
                      /\ fr.status # 0 => bad

\* Who has called whom: update_file_1 waits only for the file it is considering, and only die
\* is called by reap_children.
Linked(s) ==
  \A i \in DOMAIN s : i > 1 =>
    /\ s[i].fn = "update_file_1" =>
         s[i].pc = "result" /\ HasFile(s[i - 1]) /\ s[i - 1].file = Deps[s[i].file][s[i].d]
    /\ s[i].fn = "reap_children" => s[i - 1].fn = "die"

StackKnows(s, x, bad) == Linked(s) /\ \A i \in DOMAIN s : FrameKnows(s[i], x, bad)

\* What the innermost call knows besides; l has the files of which a command was lost.
TopOK(fr, x, l) ==
  /\ (fr.fn = "update_file_1" /\ fr.pc = "result") =>
       x.file[Deps[fr.file][fr.d]].command_state # "cs_not_started"
  /\ (fr.fn = "reap_children" /\ fr.pc \in {"decrement", "wait"}) => x.children # << >>
  /\ (fr.fn = "reap_children" /\ fr.pc = "process") =>
       /\ x.file[fr.pid].command_state = "cs_running"
       /\ fr.pid \in l <=> (fr.failed /\ fr.pid \notin NoError)
  /\ (fr.fn = "reap_children" /\ fr.pc = "remove") =>
       /\ fr.pid \in l => x.file[fr.pid].update_status = 2
       /\ x.file[fr.pid].update_status = 0 => x.file[fr.pid].left = 0
       /\ fr.failed => l # {}

\* What make's data, the processes p and what was lost say of the file f.
FileOK(f, x, p, l, bad) ==
  /\ (p[f] # "none" \/ f \in ToSet(x.waiting_jobs)) => x.file[f].command_state = "cs_running"
  /\ Done(x, f) => /\ x.file[f].left = 0 /\ f \notin l
                   /\ f \notin ToSet(x.children) /\ f \notin ToSet(x.waiting_jobs)
                   /\ DepsDone(x, f)
  /\ (f \in ToSet(x.children) \/ f \in ToSet(x.waiting_jobs)) => DepsDone(x, f)
  /\ p[f] \in {"run", "won"} => f \notin l
  /\ p[f] = "lost" => (f \in l <=> f \notin NoError)
  /\ (NotStarted(x, f) \/ f \in ToSet(x.waiting_jobs)) => f \notin l
  /\ x.file[f].update_status # 0 => bad

FilesOK == \A f \in Files : FileOK(f, m, proc, lost, Bad)

EndOK ==
  /\ exit = "0" => \A g \in ToSet(Goals) : Done(m, g)
  /\ exit = "2" => Bad

StatusInv == StackKnows(stack, m, Bad) /\ TopOK(stack[1], m, lost) /\ FilesOK /\ EndOK

-----------------------------------------------------------------------------
(* What is known stays so, and the stack with it.                          *)

\* The data y comes later than x: what was done or started is.
Later(x, y) ==
  \A f \in Files : (Done(x, f) => Done(y, f)) /\ (NotStarted(y, f) => NotStarted(x, f))

\* Files and goals are what the constants name.
LEMMA Named ==
  /\ \A f \in Files : /\ Deps[f] \in Seq(Files) /\ DOMAIN Deps[f] = 1..Len(Deps[f])
                      /\ Len(Deps[f]) \in Nat
                      /\ \A i \in DOMAIN Deps[f] : Deps[f][i] \in Files
  /\ ToSet(Goals) \subseteq Files
<1>1. Deps \in [Files -> Seq(Files)] /\ Goals \in Seq(Files)
  BY MakeJobsAssumption
<1>2. \A f \in Files : Deps[f] \in Seq(Files)
  BY <1>1
<1>3. ToSet(Goals) \subseteq Files
  BY <1>1 DEF ToSet
<1> QED BY <1>2, <1>3

\* What a call knows is true later.
LEMMA KnowsLater ==
  ASSUME NEW x, NEW y, NEW b, NEW b2, NEW fr \in Frames, FrameKnows(fr, x, b), Later(x, y), b => b2
  PROVE  FrameKnows(fr, y, b2)
<1>1. \A f \in Files : Done(x, f) => Done(y, f)
  BY DEF Later
<1>2. \A f \in Files : DepsDone(x, f) => DepsDone(y, f)
  BY <1>1, Named DEF DepsDone
<1>3. \A f \in Files : ~NotStarted(x, f) => ~NotStarted(y, f)
  BY DEF Later
<1>4. CASE fr.fn = "update_file_1"
  <2>1. fr.file \in Files
    BY <1>4, FrameKinds DEF UpdateFrames
  <2> QED BY <1>1, <1>4, <2>1, Named DEF FrameKnows
<1>5. CASE fr.fn = "new_job"
  <2>1. fr.file \in Files
    BY <1>5, FrameKinds DEF JobFrames
  <2> QED BY <1>2, <1>3, <1>5, <2>1 DEF FrameKnows
<1>6. CASE fr.fn = "update_goal_chain"
  BY <1>1, <1>6, Named DEF FrameKnows
<1>7. CASE fr.fn = "die"
  BY <1>1, <1>7, Named DEF FrameKnows
<1> QED BY <1>4, <1>5, <1>6, <1>7 DEF FrameKnows

\* The innermost call has returned; the file it was about has been considered.
LEMMA KnowsReturn ==
  ASSUME NEW s \in Seq(Frames), Len(s) > 1, NEW x, NEW y, NEW b, NEW b2, StackKnows(s, x, b),
         Later(x, y), b => b2, NEW l,
         HasFile(s[1]) => y.file[s[1].file].command_state # "cs_not_started", s[1].fn # "die"
  PROVE  StackKnows(Tail(s), y, b2) /\ TopOK(Tail(s)[1], y, l)
<1> DEFINE t == Tail(s)
<1>1. s # << >> /\ Len(s) \in Nat /\ DOMAIN s = 1..Len(s)
  OBVIOUS
<1>2. DOMAIN t = 1..(Len(s) - 1) /\ \A i \in 1..(Len(s) - 1) : t[i] = s[i + 1]
  BY <1>1, TailFacts
<1> HIDE DEF t
<1>3. \A i \in DOMAIN t : i + 1 \in DOMAIN s /\ i + 1 > 1 /\ t[i] = s[i + 1] /\ s[i + 1] \in Frames
  BY <1>1, <1>2
<1>4. \A i \in DOMAIN t : FrameKnows(t[i], y, b2)
  BY <1>3, KnowsLater DEF StackKnows
<1>5. Linked(t)
  <2>1. ASSUME NEW i \in DOMAIN t, i > 1
        PROVE  /\ t[i].fn = "update_file_1" =>
                    /\ t[i].pc = "result" /\ HasFile(t[i - 1])
                    /\ t[i - 1].file = Deps[t[i].file][t[i].d]
               /\ t[i].fn = "reap_children" => t[i - 1].fn = "die"
    <3>1. i - 1 \in DOMAIN t /\ t[i - 1] = s[i] /\ t[i] = s[i + 1] /\ (i + 1) - 1 = i
      BY <1>2, <2>1
    <3> QED BY <1>3, <3>1 DEF StackKnows, Linked
  <2> QED BY <2>1 DEF Linked
<1>6. TopOK(t[1], y, l)
  <2>1. 2 \in DOMAIN s /\ 2 > 1 /\ t[1] = s[2] /\ 2 - 1 = 1
    BY <1>1, <1>2
  <2>2. /\ s[2].fn = "update_file_1" => HasFile(s[1]) /\ s[1].file = Deps[s[2].file][s[2].d]
        /\ s[2].fn # "reap_children"
    BY <2>1 DEF StackKnows, Linked
  <2> QED BY <2>1, <2>2 DEF TopOK
<1> QED BY <1>4, <1>5, <1>6 DEF StackKnows, t

\* The innermost call has gone on as fr.
LEMMA KnowsGoto ==
  ASSUME NEW s \in Seq(Frames), s # << >>, NEW x, NEW y, NEW b, NEW b2, StackKnows(s, x, b),
         Later(x, y), b => b2, NEW fr \in Frames, FrameKnows(fr, y, b2),
         HasFile(s[1]) => HasFile(fr) /\ fr.file = s[1].file, s[1].fn = "die" => fr.fn = "die"
  PROVE  StackKnows(<<fr>> \o Tail(s), y, b2) /\ (<<fr>> \o Tail(s))[1] = fr
<1> DEFINE t == <<fr>> \o Tail(s)
<1>1. /\ Len(s) \in Nat /\ Len(s) >= 1 /\ DOMAIN s = 1..Len(s) /\ Tail(s) \in Seq(Frames)
      /\ Len(Tail(s)) = Len(s) - 1
      /\ \A i \in 1..(Len(s) - 1) : Tail(s)[i] = s[i + 1]
  BY TailFacts
<1>2. /\ DOMAIN t = DOMAIN s /\ t[1] = fr
      /\ \A i \in 2..Len(s) : t[i] = Tail(s)[i - 1]
  BY <1>1, ConsFacts
<1>3. \A i \in DOMAIN s : i > 1 => t[i] = s[i]
  BY <1>1, <1>2
<1> HIDE DEF t
<1>4. \A i \in DOMAIN s : (i > 1 \/ i = 1) /\ s[i] \in Frames
  BY <1>1
<1>5. \A i \in DOMAIN t : FrameKnows(t[i], y, b2)
  BY <1>2, <1>3, <1>4, KnowsLater DEF StackKnows
<1>6. Linked(t)
  <2>1. ASSUME NEW i \in DOMAIN t, i > 1
        PROVE  /\ t[i].fn = "update_file_1" =>
                    /\ t[i].pc = "result" /\ HasFile(t[i - 1])
                    /\ t[i - 1].file = Deps[t[i].file][t[i].d]
               /\ t[i].fn = "reap_children" => t[i - 1].fn = "die"
    <3>1. /\ t[i].fn = "update_file_1" =>
               /\ t[i].pc = "result" /\ HasFile(s[i - 1])
               /\ s[i - 1].file = Deps[t[i].file][t[i].d]
          /\ t[i].fn = "reap_children" => s[i - 1].fn = "die"
      BY <1>2, <1>3, <2>1 DEF StackKnows, Linked
    <3>2. i - 1 = 1 \/ t[i - 1] = s[i - 1]
      BY <1>1, <1>2, <1>3, <2>1
    <3> QED BY <1>2, <3>1, <3>2
  <2> QED BY <2>1 DEF Linked
<1> QED BY <1>2, <1>5, <1>6 DEF StackKnows, t

\* The innermost call has called fr.
LEMMA KnowsPush ==
  ASSUME NEW s \in Seq(Frames), s # << >>, NEW x, NEW b, StackKnows(s, x, b),
         NEW fr \in Frames, FrameKnows(fr, x, b),
         s[1].fn = "update_file_1" =>
           s[1].pc = "result" /\ HasFile(fr) /\ fr.file = Deps[s[1].file][s[1].d],
         s[1].fn = "reap_children" => fr.fn = "die"
  PROVE  StackKnows(<<fr>> \o s, x, b) /\ (<<fr>> \o s)[1] = fr
<1> DEFINE t == <<fr>> \o s
<1>1. /\ Len(s) \in Nat /\ Len(s) >= 1 /\ DOMAIN s = 1..Len(s)
      /\ DOMAIN t = 1..(Len(s) + 1) /\ t[1] = fr
      /\ \A i \in 2..(Len(s) + 1) : t[i] = s[i - 1]
  BY ConsFacts
<1> HIDE DEF t
<1>2. \A i \in DOMAIN t : i = 1 \/ (i > 1 /\ i - 1 \in DOMAIN s /\ t[i] = s[i - 1])
  BY <1>1
<1>3. \A i \in DOMAIN t : FrameKnows(t[i], x, b)
  BY <1>1, <1>2 DEF StackKnows
<1>4. Linked(t)
  <2>1. ASSUME NEW i \in DOMAIN t, i > 1
        PROVE  /\ t[i].fn = "update_file_1" =>
                    /\ t[i].pc = "result" /\ HasFile(t[i - 1])
                    /\ t[i - 1].file = Deps[t[i].file][t[i].d]
               /\ t[i].fn = "reap_children" => t[i - 1].fn = "die"
    <3>1. i - 1 \in DOMAIN s /\ t[i] = s[i - 1]
      BY <1>2, <2>1
    <3>2. CASE i - 1 = 1
      BY <1>1, <3>1, <3>2
    <3>3. CASE i - 1 # 1
      <4>1. i - 1 > 1 /\ t[i - 1] = s[(i - 1) - 1]
        BY <1>1, <2>1, <3>1, <3>3
      <4> QED BY <3>1, <4>1 DEF StackKnows, Linked
    <3> QED BY <3>2, <3>3
  <2> QED BY <2>1 DEF Linked
<1> QED BY <1>1, <1>3, <1>4 DEF StackKnows, t

\* The innermost call has gone on as fr after it has called another.
LEMMA KnowsCall ==
  ASSUME NEW s \in Seq(Frames), s # << >>, NEW x, NEW y, NEW b, NEW b2, StackKnows(s, x, b),
         Later(x, y), b => b2, NEW fr \in Frames, FrameKnows(fr, y, b2),
         HasFile(s[1]) => HasFile(fr) /\ fr.file = s[1].file, s[1].fn = "die" => fr.fn = "die",
         NEW to \in Frames, FrameKnows(to, y, b2),
         fr.fn = "update_file_1" =>
           fr.pc = "result" /\ HasFile(to) /\ to.file = Deps[fr.file][fr.d],
         fr.fn = "reap_children" => to.fn = "die"
  PROVE  StackKnows(<<to, fr>> \o Tail(s), y, b2) /\ (<<to, fr>> \o Tail(s))[1] = to
<1> DEFINE t == <<fr>> \o Tail(s)
<1>1. Tail(s) \in Seq(Frames)
  BY TailFacts
<1>2. StackKnows(t, y, b2) /\ t[1] = fr
  <2>1. StackKnows(<<fr>> \o Tail(s), y, b2)
    BY KnowsGoto
  <2>2. (<<fr>> \o Tail(s))[1] = fr
    BY <1>1, ConsFacts
  <2> QED BY <2>1, <2>2
<1>3. t \in Seq(Frames) /\ t # << >>
  BY <1>1, ConsFacts
<1>4. <<to, fr>> \o Tail(s) = <<to>> \o t
  BY <1>1, CallIsPush
<1> HIDE DEF t
<1>5. StackKnows(<<to>> \o t, y, b2) /\ (<<to>> \o t)[1] = to
  BY <1>2, <1>3, KnowsPush
<1> QED BY <1>4, <1>5

-----------------------------------------------------------------------------
(* The files.                                                              *)

\* Nothing but c has changed, and that file was not done.
LEMMA LaterBy ==
  ASSUME NEW x, NEW y, NEW c, Others(x, y, c), ~Done(x, c), NotStarted(y, c) => NotStarted(x, c)
  PROVE  Later(x, y)
BY DEF Later, Others, Done, NotStarted

\* If nothing but c has changed, every other file is still what it should be.
LEMMA FilesLater ==
  ASSUME NEW x, NEW y, NEW p, NEW q, NEW l, NEW k, NEW b, NEW b2, NEW c,
         \A f \in Files : FileOK(f, x, p, l, b), Others(x, y, c), Later(x, y), b => b2,
         \A f \in Files : f # c => q[f] = p[f],
         ToSet(y.children) \subseteq ToSet(x.children) \cup {c},
         ToSet(y.waiting_jobs) \subseteq ToSet(x.waiting_jobs) \cup {c},
         k \subseteq l \cup {c}, l \subseteq k,
         FileOK(c, y, q, k, b2)
  PROVE  \A f \in Files : FileOK(f, y, q, k, b2)
<1>1. SUFFICES ASSUME NEW f \in Files, f # c PROVE FileOK(f, y, q, k, b2)
  OBVIOUS
<1>2. FileOK(f, x, p, l, b) /\ y.file[f] = x.file[f] /\ q[f] = p[f]
  BY <1>1 DEF Others
<1>3. (f \in k <=> f \in l) /\ (f \in ToSet(y.children) => f \in ToSet(x.children))
      /\ (f \in ToSet(y.waiting_jobs) => f \in ToSet(x.waiting_jobs))
  BY <1>1
<1>4. DepsDone(x, f) => DepsDone(y, f)
  BY Named DEF Later, DepsDone
<1> QED BY <1>2, <1>3, <1>4 DEF FileOK, Done, NotStarted
-----------------------------------------------------------------------------
(* The steps that change no file.                                          *)

\* What is known of the innermost call.
LEMMA StatusKnown ==
  ASSUME JobsInv, StatusInv
  PROVE  /\ stack \in Seq(Frames) /\ stack # << >> /\ Top = stack[1] /\ Top \in Frames
         /\ FrameOK(Top, m) /\ FrameKnows(Top, m, Bad) /\ TopOK(Top, m, lost)
         /\ Later(m, m) /\ m \in MakeData
         /\ Top.fn \notin {"update_goal_chain", "die", "fatal_error_signal"} => Len(stack) > 1
         /\ handling => Top.fn \in {"fatal_error_signal", "reap_children", "die"}
         /\ StackKnows(stack, m, Bad)
<1>1. StackOK(stack, m, handling) /\ m \in MakeData
  BY DEF JobsInv, Types
<1>2. stack \in Seq(Frames) /\ stack # << >> /\ 1 \in DOMAIN stack /\ Len(stack) \in Nat
      /\ Len(stack) >= 1
  BY <1>1 DEF StackOK
<1>3. /\ Top = stack[1] /\ Top \in Frames /\ FrameOK(Top, m)
      /\ handling => Top.fn \in {"fatal_error_signal", "reap_children", "die"}
  BY TopKnown
<1>4. Len(stack) = 1 => Top.fn \in {"update_goal_chain", "die", "fatal_error_signal"}
  BY <1>1, <1>3 DEF StackOK
<1>5. Later(m, m)
  BY DEF Later
<1>6. StackKnows(stack, m, Bad) /\ TopOK(stack[1], m, lost)
  BY DEF StatusInv
<1>7. FrameKnows(stack[1], m, Bad)
  BY <1>2, <1>6 DEF StackKnows
<1>8. FrameKnows(Top, m, Bad) /\ TopOK(Top, m, lost)
  BY <1>3, <1>6, <1>7
<1>9. Top.fn \notin {"update_goal_chain", "die", "fatal_error_signal"} => Len(stack) > 1
  <2>1. Len(stack) = 1 \/ Len(stack) > 1
    BY <1>2
  <2> QED BY <1>4, <2>1
<1> QED BY <1>1, <1>2, <1>3, <1>5, <1>6, <1>8, <1>9

\* Nothing but the stack and the exit changes.
LEMMA QuietStatus ==
  ASSUME StatusInv, UNCHANGED <<m, proc, lost, handling>>, StackKnows(stack', m, Bad),
         TopOK(stack'[1], m, lost), EndOK'
  PROVE  StatusInv'
<1>1. Bad' = Bad
  BY DEF Bad
<1>2. FilesOK'
  BY <1>1 DEF StatusInv, FilesOK
<1>3. StackKnows(stack, m, Bad)' /\ TopOK(stack[1], m, lost)'
  BY <1>1
<1> QED BY <1>2, <1>3 DEF StatusInv

\* The end, as long as make goes on.
LEMMA NoEnd == ASSUME exit' = "no" PROVE EndOK'
BY DEF EndOK

\* The innermost call returns.
LEMMA ReturnStatus ==
  ASSUME JobsInv, StatusInv, UNCHANGED <<m, proc, lost, handling>>, exit' = "no",
         Len(stack) > 1, stack' = Tail(stack), Top.fn # "die",
         HasFile(Top) => m.file[Top.file].command_state # "cs_not_started"
  PROVE  StatusInv'
<1>1. /\ stack \in Seq(Frames) /\ Top = stack[1] /\ StackKnows(stack, m, Bad) /\ Later(m, m)
  BY StatusKnown
<1>2. HasFile(stack[1]) => m.file[stack[1].file].command_state # "cs_not_started"
  BY <1>1
<1>3. stack[1].fn # "die" /\ (Bad => Bad)
  BY <1>1
<1>4. StackKnows(Tail(stack), m, Bad)
  BY <1>1, <1>2, <1>3, KnowsReturn
<1>5. TopOK(Tail(stack)[1], m, lost)
  BY <1>1, <1>2, <1>3, KnowsReturn
<1>6. StackKnows(stack', m, Bad) /\ TopOK(stack'[1], m, lost)
  BY <1>4, <1>5
<1> QED BY <1>6, QuietStatus, NoEnd

\* The innermost call goes on as fr.
LEMMA GotoStatus ==
  ASSUME JobsInv, StatusInv, UNCHANGED <<m, proc, lost, handling>>, exit' = "no",
         NEW fr \in Frames, FrameKnows(fr, m, Bad), TopOK(fr, m, lost),
         HasFile(Top) => HasFile(fr) /\ fr.file = Top.file, Top.fn = "die" => fr.fn = "die",
         stack' = <<fr>> \o Tail(stack)
  PROVE  StatusInv'
<1>1. /\ stack \in Seq(Frames) /\ stack # << >> /\ Top = stack[1] /\ StackKnows(stack, m, Bad)
      /\ Later(m, m)
  BY StatusKnown
<1>2. HasFile(stack[1]) => HasFile(fr) /\ fr.file = stack[1].file
  BY <1>1
<1>3. (stack[1].fn = "die" => fr.fn = "die") /\ (Bad => Bad)
  BY <1>1
<1>4. StackKnows(<<fr>> \o Tail(stack), m, Bad)
  BY <1>1, <1>2, <1>3, KnowsGoto
<1>5. (<<fr>> \o Tail(stack))[1] = fr
  BY <1>1, <1>2, <1>3, KnowsGoto
<1>6. StackKnows(stack', m, Bad) /\ TopOK(stack'[1], m, lost)
  BY <1>4, <1>5
<1> QED BY <1>6, QuietStatus, NoEnd

\* The innermost call calls fr.
LEMMA PushKnows ==
  ASSUME JobsInv, StatusInv, NEW fr \in Frames, FrameKnows(fr, m, Bad), TopOK(fr, m, lost),
         Top.fn # "update_file_1", Top.fn = "reap_children" => fr.fn = "die",
         stack' = <<fr>> \o stack
  PROVE  StackKnows(stack', m, Bad) /\ TopOK(stack'[1], m, lost)
<1>1. /\ stack \in Seq(Frames) /\ stack # << >> /\ Top = stack[1] /\ StackKnows(stack, m, Bad)
  BY StatusKnown
<1>2. stack[1].fn # "update_file_1" /\ (stack[1].fn = "reap_children" => fr.fn = "die")
  BY <1>1
<1>4. StackKnows(<<fr>> \o stack, m, Bad)
  BY <1>1, <1>2, KnowsPush
<1>5. (<<fr>> \o stack)[1] = fr
  BY <1>1, <1>2, KnowsPush
<1> QED BY <1>4, <1>5

LEMMA CalledIsFirst ==
  ASSUME NEW s \in Seq(Frames), s # << >>, NEW to \in Frames, NEW fr \in Frames
  PROVE  (<<to, fr>> \o Tail(s))[1] = to
OBVIOUS

\* The innermost call goes on as fr after it has called another.
LEMMA CallStatus ==
  ASSUME JobsInv, StatusInv, UNCHANGED <<m, proc, lost, handling>>, exit' = "no",
         NEW fr \in Frames, FrameKnows(fr, m, Bad), NEW to \in Frames, FrameKnows(to, m, Bad),
         TopOK(to, m, lost),
         HasFile(Top) => HasFile(fr) /\ fr.file = Top.file, Top.fn = "die" => fr.fn = "die",
         fr.fn = "update_file_1" =>
           fr.pc = "result" /\ HasFile(to) /\ to.file = Deps[fr.file][fr.d],
         fr.fn # "reap_children", stack' = <<to, fr>> \o Tail(stack)
  PROVE  StatusInv'
<1>1. /\ stack \in Seq(Frames) /\ stack # << >> /\ Top = stack[1] /\ StackKnows(stack, m, Bad)
      /\ Later(m, m)
  BY StatusKnown
<1>2. HasFile(stack[1]) => HasFile(fr) /\ fr.file = stack[1].file
  BY <1>1
<1>3. /\ stack[1].fn = "die" => fr.fn = "die"
      /\ fr.fn = "reap_children" => to.fn = "die"
      /\ Bad => Bad
  BY <1>1
<1>4. StackKnows(<<to, fr>> \o Tail(stack), m, Bad)
  BY <1>1, <1>2, <1>3, KnowsCall, Zenon
<1>5. (<<to, fr>> \o Tail(stack))[1] = to
  BY <1>1, CalledIsFirst
<1>6. StackKnows(stack', m, Bad) /\ TopOK(stack'[1], m, lost)
  BY <1>4, <1>5, Zenon
<1> QED BY <1>6, QuietStatus, NoEnd

\* What new calls know.
LEMMA NewKnows ==
  ASSUME NEW x, NEW b, NEW l
  PROVE  /\ \A bl, e \in BOOLEAN : FrameKnows(ReapCall(bl, e), x, b) /\ TopOK(ReapCall(bl, e), x, l)
         /\ FrameKnows(WaitingCall, x, b) /\ TopOK(WaitingCall, x, l)
         /\ FrameKnows(SignalCall, x, b) /\ TopOK(SignalCall, x, l)
         /\ \A f \in Files : FrameKnows(UpdateCall(f), x, b) /\ TopOK(UpdateCall(f), x, l)
         /\ \A f \in Files : DepsDone(x, f) => FrameKnows(JobCall(f), x, b)
         /\ \A f \in Files : TopOK(JobCall(f), x, l)
         /\ b => FrameKnows(DieCall(2), x, b)
         /\ \A st \in Status : TopOK(DieCall(st), x, l)
<1> USE DEF FrameKnows, TopOK
<1>1. ASSUME NEW bl \in BOOLEAN, NEW e \in BOOLEAN
      PROVE  FrameKnows(ReapCall(bl, e), x, b) /\ TopOK(ReapCall(bl, e), x, l)
  BY DEF ReapCall
<1>2. FrameKnows(WaitingCall, x, b) /\ TopOK(WaitingCall, x, l)
  BY DEF WaitingCall
<1>3. FrameKnows(SignalCall, x, b) /\ TopOK(SignalCall, x, l)
  BY DEF SignalCall
<1>4. ASSUME NEW f \in Files PROVE FrameKnows(UpdateCall(f), x, b) /\ TopOK(UpdateCall(f), x, l)
  BY Named DEF UpdateCall
<1>5. ASSUME NEW f \in Files
      PROVE  (DepsDone(x, f) => FrameKnows(JobCall(f), x, b)) /\ TopOK(JobCall(f), x, l)
  BY DEF JobCall
<1>6. (b => FrameKnows(DieCall(2), x, b)) /\ \A st \in Status : TopOK(DieCall(st), x, l)
  BY DEF DieCall
<1> QED BY <1>1, <1>2, <1>3, <1>4, <1>5, <1>6

LEMMA WaitingReapsStatus == ASSUME JobsInv, StatusInv, WaitingReaps PROVE StatusInv'
<1>1. /\ Top.fn = "start_waiting_jobs" /\ Len(stack) > 1 /\ Top \in WaitingFrames /\ ~HasFile(Top)
  BY StatusKnown, FrameKinds DEF WaitingReaps, Running, HasFile
<1>2. UNCHANGED <<m, proc, lost, handling>> /\ exit' = "no"
  BY DEF WaitingReaps, Running
<1>3. CASE stack' = Tail(stack)
  BY <1>1, <1>2, <1>3, ReturnStatus
<1>4. CASE stack' = <<ReapCall(FALSE, FALSE), [Top EXCEPT !.pc = "take"]>> \o Tail(stack)
  <2> DEFINE fr == [Top EXCEPT !.pc = "take"]
             to == ReapCall(FALSE, FALSE)
  <2>1. fr \in Frames /\ fr.fn = "start_waiting_jobs" /\ FrameKnows(fr, m, Bad)
    BY <1>1 DEF Frames, WaitingFrames, FrameKnows
  <2>2. to \in Frames /\ FrameKnows(to, m, Bad) /\ TopOK(to, m, lost)
    BY NewFrames, NewKnows
  <2>3. stack' = <<to, fr>> \o Tail(stack)
    BY <1>4
  <2> HIDE DEF fr, to
  <2> QED BY <1>1, <1>2, <2>1, <2>2, <2>3, CallStatus
<1> QED BY <1>3, <1>4 DEF WaitingReaps, Return, Call

LEMMA JobQuietStatus ==
  ASSUME JobsInv, StatusInv, JobStartsWaiting \/ JobReaps \/ JobWaitsForSlot \/ JobIsLinear
  PROVE  StatusInv'
<1> USE DEF JobStartsWaiting, JobReaps, JobWaitsForSlot, JobIsLinear, Running
<1>1. /\ Top.fn = "new_job" /\ Len(stack) > 1 /\ Top \in JobFrames /\ FrameKnows(Top, m, Bad)
  BY StatusKnown, FrameKinds
<1>2. UNCHANGED <<m, proc, lost, handling>> /\ exit' = "no"
  OBVIOUS
<1>3. ASSUME NEW pc \in {"reap", "slot"}, NEW to \in Frames, FrameKnows(to, m, Bad),
             TopOK(to, m, lost), Top.pc # "linear",
             stack' = <<to, [Top EXCEPT !.pc = pc]>> \o Tail(stack)
      PROVE  StatusInv'
  <2> DEFINE fr == [Top EXCEPT !.pc = pc]
  <2>1. fr \in Frames /\ fr.fn = "new_job" /\ fr.file = Top.file /\ fr.pc = pc
    BY <1>1 DEF Frames, JobFrames
  <2>2. stack' = <<to, fr>> \o Tail(stack)
    BY <1>3
  <2> HIDE DEF fr
  <2> HIDE DEF JobStartsWaiting, JobReaps, JobWaitsForSlot, JobIsLinear, Running
  <2>3. FrameKnows(fr, m, Bad) /\ HasFile(fr)
    BY <1>1, <1>3, <2>1 DEF FrameKnows, HasFile
  <2> QED BY <1>1, <1>2, <1>3, <2>1, <2>2, <2>3, CallStatus
<1>4. CASE JobStartsWaiting
  BY <1>3, <1>4, NewFrames, NewKnows DEF Call
<1>5. CASE JobReaps
  BY <1>3, <1>5, NewFrames, NewKnows DEF Call
<1>6. CASE stack' = <<ReapCall(TRUE, FALSE)>> \o stack
  <2> DEFINE to == ReapCall(TRUE, FALSE)
  <2>1. to \in Frames /\ FrameKnows(to, m, Bad) /\ TopOK(to, m, lost)
    BY NewFrames, NewKnows
  <2>2. stack' = <<to>> \o stack
    BY <1>6
  <2> HIDE DEF to
  <2>3. StackKnows(stack', m, Bad) /\ TopOK(stack'[1], m, lost)
    BY <1>1, <2>1, <2>2, PushKnows
  <2> QED BY <1>2, <2>3, QuietStatus, NoEnd
<1>7. CASE JobIsLinear /\ stack' = Tail(stack)
  <2>1. Top.pc = "linear" /\ m.file[Top.file].command_state # "cs_not_started"
    BY <1>1, <1>7 DEF FrameKnows, NotStarted
  <2> HIDE DEF JobStartsWaiting, JobReaps, JobWaitsForSlot, JobIsLinear, Running
  <2> QED BY <1>1, <1>2, <1>7, <2>1, ReturnStatus
<1> QED BY <1>4, <1>5, <1>6, <1>7 DEF Push, Return

LEMMA ReapQuietStatus ==
  ASSUME JobsInv, StatusInv, ReapTests \/ ReapDecrements \/ ReapFindsNone \/ ReapHasNone
  PROVE  StatusInv'
<1> USE DEF ReapTests, ReapDecrements, ReapFindsNone, ReapHasNone, Running
<1>1. /\ Top.fn = "reap_children" /\ Len(stack) > 1 /\ Top \in ReapFrames
      /\ TopOK(Top, m, lost) /\ ~HasFile(Top) /\ exit = "no"
  BY StatusKnown, FrameKinds DEF HasFile
<1>2. UNCHANGED <<m, proc, lost, handling>>
  OBVIOUS
<1>3. ASSUME NEW pc \in {"decrement", "wait"}, m.children # << >>, exit' = exit,
             stack' = <<[Top EXCEPT !.pc = pc]>> \o Tail(stack)
      PROVE  StatusInv'
  <2> DEFINE fr == [Top EXCEPT !.pc = pc]
  <2>1. fr \in Frames /\ fr.fn = "reap_children" /\ fr.pc = pc
    BY <1>1 DEF Frames, ReapFrames
  <2>2. stack' = <<fr>> \o Tail(stack)
    BY <1>3
  <2> HIDE DEF fr
  <2> HIDE DEF ReapTests, ReapDecrements, ReapFindsNone, ReapHasNone, Running
  <2>3. FrameKnows(fr, m, Bad) /\ TopOK(fr, m, lost)
    BY <1>3, <2>1 DEF FrameKnows, TopOK
  <2> QED BY <1>1, <1>2, <1>3, <2>1, <2>2, <2>3, GotoStatus
<1>4. ASSUME exit' = exit, stack' = Tail(stack) PROVE StatusInv'
  <2> HIDE DEF ReapTests, ReapDecrements, ReapFindsNone, ReapHasNone, Running
  <2> QED BY <1>1, <1>2, <1>4, ReturnStatus
<1>5. CASE ReapHasNone
  <2>1. m.children # << >>
    BY <1>1, <1>5 DEF TopOK
  <2>2. Chain # {}
    <3>1. m.children \in Seq(Files)
      BY DEF JobsInv, Types, MakeData
    <3>2. m.children[1] \in Chain
      BY <2>1, <3>1 DEF Chain, ToSet
    <3> QED BY <3>2
  <2>3. Hand(stack) = {} /\ Alive = {}
    BY <1>5 DEF Hand, Holds, Top, Alive
  <2>4. Bad
    BY <2>2, <2>3 DEF JobsInv, ChainOK, Bad
  <2> DEFINE to == DieCall(2)
  <2>5. to \in Frames /\ FrameKnows(to, m, Bad) /\ TopOK(to, m, lost) /\ to.fn = "die"
    BY <2>4, NewFrames, NewKnows DEF Status
  <2>6. stack' = <<to>> \o stack
    BY <1>5 DEF Push
  <2> HIDE DEF to
  <2>7. StackKnows(stack', m, Bad) /\ TopOK(stack'[1], m, lost)
    BY <1>1, <2>5, <2>6, PushKnows
  <2>8. EndOK'
    <3>1. Bad' = Bad /\ exit' \in {"no", "2"}
      BY <1>1, <1>2, <1>5 DEF Bad
    <3> QED BY <2>4, <3>1 DEF EndOK
  <2> QED BY <1>2, <2>7, <2>8, QuietStatus
<1>6. CASE ReapTests
  BY <1>3, <1>4, <1>6 DEF Goto, Return
<1>7. CASE ReapDecrements
  BY <1>1, <1>3, <1>7 DEF Goto, TopOK
<1>8. CASE ReapFindsNone
  BY <1>4, <1>8 DEF Return
<1> QED BY <1>5, <1>6, <1>7, <1>8

LEMMA DieStatus == ASSUME JobsInv, StatusInv, DieWaits \/ DieExits PROVE StatusInv'
<1> USE DEF DieWaits, DieExits, Running
<1>1. /\ Top = stack[1] /\ Top.fn = "die" /\ Top \in DieFrames
      /\ TopOK(Top, m, lost) /\ ~HasFile(Top) /\ exit = "no" /\ FrameKnows(Top, m, Bad)
      /\ StackKnows(stack, m, Bad)
  BY StatusKnown, FrameKinds DEF HasFile
<1>2. UNCHANGED <<m, proc, lost, handling>>
  OBVIOUS
<1>3. CASE DieWaits
  <2> DEFINE fr == [Top EXCEPT !.err = FALSE]
             to == ReapCall(TRUE, Top.err)
  <2>1. fr \in Frames /\ fr.fn = "die" /\ fr.status = Top.status /\ Top.err \in BOOLEAN
    BY <1>1 DEF Frames, DieFrames
  <2>2. to \in Frames /\ FrameKnows(to, m, Bad) /\ TopOK(to, m, lost)
    BY <2>1, NewFrames, NewKnows
  <2>3. stack' = <<to, fr>> \o Tail(stack) /\ exit' = "no"
    BY <1>3 DEF Call
  <2> HIDE DEF fr, to
  <2>4. FrameKnows(fr, m, Bad)
    BY <1>1, <2>1 DEF FrameKnows
  <2> HIDE DEF DieWaits, DieExits, Running
  <2> QED BY <1>1, <1>2, <2>1, <2>2, <2>3, <2>4, CallStatus
<1>4. CASE DieExits
  <2>1. EndOK'
    <3>1. Bad' = Bad /\ \A g : Done(m, g)' <=> Done(m', g)
      BY <1>2 DEF Bad
    <3>2. exit' = (IF Top.status = 0 THEN "0" ELSE "2") /\ m' = m
      BY <1>4
    <3> QED BY <1>1, <3>1, <3>2 DEF EndOK, FrameKnows
  <2>2. stack' = stack
    BY <1>4
  <2> QED BY <1>1, <1>2, <2>1, <2>2, QuietStatus
<1> QED BY <1>3, <1>4

LEMMA SignalStatus == ASSUME JobsInv, StatusInv, SignalReaps \/ SignalEnds PROVE StatusInv'
<1> USE DEF SignalReaps, SignalEnds, Running
<1>1. /\ Top = stack[1]
      /\ Top.fn = "fatal_error_signal" /\ StackKnows(stack, m, Bad) /\ TopOK(Top, m, lost)
      /\ exit = "no"
  BY StatusKnown
<1>2. UNCHANGED <<m, proc, lost, handling>>
  OBVIOUS
<1>3. CASE SignalReaps
  <2> DEFINE to == ReapCall(TRUE, FALSE)
  <2>1. to \in Frames /\ FrameKnows(to, m, Bad) /\ TopOK(to, m, lost)
    BY NewFrames, NewKnows
  <2>2. stack' = <<to>> \o stack
    BY <1>3 DEF Push
  <2> HIDE DEF to
  <2>3. StackKnows(stack', m, Bad) /\ TopOK(stack'[1], m, lost)
    BY <1>1, <2>1, <2>2, PushKnows
  <2> QED BY <1>1, <1>2, <1>3, <2>3, QuietStatus, NoEnd
<1>4. CASE SignalEnds
  <2>1. EndOK' /\ stack' = stack
    BY <1>4 DEF EndOK
  <2> QED BY <1>1, <1>2, <2>1, QuietStatus
<1> QED BY <1>3, <1>4

\* A failed file is a sign of what went wrong.
LEMMA FailedIsBad ==
  ASSUME StatusInv, NEW f \in Files, m.file[f].update_status # 0
  PROVE  Bad
BY DEF StatusInv, FilesOK, FileOK

LEMMA UpdateQuietStatus ==
  ASSUME JobsInv, StatusInv, UpdateCalls \/ UpdateGoesOn PROVE StatusInv'
<1> USE DEF UpdateCalls, UpdateGoesOn, Running
<1>1. /\ Top.fn = "update_file_1" /\ Top \in UpdateFrames /\ FrameOK(Top, m)
      /\ FrameKnows(Top, m, Bad) /\ TopOK(Top, m, lost) /\ HasFile(Top)
  BY StatusKnown, FrameKinds DEF HasFile
<1>2. UNCHANGED <<m, proc, lost, handling>> /\ exit' = "no"
  OBVIOUS
<1>3. /\ Top.file \in Files /\ Top.d \in Nat /\ Top.d >= 1 /\ Top.dep_status \in Status
      /\ Top.running \in BOOLEAN /\ Len(Deps[Top.file]) \in Nat
      /\ DOMAIN Deps[Top.file] = 1..Len(Deps[Top.file])
      /\ \A i \in DOMAIN Deps[Top.file] : Deps[Top.file][i] \in Files
  BY <1>1, Named DEF UpdateFrames, FrameOK
<1> DEFINE dep == Deps[Top.file][Top.d]
<1>4. CASE UpdateCalls
  <2> DEFINE fr == [Top EXCEPT !.pc = "result"]
             to == UpdateCall(dep)
  <2>1. dep \in Files
    BY <1>3, <1>4
  <2>2. /\ fr \in Frames /\ fr.fn = "update_file_1" /\ fr.file = Top.file /\ fr.pc = "result"
        /\ fr.d = Top.d /\ fr.running = Top.running /\ fr.dep_status = Top.dep_status
    BY <1>1 DEF Frames, UpdateFrames
  <2>3. \/ stack' = <<to, fr>> \o Tail(stack) /\ NotStarted(m, dep)
        \/ stack' = <<fr>> \o Tail(stack) /\ ~NotStarted(m, dep)
    BY <1>4 DEF Call, Goto, Entered, State, NotStarted
  <2>4. NotStarted(m, dep) => to \in Frames /\ to.fn = "update_file_1" /\ to.file = dep
    BY <2>1, NewFrames
  <2>5. FrameKnows(to, m, Bad) /\ TopOK(to, m, lost)
    BY <2>1, NewKnows
  <2>6. dep = Deps[fr.file][fr.d]
    BY <2>2
  <2> HIDE DEF fr, to, dep, UpdateCalls, UpdateGoesOn, Running
  <2>7. FrameKnows(fr, m, Bad) /\ HasFile(fr)
    BY <1>1, <2>2 DEF FrameKnows, HasFile
  <2>8. CASE stack' = <<to, fr>> \o Tail(stack) /\ NotStarted(m, dep)
    <3>1. HasFile(to) /\ to.file = Deps[fr.file][fr.d] /\ to \in Frames
      BY <2>4, <2>6, <2>8 DEF HasFile
    <3> QED BY <1>1, <1>2, <2>2, <2>5, <2>7, <2>8, <3>1, CallStatus
  <2>9. CASE stack' = <<fr>> \o Tail(stack) /\ ~NotStarted(m, dep)
    <3>1. TopOK(fr, m, lost)
      BY <2>2, <2>6, <2>9 DEF TopOK, NotStarted
    <3> QED BY <1>1, <1>2, <2>2, <2>7, <2>9, <3>1, GotoStatus
  <2> QED BY <2>3, <2>8, <2>9
<1>5. CASE UpdateGoesOn
  <2> DEFINE deps == Deps[Top.file]
             status == IF Top.dep_status = 0 THEN Result(dep) ELSE Top.dep_status
             run == Top.running \/ State(dep) \in {"cs_running", "cs_deps_running"}
             d1 == IF status # 0 /\ ~opts.keep_going_flag THEN Len(deps) + 1 ELSE Top.d + 1
             fr == [Top EXCEPT !.pc = "dep", !.dep_status = status, !.running = run, !.d = d1]
  <2>1. Top.d \in DOMAIN Deps[Top.file] /\ dep \in Files
    <3>1. Top.pc = "result"
      BY <1>5
    <3> HIDE DEF UpdateCalls, UpdateGoesOn, Running, fr, d1, run, status
    <3>2. Top.d <= Len(Deps[Top.file])
      BY <1>1, <3>1 DEF FrameOK
    <3>3. Top.d \in DOMAIN Deps[Top.file]
      BY <1>3, <3>2
    <3> QED BY <1>3, <3>3
  <2>2. status \in Status
    BY <1>3, <2>1, StatusKnown, FileFacts DEF Result, Status
  <2>3. run \in BOOLEAN /\ d1 \in Nat
    BY <1>3
  <2>4. stack' = <<fr>> \o Tail(stack)
    BY <1>5 DEF Goto
  <2>5. m.file[dep].command_state # "cs_not_started"
    <3>1. Top.pc = "result"
      BY <1>5
    <3> HIDE DEF UpdateCalls, UpdateGoesOn, Running, fr, d1, run, status
    <3>2. Top.fn = "update_file_1" /\ TopOK(Top, m, lost)
      BY <1>1, Zenon
    <3> QED BY <3>1, <3>2 DEF TopOK
  <2>6. (~run /\ status = 0) => Done(m, dep) /\ ~Top.running /\ Top.dep_status = 0 /\ d1 = Top.d + 1
    <3>1. m.file[dep].command_state \in States
      BY <2>1, StatusKnown, FileFacts
    <3> QED BY <2>5, <3>1 DEF Done, Result, State, States
  <2>7. status # 0 => Bad
    <3>1. Top.dep_status # 0 => Bad
      BY <1>1 DEF FrameKnows
    <3>2. Result(dep) # 0 => Bad
      BY <2>1, FailedIsBad DEF Result
    <3> QED BY <3>1, <3>2
  <2> HIDE DEF status, run, d1
  <2>8. /\ fr \in Frames /\ fr.fn = "update_file_1" /\ fr.file = Top.file
        /\ fr.d = d1 /\ fr.pc = "dep" /\ fr.running = run /\ fr.dep_status = status
    BY <1>1, <2>2, <2>3 DEF Frames, UpdateFrames
  <2> HIDE DEF fr, UpdateCalls, UpdateGoesOn, Running
  <2>9. (~run /\ status = 0) =>
           \A k \in DOMAIN Deps[Top.file] : k < d1 => Done(m, Deps[Top.file][k])
    <3>1. SUFFICES ASSUME ~run, status = 0, NEW k \in DOMAIN Deps[Top.file], k < d1
                   PROVE  Done(m, Deps[Top.file][k])
      OBVIOUS
    <3>2. k < Top.d \/ k = Top.d
      BY <1>3, <2>6, <3>1
    <3>3. k < Top.d => Done(m, Deps[Top.file][k])
      BY <1>1, <2>6, <3>1 DEF FrameKnows
    <3> QED BY <2>6, <3>1, <3>2, <3>3
  <2>10. FrameKnows(fr, m, Bad)
    BY <2>7, <2>8, <2>9 DEF FrameKnows
  <2>11. TopOK(fr, m, lost) /\ HasFile(fr)
    BY <2>8 DEF TopOK, HasFile
  <2> QED BY <1>1, <1>2, <2>4, <2>8, <2>10, <2>11, GotoStatus
<1> QED BY <1>4, <1>5

\* Nothing but the one that is removed leaves a sequence.
LEMMA RemoveAtKeeps ==
  ASSUME NEW S, NEW s \in Seq(S), NEW i \in 1..Len(s), NEW e \in ToSet(s), e # s[i]
  PROVE  e \in ToSet(RemoveAt(s, i))
<1> DEFINE a == SubSeq(s, 1, i - 1)
           b == SubSeq(s, i + 1, Len(s))
           n == Len(s)
<1>0. n \in Nat /\ i \in Nat /\ i >= 1 /\ i <= n
  OBVIOUS
<1>1. a \in Seq(S) /\ Len(a) = i - 1 /\ \A k \in 1..(i - 1) : a[k] = s[k]
  OBVIOUS
<1>2. b \in Seq(S) /\ Len(b) = n - i /\ \A k \in 1..(n - i) : b[k] = s[k + i]
  <2>1. i + 1 \in Int /\ n \in Int /\ \A k \in (i + 1)..n : s[k] \in S
    OBVIOUS
  <2>2. b \in Seq(S) /\ Len(b) = (IF i + 1 <= n THEN n - (i + 1) + 1 ELSE 0)
        /\ \A k \in 1..Len(b) : b[k] = s[(i + 1) + k - 1]
    BY <2>1, SubSeqProperties
  <2>3. Len(b) = n - i
    BY <1>0, <2>2
  <2>4. \A k \in 1..(n - i) : (i + 1) + k - 1 = k + i
    BY <1>0
  <2> QED BY <2>2, <2>3, <2>4
<1>3. PICK j \in 1..n : s[j] = e
  BY DEF ToSet
<1> HIDE DEF a, b, n
<1> DEFINE c == a \o b
<1>4. /\ c \in Seq(S) /\ Len(c) = Len(a) + Len(b)
      /\ \A k \in 1..(Len(a) + Len(b)) : c[k] = IF k <= Len(a) THEN a[k] ELSE b[k - Len(a)]
  BY <1>1, <1>2, ConcatProperties
<1> HIDE DEF c
<1>5. DOMAIN c = 1..(n - 1)
  <2>1. Len(a) + Len(b) = n - 1
    BY <1>0, <1>1, <1>2
  <2>2. DOMAIN c = 1..Len(c)
    BY <1>4
  <2> QED BY <1>4, <2>1, <2>2
<1>6. \E k \in DOMAIN c : c[k] = e
  <2>1. CASE j < i
    <3>1. j \in 1..(i - 1) /\ j \in 1..(n - 1) /\ j \in 1..(Len(a) + Len(b)) /\ j <= Len(a)
      BY <1>0, <1>1, <1>2, <1>3, <2>1
    <3>2. c[j] = a[j] /\ a[j] = s[j]
      BY <1>1, <1>4, <3>1
    <3> QED BY <1>3, <1>5, <3>1, <3>2
  <2>2. CASE j > i
    <3>1. /\ j - i \in 1..(n - i) /\ (j - i) + i = j /\ j - 1 \in 1..(n - 1)
          /\ j - 1 \in 1..(Len(a) + Len(b)) /\ ~(j - 1 <= Len(a)) /\ (j - 1) - Len(a) = j - i
      BY <1>0, <1>1, <1>2, <1>3, <2>2
    <3>2. c[j - 1] = b[j - i] /\ b[j - i] = s[j]
      BY <1>2, <1>4, <3>1
    <3> QED BY <1>3, <1>5, <3>1, <3>2
  <2> QED BY <1>0, <1>3, <2>1, <2>2
<1> QED BY <1>6 DEF RemoveAt, ToSet, a, b, c, n

\* What is known of the goals.
LEMMA GoalsKnow ==
  ASSUME NEW fr, fr.fn = "update_goal_chain", NEW x, NEW b, NEW l
  PROVE  /\ TopOK(fr, x, l)
         /\ FrameKnows(fr, x, b) <=>
              /\ fr.status = 0 => \A g \in ToSet(Goals) : g \in ToSet(fr.goals) \/ Done(x, g)
              /\ fr.status # 0 => b
BY DEF TopOK, FrameKnows

LEMMA GoalsStatus ==
  ASSUME JobsInv, StatusInv,
         GoalsStartWaiting \/ GoalsReap \/ GoalsUpdate \/ GoalsGoOn \/ GoalsEnd
  PROVE  StatusInv'
<1> USE DEF GoalsStartWaiting, GoalsReap, GoalsUpdate, GoalsGoOn, GoalsEnd, Running
<1>1. /\ Top.fn = "update_goal_chain" /\ Top \in GoalsFrames /\ FrameOK(Top, m)
      /\ FrameKnows(Top, m, Bad) /\ ~HasFile(Top)
  BY StatusKnown, FrameKinds DEF HasFile
<1>2. UNCHANGED <<m, proc, lost, handling>> /\ exit' = "no"
  OBVIOUS
<1>3. /\ Top.goals \in Seq(Files) /\ Top.i \in Nat /\ Top.i >= 1 /\ Top.status \in Status
      /\ Top.pc = "result" => Top.i <= Len(Top.goals)
  BY <1>1 DEF GoalsFrames, FrameOK
<1>4. ASSUME NEW pc \in {"start", "reap", "goal", "result"}, NEW i \in Nat, NEW fr,
             fr = [Top EXCEPT !.pc = pc, !.i = i]
      PROVE  fr \in Frames /\ fr.fn = "update_goal_chain" /\ FrameKnows(fr, m, Bad)
             /\ TopOK(fr, m, lost)
  <2>1. /\ fr \in Frames /\ fr.fn = "update_goal_chain" /\ fr.status = Top.status
        /\ fr.goals = Top.goals
    BY <1>1, <1>4 DEF Frames, GoalsFrames
  <2> HIDE DEF GoalsStartWaiting, GoalsReap, GoalsUpdate, GoalsGoOn, GoalsEnd, Running
  <2> QED BY <1>1, <2>1, GoalsKnow
<1>5. ASSUME NEW fr \in Frames, fr.fn = "update_goal_chain", FrameKnows(fr, m, Bad),
             NEW to \in Frames, FrameKnows(to, m, Bad), TopOK(to, m, lost),
             stack' = <<to, fr>> \o Tail(stack)
      PROVE  StatusInv'
  <2> HIDE DEF GoalsStartWaiting, GoalsReap, GoalsUpdate, GoalsGoOn, GoalsEnd, Running
  <2> QED BY <1>1, <1>2, <1>5, CallStatus
<1>6. ASSUME NEW fr \in Frames, FrameKnows(fr, m, Bad), TopOK(fr, m, lost),
             stack' = <<fr>> \o Tail(stack)
      PROVE  StatusInv'
  <2> HIDE DEF GoalsStartWaiting, GoalsReap, GoalsUpdate, GoalsGoOn, GoalsEnd, Running
  <2> QED BY <1>1, <1>2, <1>6, GotoStatus
<1>7. CASE GoalsStartWaiting
  <2> DEFINE fr == [Top EXCEPT !.pc = "reap"]
  <2>1. fr = [Top EXCEPT !.pc = "reap", !.i = Top.i]
    BY <1>1 DEF GoalsFrames
  <2>2. stack' = <<WaitingCall, fr>> \o Tail(stack)
    BY <1>7 DEF Call
  <2> HIDE DEF fr
  <2>3. fr \in Frames /\ fr.fn = "update_goal_chain" /\ FrameKnows(fr, m, Bad)
    BY <1>3, <1>4, <2>1
  <2> QED BY <1>5, <2>2, <2>3, NewFrames, NewKnows
<1>8. CASE GoalsReap
  <2> DEFINE fr == [Top EXCEPT !.pc = "goal", !.i = 1]
             to == ReapCall(TRUE, FALSE)
  <2>1. stack' = <<to, fr>> \o Tail(stack)
    BY <1>8 DEF Call
  <2>2. to \in Frames /\ FrameKnows(to, m, Bad) /\ TopOK(to, m, lost)
    BY NewFrames, NewKnows
  <2>3. fr \in Frames /\ fr.fn = "update_goal_chain" /\ FrameKnows(fr, m, Bad)
    BY <1>4
  <2> HIDE DEF fr, to
  <2> QED BY <1>5, <2>1, <2>2, <2>3
<1>9. CASE GoalsUpdate
  <2>1. CASE Top.i > Len(Top.goals)
    <3> DEFINE fr == [Top EXCEPT !.pc = "start"]
    <3>1. fr = [Top EXCEPT !.pc = "start", !.i = Top.i]
      BY <1>1 DEF GoalsFrames
    <3>2. stack' = <<fr>> \o Tail(stack)
      BY <1>9, <2>1 DEF Goto
    <3> HIDE DEF fr
    <3>3. fr \in Frames /\ FrameKnows(fr, m, Bad) /\ TopOK(fr, m, lost)
      BY <1>3, <1>4, <3>1
    <3> QED BY <1>6, <3>2, <3>3
  <2>2. CASE ~(Top.i > Len(Top.goals))
    <3> DEFINE goal == Top.goals[Top.i]
               fr == [Top EXCEPT !.pc = "result"]
               to == UpdateCall(goal)
    <3>1. fr = [Top EXCEPT !.pc = "result", !.i = Top.i]
      BY <1>1 DEF GoalsFrames
    <3>2. \/ stack' = <<fr>> \o Tail(stack)
          \/ stack' = <<to, fr>> \o Tail(stack) /\ NotStarted(m, goal)
      BY <1>9, <2>2 DEF Goto, Call, Entered, State, NotStarted
    <3>3. goal \in Files
      BY <1>3, <2>2
    <3>4. FrameKnows(to, m, Bad) /\ TopOK(to, m, lost) /\ (NotStarted(m, goal) => to \in Frames)
      BY <3>3, NewFrames, NewKnows
    <3> HIDE DEF fr, goal, to
    <3>5. /\ fr \in Frames /\ fr.fn = "update_goal_chain" /\ FrameKnows(fr, m, Bad)
          /\ TopOK(fr, m, lost)
      BY <1>3, <1>4, <3>1
    <3> QED BY <1>5, <1>6, <3>2, <3>4, <3>5
  <2> QED BY <2>1, <2>2
<1>10. CASE GoalsGoOn
  <2> DEFINE goal == Top.goals[Top.i]
             failed == Top.status = 0 /\ Result(goal) # 0
             stop == failed /\ ~opts.keep_going_flag
             done == State(goal) = "cs_finished"
             status == IF failed THEN Result(goal) ELSE Top.status
             goals == IF done THEN RemoveAt(Top.goals, Top.i) ELSE Top.goals
             i == IF done THEN Top.i ELSE Top.i + 1
             pc == IF stop THEN "start" ELSE "goal"
             fr == [Top EXCEPT !.status = status, !.goals = goals, !.i = i, !.pc = pc]
  <2>1. goal \in Files /\ Top.i \in 1..Len(Top.goals)
    BY <1>3, <1>10
  <2>2. status \in Status
    BY <1>3, <2>1, StatusKnown, FileFacts DEF Result, Status
  <2>3. goals \in Seq(Files)
    BY <1>3, <2>1, RemoveAtType
  <2>4. i \in Nat /\ pc \in {"start", "goal"}
    BY <1>3
  <2>5. stack' = <<fr>> \o Tail(stack)
    BY <1>10 DEF Goto
  <2>6. status # 0 => Bad
    <3>1. Top.status # 0 => Bad
      BY <1>1, GoalsKnow
    <3>2. Result(goal) # 0 => Bad
      BY <2>1, FailedIsBad DEF Result
    <3> QED BY <3>1, <3>2
  <2>7. status = 0 => Top.status = 0 /\ (done => Done(m, goal))
    BY DEF Result, Done, State
  <2>8. \A g \in ToSet(Top.goals) : g \in ToSet(goals) \/ (done /\ g = goal)
    <3>1. \A g \in ToSet(Top.goals) : g # goal => g \in ToSet(RemoveAt(Top.goals, Top.i))
      BY <1>3, <2>1, RemoveAtKeeps
    <3> QED BY <3>1
  <2> HIDE DEF status, goals, i, pc, done, goal
  <2>9. fr \in Frames /\ fr.fn = "update_goal_chain" /\ fr.status = status /\ fr.goals = goals
    BY <1>1, <2>2, <2>3, <2>4 DEF Frames, GoalsFrames
  <2> HIDE DEF fr, GoalsStartWaiting, GoalsReap, GoalsUpdate, GoalsGoOn, GoalsEnd, Running
  <2>10. status = 0 => \A g \in ToSet(Goals) : g \in ToSet(goals) \/ Done(m, g)
    <3>1. Top.status = 0 => \A g \in ToSet(Goals) : g \in ToSet(Top.goals) \/ Done(m, g)
      BY <1>1, GoalsKnow
    <3> QED BY <2>7, <2>8, <3>1
  <2>11. FrameKnows(fr, m, Bad) /\ TopOK(fr, m, lost)
    BY <2>6, <2>9, <2>10, GoalsKnow
  <2> QED BY <1>6, <2>5, <2>9, <2>11
<1>11. CASE GoalsEnd
  <2> DEFINE fr == DieCall(Top.status)
  <2>1. fr \in Frames /\ fr.fn = "die" /\ fr.status = Top.status
    BY <1>3, NewFrames DEF DieCall
  <2>2. stack' = <<fr>> \o Tail(stack)
    BY <1>11 DEF Goto
  <2>3. TopOK(fr, m, lost)
    BY <1>3, NewKnows
  <2>4. ToSet(Top.goals) = {}
    BY <1>11 DEF ToSet
  <2> HIDE DEF fr
  <2>5. FrameKnows(fr, m, Bad)
    BY <1>1, <2>1, <2>4 DEF FrameKnows
  <2> QED BY <1>6, <2>1, <2>2, <2>3, <2>5
<1> QED BY <1>7, <1>8, <1>9, <1>10, <1>11

-----------------------------------------------------------------------------
(* The steps that change a file.                                           *)

\* The parts of the invariant after a step.
LEMMA StatusParts ==
  ASSUME StackKnows(stack', m', Bad'), TopOK(stack'[1], m', lost'), FilesOK', EndOK'
  PROVE  StatusInv'
<1>1. StackKnows(stack, m, Bad)' /\ TopOK(stack[1], m, lost)'
  OBVIOUS
<1> QED BY <1>1 DEF StatusInv

\* The innermost call returns when the data has changed.
LEMMA ReturnLater ==
  ASSUME JobsInv, StatusInv, Later(m, m'), Bad => Bad', Len(stack) > 1, stack' = Tail(stack),
         Top.fn # "die", HasFile(Top) => m'.file[Top.file].command_state # "cs_not_started"
  PROVE  StackKnows(stack', m', Bad') /\ TopOK(stack'[1], m', lost')
<1>1. stack \in Seq(Frames) /\ Top = stack[1] /\ StackKnows(stack, m, Bad)
  BY StatusKnown
<1>2. /\ HasFile(stack[1]) => m'.file[stack[1].file].command_state # "cs_not_started"
      /\ stack[1].fn # "die"
  BY <1>1
<1> DEFINE y == m'
           b == Bad'
           l == lost'
<1>3. Later(m, y) /\ (Bad => b)
      /\ (HasFile(stack[1]) => y.file[stack[1].file].command_state # "cs_not_started")
  BY <1>2
<1> HIDE DEF y, b, l
<1>4. StackKnows(Tail(stack), y, b)
  BY <1>1, <1>2, <1>3, KnowsReturn
<1>5. TopOK(Tail(stack)[1], y, l)
  BY <1>1, <1>2, <1>3, KnowsReturn
<1> QED BY <1>4, <1>5 DEF y, b, l

\* The innermost call goes on as fr when the data has changed.
LEMMA GotoLater ==
  ASSUME JobsInv, StatusInv, Later(m, m'), Bad => Bad', NEW fr \in Frames,
         FrameKnows(fr, m', Bad'), TopOK(fr, m', lost'),
         HasFile(Top) => HasFile(fr) /\ fr.file = Top.file, Top.fn = "die" => fr.fn = "die",
         stack' = <<fr>> \o Tail(stack)
  PROVE  StackKnows(stack', m', Bad') /\ TopOK(stack'[1], m', lost')
<1>1. stack \in Seq(Frames) /\ stack # << >> /\ Top = stack[1] /\ StackKnows(stack, m, Bad)
  BY StatusKnown
<1>2. /\ HasFile(stack[1]) => HasFile(fr) /\ fr.file = stack[1].file
      /\ stack[1].fn = "die" => fr.fn = "die"
  BY <1>1
<1> DEFINE y == m'
           b == Bad'
<1>3. Later(m, y) /\ (Bad => b) /\ FrameKnows(fr, y, b)
  OBVIOUS
<1> HIDE DEF y, b
<1>4. StackKnows(<<fr>> \o Tail(stack), y, b)
  BY <1>1, <1>2, <1>3, KnowsGoto
<1>5. (<<fr>> \o Tail(stack))[1] = fr
  BY <1>1, <1>2, <1>3, KnowsGoto
<1> QED BY <1>4, <1>5 DEF y, b

\* Nothing but the file c has changed.
LEMMA FileChanges ==
  ASSUME JobsInv, StatusInv, NEW c \in Files, Others(m, m', c),
         \/ ~Done(m, c) /\ (NotStarted(m', c) => NotStarted(m, c))
         \/ m' = m,
         \A f \in Files : f # c => proc'[f] = proc[f],
         ToSet(m'.children) \subseteq ToSet(m.children) \cup {c},
         ToSet(m'.waiting_jobs) \subseteq ToSet(m.waiting_jobs) \cup {c},
         lost' \subseteq lost \cup {c}, lost \subseteq lost', handling' = handling,
         Later(m, m') => FileOK(c, m', proc', lost', Bad')
  PROVE  Later(m, m') /\ FilesOK' /\ (Bad => Bad')
<1>1. Later(m, m')
  BY LaterBy DEF Later
<1>2. Bad => Bad'
  BY DEF Bad
<1>3. \A f \in Files : FileOK(f, m, proc, lost, Bad)
  BY DEF StatusInv, FilesOK
<1> DEFINE y == m'
           q == proc'
           k == lost'
           b == Bad'
<1>4. /\ Others(m, y, c) /\ Later(m, y) /\ (Bad => b) /\ (\A f \in Files : f # c => q[f] = proc[f])
      /\ ToSet(y.children) \subseteq ToSet(m.children) \cup {c}
      /\ ToSet(y.waiting_jobs) \subseteq ToSet(m.waiting_jobs) \cup {c}
      /\ k \subseteq lost \cup {c} /\ lost \subseteq k
      /\ FileOK(c, y, q, k, b)
  BY <1>1, <1>2
<1> HIDE DEF y, q, k, b
<1>5. \A f \in Files : FileOK(f, y, q, k, b)
  BY <1>3, <1>4, FilesLater
<1>6. FilesOK'
  BY <1>5 DEF FilesOK, y, q, k, b
<1> QED BY <1>1, <1>2, <1>6

\* What is known of a file.
LEMMA FileKnown ==
  ASSUME JobsInv, StatusInv, NEW c \in Files
  PROVE  /\ FileOK(c, m, proc, lost, Bad)
         /\ c \notin ToSet(m.children) => proc[c] = "none"
         /\ (c \in ToSet(m.children) \/ c \in ToSet(m.waiting_jobs)) => ~NotStarted(m, c) /\ ~Done(m, c)
         /\ c \in ToSet(m.children) => c \notin ToSet(m.waiting_jobs)
<1>1. FileOK(c, m, proc, lost, Bad)
  BY DEF StatusInv, FilesOK
<1>2. proc[c] \in {"none", "run", "won", "lost"}
  BY DEF JobsInv, Types
<1>3. c \notin ToSet(m.children) => proc[c] = "none"
  BY <1>2 DEF JobsInv, ChainOK, Chain, Alive, Live, Zombies
<1>4. /\ (c \in ToSet(m.children) \/ c \in ToSet(m.waiting_jobs)) => ~NotStarted(m, c)
      /\ c \in ToSet(m.children) => c \notin ToSet(m.waiting_jobs)
  BY DEF JobsInv, ChainOK, Chain, Waiting
<1>5. (c \in ToSet(m.children) \/ c \in ToSet(m.waiting_jobs)) => ~Done(m, c)
  BY <1>1 DEF FileOK
<1> QED BY <1>1, <1>3, <1>4, <1>5

\* What was known of the dependencies is true later.
LEMMA DepsLater ==
  ASSUME Later(m, m'), NEW f \in Files, DepsDone(m, f)
  PROVE  DepsDone(m', f)
BY Named DEF DepsDone, Later

LEMMA UpdateEndsStatus == ASSUME JobsInv, StatusInv, UpdateEnds PROVE StatusInv'
<1>1. /\ Top.fn = "update_file_1" /\ Top \in UpdateFrames /\ FrameOK(Top, m) /\ m \in MakeData
      /\ FrameKnows(Top, m, Bad) /\ HasFile(Top) /\ Len(stack) > 1
  BY StatusKnown, FrameKinds DEF HasFile, UpdateEnds, Running
<1> DEFINE c == Top.file
<1>2. c \in Files /\ Top.dep_status \in Status /\ NotStarted(m, c) /\ Top.d \in Nat
      /\ Top.running \in BOOLEAN
  BY <1>1 DEF UpdateFrames, FrameOK, Busy
<1>3. UNCHANGED <<proc, lost, handling>> /\ exit' = "no" /\ Top.d > Len(Deps[c])
  BY DEF UpdateEnds, Running
<1>4. (~Top.running /\ Top.dep_status = 0) => DepsDone(m, c)
  <2>1. \A k \in DOMAIN Deps[c] : k < Top.d
    BY <1>2, <1>3, Named
  <2> QED BY <1>1, <2>1 DEF FrameKnows, DepsDone
<1>5. Top.dep_status # 0 => Bad
  BY <1>1 DEF FrameKnows
<1>6. /\ FileOK(c, m, proc, lost, Bad) /\ proc[c] = "none" /\ c \notin ToSet(m.children)
      /\ c \notin ToSet(m.waiting_jobs) /\ ~Done(m, c) /\ c \notin lost
  <2>1. ~Done(m, c)
    BY <1>2 DEF NotStarted, Done
  <2> QED BY <1>2, <2>1, FileKnown DEF FileOK
<1>7. \/ /\ stack' = Tail(stack) /\ m' = [m EXCEPT !.file[c].command_state = "cs_deps_running"]
      \/ /\ stack' = Tail(stack) /\ m' = Finished(m, c, Top.dep_status) /\ Top.dep_status # 0
      \/ /\ stack' = Tail(stack) /\ m' = Finished(m, c, 0) /\ m.file[c].left = 0 /\ DepsDone(m, c)
      \/ /\ stack' = <<JobCall(c)>> \o Tail(stack) /\ DepsDone(m, c)
         /\ m' = [m EXCEPT !.file[c].command_state = "cs_not_started"]
  BY <1>4 DEF UpdateEnds, Return, Goto, DepsRunning
<1>8. ASSUME NEW st \in States, m' = [m EXCEPT !.file[c].command_state = st]
      PROVE  /\ Others(m, m', c) /\ Lists(m, m') /\ m'.file[c].command_state = st
             /\ m'.file[c].left = m.file[c].left
             /\ m'.file[c].update_status = m.file[c].update_status
  BY <1>1, <1>2, <1>8 DEF MakeData, FileData, Others, Lists
<1>9. ASSUME NEW st \in Status, m' = Finished(m, c, st)
      PROVE  /\ Others(m, m', c) /\ Lists(m, m') /\ m'.file[c].command_state = "cs_finished"
             /\ m'.file[c].left = m.file[c].left /\ m'.file[c].update_status = st
  BY <1>1, <1>2, <1>9 DEF MakeData, FileData, Others, Lists, Finished
<1>10. /\ Others(m, m', c) /\ Lists(m, m')
       /\ \/ /\ stack' = Tail(stack) /\ m'.file[c].command_state = "cs_deps_running"
             /\ m'.file[c].update_status = m.file[c].update_status
          \/ /\ stack' = Tail(stack) /\ m'.file[c].command_state = "cs_finished"
             /\ m'.file[c].update_status # 0 /\ Bad
          \/ /\ stack' = Tail(stack) /\ m'.file[c].command_state = "cs_finished"
             /\ m'.file[c].update_status = 0 /\ m'.file[c].left = 0 /\ DepsDone(m, c)
          \/ /\ stack' = <<JobCall(c)>> \o Tail(stack) /\ DepsDone(m, c)
             /\ m'.file[c].command_state = "cs_not_started"
             /\ m'.file[c].update_status = m.file[c].update_status
  <2>1. "cs_deps_running" \in States /\ "cs_not_started" \in States /\ 0 \in Status
    BY DEF States, Status
  <2> QED BY <1>2, <1>5, <1>7, <1>8, <1>9, <2>1
<1> HIDE DEF c
<1>11. Bad' = Bad
  BY <1>3 DEF Bad
<1>12. Later(m, m') /\ FilesOK' /\ (Bad => Bad')
  <2>1. ASSUME Later(m, m') PROVE FileOK(c, m', proc', lost', Bad')
    <3>1. DepsDone(m, c) => DepsDone(m', c)
      BY <1>2, <2>1, DepsLater
    <3>2. m.file[c].update_status # 0 => Bad
      BY <1>6 DEF FileOK
    <3> QED BY <1>3, <1>6, <1>10, <1>11, <3>1, <3>2 DEF FileOK, Lists, Done, NotStarted
  <2> QED BY <1>2, <1>3, <1>6, <1>10, <2>1, FileChanges DEF Lists
<1>13. StackKnows(stack', m', Bad') /\ TopOK(stack'[1], m', lost')
  <2>1. CASE stack' = Tail(stack) /\ m'.file[c].command_state # "cs_not_started"
    BY <1>1, <1>12, <2>1, ReturnLater DEF c
  <2>2. CASE stack' = <<JobCall(c)>> \o Tail(stack) /\ DepsDone(m, c)
    <3> DEFINE fr == JobCall(c)
    <3>1. fr \in Frames /\ HasFile(fr) /\ fr.file = c
      BY <1>2 DEF JobCall, Frames, JobFrames, HasFile
    <3>2. FrameKnows(fr, m', Bad') /\ TopOK(fr, m', lost')
      BY <1>2, <1>12, <2>2, DepsLater, NewKnows
    <3>3. stack' = <<fr>> \o Tail(stack) /\ fr.file = Top.file
      BY <2>2, <3>1 DEF c
    <3> HIDE DEF fr
    <3> QED BY <1>1, <1>12, <3>1, <3>2, <3>3, GotoLater
  <2> QED BY <1>10, <2>1, <2>2
<1> QED BY <1>3, <1>12, <1>13, StatusParts, NoEnd

\* start_waiting_job has dealt with the file f, which is neither on the chain nor, in x, waiting.
LEMMA StartStatus ==
  ASSUME JobsInv, StatusInv, NEW x \in MakeData, NEW f \in Files, NEW o \in start_waiting_job(x, f),
         x.file = m.file, x.children = m.children, ToSet(x.waiting_jobs) \subseteq ToSet(m.waiting_jobs),
         f \notin ToSet(m.children), f \notin ToSet(x.waiting_jobs),
         DepsDone(m, f), f \notin lost, ~Done(m, f), m' = o.m, Fork(o, f), handling' = handling
  PROVE  Later(m, m') /\ FilesOK' /\ (Bad => Bad') /\ ~NotStarted(m', f)
<1>1. WaitingStartedOK(x, f, o)
  BY WaitingFacts
<1>2. Others(m, m', f)
  BY <1>1 DEF WaitingStartedOK, Others
<1>3. ~NotStarted(m', f)
  BY <1>1 DEF WaitingStartedOK, NotStarted
<1>4. /\ FileOK(f, m, proc, lost, Bad) /\ proc[f] = "none"
      /\ proc \in [Files -> {"none", "run", "won", "lost"}]
  BY FileKnown DEF JobsInv, Types
<1>5. /\ proc' = [proc EXCEPT ![f] = IF o.vfork = "done" THEN "run" ELSE @]
      /\ lost' = IF o.vfork = "failed" THEN lost \cup {f} ELSE lost
  BY DEF Fork
<1>6. (\A g \in Files : g # f => proc'[g] = proc[g])
      /\ proc'[f] = IF o.vfork = "done" THEN "run" ELSE "none"
  BY <1>4, <1>5
<1>7. /\ ToSet(x.children) = ToSet(m.children)
      /\ ToSet(<<f>> \o x.children) = {f} \cup ToSet(m.children)
      /\ ToSet(<<f>> \o x.waiting_jobs) = {f} \cup ToSet(x.waiting_jobs)
  <2>1. x.children \in Seq(Files) /\ x.waiting_jobs \in Seq(Files)
    BY FileFacts
  <2> QED BY <2>1, ConsList
<1>8. /\ ToSet(m'.children) = (IF o.vfork = "done" THEN {f} \cup ToSet(m.children)
                                                   ELSE ToSet(m.children))
      /\ ToSet(m'.waiting_jobs) = (IF o.started THEN ToSet(x.waiting_jobs)
                                                ELSE {f} \cup ToSet(x.waiting_jobs))
      /\ ~o.started => o.vfork = "none"
  BY <1>1, <1>7 DEF WaitingStartedOK, Lists
<1>9. lost' # {} => Bad'
  BY DEF Bad
<1>10. Bad => Bad'
  BY <1>5 DEF Bad
<1>11. \/ /\ ~o.started /\ o.vfork = "none" /\ m'.file[f].command_state = "cs_running"
          /\ m'.file[f].update_status = m.file[f].update_status
       \/ /\ o.started /\ o.vfork = "none" /\ m'.file[f].left = 0
          /\ m'.file[f].command_state = "cs_finished" /\ m'.file[f].update_status = 0
       \/ /\ o.started /\ o.vfork = "done" /\ m'.file[f].command_state = "cs_running"
          /\ m'.file[f].update_status = m.file[f].update_status
       \/ /\ o.started /\ o.vfork = "failed" /\ m'.file[f].command_state = "cs_finished"
          /\ m'.file[f].update_status = 2
  BY <1>1 DEF WaitingStartedOK
<1>12. ASSUME Later(m, m') PROVE FileOK(f, m', proc', lost', Bad')
  <2>1. DepsDone(m', f)
    BY <1>12, DepsLater
  <2>2. m'.file[f].update_status # 0 => Bad'
    <3>1. m.file[f].update_status # 0 => Bad
      BY <1>4 DEF FileOK
    <3>2. o.vfork = "failed" => Bad'
      BY <1>5, <1>9
    <3> QED BY <1>10, <1>11, <3>1, <3>2
  <2>3. (proc'[f] # "none" \/ f \in ToSet(m'.waiting_jobs)) => m'.file[f].command_state = "cs_running"
    BY <1>6, <1>8, <1>11
  <2>4. Done(m', f) => m'.file[f].left = 0 /\ f \notin lost' /\ f \notin ToSet(m'.children)
                       /\ f \notin ToSet(m'.waiting_jobs)
    BY <1>5, <1>8, <1>11 DEF Done
  <2>5. /\ proc'[f] \in {"run", "won"} => f \notin lost'
        /\ proc'[f] # "lost"
        /\ f \in ToSet(m'.waiting_jobs) => f \notin lost'
    BY <1>5, <1>6, <1>8, <1>11
  <2> QED BY <1>3, <2>1, <2>2, <2>3, <2>4, <2>5 DEF FileOK
<1>13. lost' \subseteq lost \cup {f} /\ lost \subseteq lost'
  BY <1>5
<1>14. /\ ToSet(m'.children) \subseteq ToSet(m.children) \cup {f}
       /\ ToSet(m'.waiting_jobs) \subseteq ToSet(m.waiting_jobs) \cup {f}
  BY <1>8
<1>15. Later(m, m') /\ FilesOK' /\ (Bad => Bad')
  BY <1>2, <1>3, <1>6, <1>12, <1>13, <1>14, FileChanges
<1> QED BY <1>3, <1>15

LEMMA WaitingTakesStatus == ASSUME JobsInv, StatusInv, WaitingTakes PROVE StatusInv'
<1>1. /\ Top.fn = "start_waiting_jobs" /\ Top.pc = "take" /\ Top \in WaitingFrames /\ FrameOK(Top, m)
      /\ m \in MakeData /\ ~HasFile(Top) /\ Len(stack) > 1
  BY StatusKnown, FrameKinds DEF HasFile, WaitingTakes, Running
<1> DEFINE f == Head(m.waiting_jobs)
           w == Tail(m.waiting_jobs)
           x == [m EXCEPT !.waiting_jobs = w]
<1>2. m.waiting_jobs \in Seq(Files) /\ m.waiting_jobs # << >>
  BY <1>1 DEF MakeData, FrameOK
<1>3. f \in Files /\ w \in Seq(Files) /\ f \in ToSet(m.waiting_jobs)
  BY <1>2 DEF ToSet
<1>4. ToSet(w) = ToSet(m.waiting_jobs) \ {f}
  BY <1>2, TailList DEF JobsInv, ChainOK
<1>5. PICK o \in start_waiting_job(x, f) :
        /\ m' = o.m /\ Fork(o, f)
        /\ stack' = <<[Top EXCEPT !.pc = "reap"]>> \o Tail(stack) \/ stack' = Tail(stack)
  BY DEF WaitingTakes, Goto, Return
<1>6. UNCHANGED handling /\ exit' = "no"
  BY DEF WaitingTakes, Running
<1> HIDE DEF f, w
<1>7. x \in MakeData /\ x.file = m.file /\ x.children = m.children /\ x.waiting_jobs = w
  BY <1>1, <1>3 DEF MakeData
<1> HIDE DEF x
<1>8. f \notin ToSet(m.children) /\ ~Done(m, f) /\ f \notin lost /\ DepsDone(m, f)
  BY <1>3, FileKnown DEF FileOK
<1>9. Later(m, m') /\ FilesOK' /\ (Bad => Bad')
  BY <1>3, <1>4, <1>5, <1>6, <1>7, <1>8, StartStatus
<1>10. StackKnows(stack', m', Bad') /\ TopOK(stack'[1], m', lost')
  <2>1. CASE stack' = Tail(stack)
    BY <1>1, <1>9, <2>1, ReturnLater
  <2>2. CASE stack' = <<[Top EXCEPT !.pc = "reap"]>> \o Tail(stack)
    <3> DEFINE fr == [Top EXCEPT !.pc = "reap"]
    <3>1. fr \in Frames /\ fr.fn = "start_waiting_jobs"
      BY <1>1 DEF Frames, WaitingFrames
    <3>2. stack' = <<fr>> \o Tail(stack)
      BY <2>2
    <3> HIDE DEF fr
    <3>3. FrameKnows(fr, m', Bad') /\ TopOK(fr, m', lost')
      BY <3>1 DEF FrameKnows, TopOK
    <3> QED BY <1>1, <1>9, <3>1, <3>2, <3>3, GotoLater
  <2> QED BY <1>5, <2>1, <2>2
<1> QED BY <1>6, <1>9, <1>10, StatusParts, NoEnd

LEMMA JobStartsStatus == ASSUME JobsInv, StatusInv, JobStarts PROVE StatusInv'
<1>1. /\ Top.fn = "new_job" /\ Top.pc = "slot" /\ Top \in JobFrames /\ FrameOK(Top, m)
      /\ m \in MakeData /\ HasFile(Top) /\ Len(stack) > 1 /\ FrameKnows(Top, m, Bad)
  BY StatusKnown, FrameKinds DEF HasFile, JobStarts, Running
<1> DEFINE f == Top.file
<1>2. f \in Files /\ NotStarted(m, f) /\ DepsDone(m, f)
  BY <1>1 DEF FrameOK, Busy, JobFrames, FrameKnows
<1>3. /\ f \notin ToSet(m.children) /\ f \notin ToSet(m.waiting_jobs) /\ f \notin lost
      /\ ~Done(m, f)
  <2>1. ~Done(m, f)
    BY <1>2 DEF NotStarted, Done
  <2> QED BY <1>2, <2>1, FileKnown DEF FileOK
<1>4. PICK o \in start_waiting_job(m, f) : m' = o.m /\ Fork(o, f)
  BY DEF JobStarts
<1>5. /\ stack' = <<[Top EXCEPT !.pc = "linear"]>> \o Tail(stack) \/ stack' = Tail(stack)
      /\ UNCHANGED handling /\ exit' = "no"
  BY DEF JobStarts, Goto, Return, Running
<1> HIDE DEF f
<1>6. Later(m, m') /\ FilesOK' /\ (Bad => Bad') /\ ~NotStarted(m', f)
  BY <1>1, <1>2, <1>3, <1>4, <1>5, StartStatus
<1>7. StackKnows(stack', m', Bad') /\ TopOK(stack'[1], m', lost')
  <2>1. CASE stack' = Tail(stack)
    <3>1. m'.file[Top.file].command_state # "cs_not_started"
      BY <1>6 DEF NotStarted, f
    <3> QED BY <1>1, <1>6, <2>1, <3>1, ReturnLater
  <2>2. CASE stack' = <<[Top EXCEPT !.pc = "linear"]>> \o Tail(stack)
    <3> DEFINE fr == [Top EXCEPT !.pc = "linear"]
    <3>1. fr \in Frames /\ fr.fn = "new_job" /\ fr.file = Top.file /\ fr.pc = "linear"
      BY <1>1 DEF Frames, JobFrames
    <3>2. stack' = <<fr>> \o Tail(stack)
      BY <2>2
    <3> HIDE DEF fr
    <3>3. FrameKnows(fr, m', Bad') /\ TopOK(fr, m', lost') /\ HasFile(fr)
      BY <1>6, <3>1 DEF FrameKnows, TopOK, HasFile, f
    <3> QED BY <1>1, <1>6, <3>1, <3>2, <3>3, GotoLater
  <2> QED BY <1>5, <2>1, <2>2
<1> QED BY <1>5, <1>6, <1>7, StatusParts, NoEnd

LEMMA ReapGetsStatus == ASSUME JobsInv, StatusInv, ReapGets PROVE StatusInv'
<1>1. /\ Top.fn = "reap_children" /\ Top \in ReapFrames /\ ~HasFile(Top) /\ m \in MakeData
  BY StatusKnown, FrameKinds DEF HasFile, ReapGets, Running
<1>2. PICK f \in Zombies :
        /\ proc' = [proc EXCEPT ![f] = "none"]
        /\ Goto([Top EXCEPT !.pc = "process", !.pid = f, !.failed = proc[f] = "lost"])
  BY DEF ReapGets
<1>3. UNCHANGED <<m, lost, handling>> /\ exit' = "no"
  BY DEF ReapGets, Running
<1> DEFINE b == proc[f] = "lost"
           fr == [Top EXCEPT !.pc = "process", !.pid = f, !.failed = b]
<1>4. f \in Files /\ proc[f] \in {"won", "lost"} /\ b \in BOOLEAN
  BY <1>2 DEF Zombies
<1>5. stack' = <<fr>> \o Tail(stack)
  BY <1>2 DEF Goto
<1>6. /\ m.file[f].command_state = "cs_running"
      /\ f \in lost <=> (b /\ f \notin NoError)
  BY <1>4, FileKnown DEF FileOK
<1> HIDE DEF b
<1>7. fr \in Frames /\ fr.fn = "reap_children" /\ fr.pc = "process" /\ fr.pid = f /\ fr.failed = b
  BY <1>1, <1>4 DEF Frames, ReapFrames
<1> HIDE DEF fr
<1>8. FrameKnows(fr, m', Bad') /\ TopOK(fr, m', lost')
  BY <1>3, <1>6, <1>7 DEF FrameKnows, TopOK
<1>9. Later(m, m') /\ FilesOK' /\ (Bad => Bad')
  <2>1. proc \in [Files -> {"none", "run", "won", "lost"}]
    BY DEF JobsInv, Types
  <2>2. (\A g \in Files : g # f => proc'[g] = proc[g]) /\ proc'[f] = "none"
    BY <1>2, <1>4, <2>1
  <2>3. Bad' = Bad
    BY <1>3 DEF Bad
  <2>4. FileOK(f, m', proc', lost', Bad')
    BY <1>3, <1>4, <2>2, <2>3, FileKnown DEF FileOK
  <2>5. Others(m, m', f)
    BY <1>3 DEF Others
  <2> QED BY <1>3, <1>4, <2>2, <2>4, <2>5, FileChanges
<1>10. StackKnows(stack', m', Bad') /\ TopOK(stack'[1], m', lost')
  BY <1>1, <1>5, <1>7, <1>8, <1>9, GotoLater
<1> QED BY <1>3, <1>9, <1>10, StatusParts, NoEnd

LEMMA ReapProcessesStatus == ASSUME JobsInv, StatusInv, ReapProcesses PROVE StatusInv'
<1>1. /\ Top.fn = "reap_children" /\ Top.pc = "process" /\ Top \in ReapFrames /\ ~HasFile(Top)
      /\ m \in MakeData /\ FrameOK(Top, m) /\ TopOK(Top, m, lost) /\ Holds(Top)
  BY StatusKnown, FrameKinds DEF HasFile, ReapProcesses, Running, Holds
<1> DEFINE c == Top.pid
<1>2. c \in Files /\ Top.failed \in BOOLEAN /\ c \in ToSet(m.children) /\ proc[c] = "none"
  <2>1. c \in Files /\ Top.failed \in BOOLEAN
    BY <1>1 DEF FrameOK, ReapFrames
  <2>2. c \in Chain \ Alive
    BY <1>1 DEF Hand, JobsInv, ChainOK, Top
  <2>3. proc[c] \in {"none", "run", "won", "lost"}
    BY <2>1 DEF JobsInv, Types
  <2> QED BY <2>1, <2>2, <2>3 DEF Chain, Alive, Live, Zombies
<1>3. /\ m.file[c].command_state = "cs_running" /\ (c \in lost <=> (Top.failed /\ c \notin NoError))
  BY <1>1 DEF TopOK
<1>4. PICK o \in Process(c, Top.failed) :
        /\ m' = o.m /\ Fork(o, c)
        /\ stack' = <<[Top EXCEPT !.pc = o.pc, !.failed = o.failed]>> \o Tail(stack)
  BY DEF ReapProcesses, Goto
<1>5. handling' = handling /\ exit' = "no"
  BY DEF ReapProcesses, Running
<1>6. ProcessedOK(c, Top.failed, o)
  BY <1>1, <1>2, ProcessFacts
<1> DEFINE fr == [Top EXCEPT !.pc = o.pc, !.failed = o.failed]
<1>7. /\ Others(m, m', c) /\ Lists(m, m') /\ o.failed \in BOOLEAN /\ o.pc \in {"test", "remove"}
      /\ o.failed <=> c \in lost
      /\ \/ /\ o.vfork = "none" /\ o.pc = "remove" /\ m'.file[c].command_state = "cs_running"
            /\ m'.file[c].update_status = 2 => o.failed \/ handling
            /\ m'.file[c].update_status = 0 => m'.file[c].left = 0 /\ ~o.failed
            /\ m'.file[c].update_status \in {0, 2}
         \/ /\ o.vfork = "done" /\ o.pc = "test" /\ ~o.failed
            /\ m'.file[c].command_state = "cs_running"
            /\ m'.file[c].update_status = m.file[c].update_status
         \/ /\ o.vfork = "failed" /\ o.pc = "remove" /\ ~o.failed
            /\ m'.file[c].command_state = "cs_finished" /\ m'.file[c].update_status = 2
  BY <1>3, <1>4, <1>6 DEF ProcessedOK
<1>8. /\ fr \in Frames /\ fr.fn = "reap_children" /\ fr.pc = o.pc /\ fr.pid = c
      /\ fr.failed = o.failed
  BY <1>1, <1>7 DEF Frames, ReapFrames
<1>9. stack' = <<fr>> \o Tail(stack)
  BY <1>4
<1> HIDE DEF fr, c
<1>10. /\ proc' = [proc EXCEPT ![c] = IF o.vfork = "done" THEN "run" ELSE @]
       /\ lost' = IF o.vfork = "failed" THEN lost \cup {c} ELSE lost
  BY <1>4 DEF Fork
<1>11. (\A g \in Files : g # c => proc'[g] = proc[g])
       /\ proc'[c] = IF o.vfork = "done" THEN "run" ELSE "none"
  <2>1. proc \in [Files -> {"none", "run", "won", "lost"}]
    BY DEF JobsInv, Types
  <2> QED BY <1>2, <1>10, <2>1
<1>12. FrameKnows(fr, m', Bad') /\ TopOK(fr, m', lost')
  <2>1. FrameKnows(fr, m', Bad')
    BY <1>8 DEF FrameKnows
  <2>2. o.pc = "remove" =>
           /\ c \in lost' => m'.file[c].update_status = 2
           /\ m'.file[c].update_status = 0 => m'.file[c].left = 0
           /\ o.failed => lost' # {}
    BY <1>7, <1>10
  <2>3. o.pc \notin {"decrement", "wait", "process"}
    BY <1>7
  <2> QED BY <1>8, <2>1, <2>2, <2>3 DEF TopOK
<1>13. ~Done(m, c) /\ ~NotStarted(m', c) /\ c \notin ToSet(m.waiting_jobs) /\ DepsDone(m, c)
       /\ FileOK(c, m, proc, lost, Bad)
  BY <1>2, <1>7, FileKnown DEF NotStarted, FileOK
<1>14. (lost' # {} => Bad') /\ (Bad => Bad') /\ (handling => Bad')
  BY <1>5, <1>10 DEF Bad
<1>15. ASSUME Later(m, m') PROVE FileOK(c, m', proc', lost', Bad')
  <2>1. DepsDone(m', c)
    BY <1>2, <1>13, <1>15, DepsLater
  <2>2. m'.file[c].update_status # 0 => Bad'
    <3>1. m.file[c].update_status # 0 => Bad
      BY <1>13 DEF FileOK
    <3>2. o.vfork = "failed" \/ o.failed => Bad'
      BY <1>7, <1>10, <1>14
    <3> QED BY <1>7, <1>14, <3>1, <3>2
  <2>3. proc'[c] # "none" => m'.file[c].command_state = "cs_running"
    BY <1>7, <1>11
  <2>4. ~Done(m', c) \/ o.vfork = "done"
    BY <1>7 DEF Done
  <2>5. ~Done(m', c)
    BY <1>7, <2>4 DEF Done
  <2>6. (proc'[c] \in {"run", "won"} => c \notin lost') /\ proc'[c] # "lost"
    BY <1>7, <1>10, <1>11
  <2>7. c \notin ToSet(m'.waiting_jobs)
    BY <1>7, <1>13 DEF Lists
  <2> QED BY <1>13, <2>1, <2>2, <2>3, <2>5, <2>6, <2>7 DEF FileOK
<1>16. Later(m, m') /\ FilesOK' /\ (Bad => Bad')
  <2>1. /\ ToSet(m'.children) \subseteq ToSet(m.children) \cup {c}
        /\ ToSet(m'.waiting_jobs) \subseteq ToSet(m.waiting_jobs) \cup {c}
    BY <1>7 DEF Lists
  <2>2. lost' \subseteq lost \cup {c} /\ lost \subseteq lost'
    BY <1>10
  <2> QED BY <1>2, <1>5, <1>7, <1>11, <1>13, <1>15, <2>1, <2>2, FileChanges
<1>17. StackKnows(stack', m', Bad') /\ TopOK(stack'[1], m', lost')
  BY <1>1, <1>8, <1>9, <1>12, <1>16, GotoLater
<1> QED BY <1>5, <1>16, <1>17, StatusParts, NoEnd

LEMMA ReapRemovesStatus == ASSUME JobsInv, StatusInv, ReapRemoves PROVE StatusInv'
<1>1. /\ Top.fn = "reap_children" /\ Top.pc = "remove" /\ Top \in ReapFrames /\ ~HasFile(Top)
      /\ m \in MakeData /\ FrameOK(Top, m) /\ TopOK(Top, m, lost) /\ Holds(Top)
      /\ stack \in Seq(Frames) /\ stack # << >> /\ Top = stack[1] /\ StackKnows(stack, m, Bad)
      /\ exit = "no"
  BY StatusKnown, FrameKinds DEF HasFile, ReapRemoves, Running, Holds
<1> DEFINE c == Top.pid
           fr == [Top EXCEPT !.pc = "test", !.block = FALSE, !.pid = "none", !.failed = FALSE]
           to == DieCall(2)
<1>2. c \in Files /\ c \in Chain \ Alive
  BY <1>1 DEF FrameOK, Hand, JobsInv, ChainOK, Top
<1>3. c \in ToSet(m.children) /\ proc[c] = "none"
  <2>1. proc[c] \in {"none", "run", "won", "lost"}
    BY <1>2 DEF JobsInv, Types
  <2> QED BY <1>2, <2>1 DEF Chain, Alive, Live, Zombies
<1>4. /\ m' = Removed(c)
      /\ \/ /\ stack' = <<to, fr>> \o Tail(stack) /\ Top.failed /\ exit' \in {"2", "no"}
         \/ stack' = <<fr>> \o Tail(stack) /\ exit' = "no"
      /\ UNCHANGED <<proc, lost, handling>>
  BY <1>1 DEF ReapRemoves, Call, Goto, FailureIsFatal
<1>5. /\ Others(m, m', c) /\ m'.waiting_jobs = m.waiting_jobs /\ ToSet(m'.children) = Chain \ {c}
      /\ m'.file[c].update_status = m.file[c].update_status
      /\ m'.file[c].left = m.file[c].left
      /\ m'.file[c].command_state = (IF handling THEN m.file[c].command_state ELSE "cs_finished")
  <2>1. IsInjective(m.children) /\ m.job_slots_used = Len(m.children)
    BY DEF JobsInv, ChainOK
  <2> QED BY <1>1, <1>2, <1>4, <2>1, RemovedFacts
<1>6. /\ c \in lost => m.file[c].update_status = 2
      /\ m.file[c].update_status = 0 => m.file[c].left = 0
      /\ Top.failed => lost # {}
  BY <1>1 DEF TopOK
<1>7. fr \in Frames /\ fr.fn = "reap_children" /\ fr.pc = "test" /\ ~HasFile(fr)
  BY <1>1 DEF Frames, ReapFrames, HasFile
<1> HIDE DEF c, fr
<1>8. Bad' = Bad
  BY <1>4 DEF Bad
<1>9. ~Done(m, c) /\ ~NotStarted(m, c) /\ c \notin ToSet(m.waiting_jobs) /\ DepsDone(m, c)
      /\ FileOK(c, m, proc, lost, Bad)
  BY <1>2, <1>3, FileKnown DEF FileOK
<1>10. ~NotStarted(m', c)
  BY <1>5, <1>9 DEF NotStarted
<1>11. ASSUME Later(m, m') PROVE FileOK(c, m', proc', lost', Bad')
  <2>1. DepsDone(m', c)
    BY <1>2, <1>9, <1>11, DepsLater
  <2>2. m'.file[c].update_status # 0 => Bad'
    BY <1>5, <1>8, <1>9 DEF FileOK
  <2>3. Done(m', c) => m'.file[c].left = 0 /\ c \notin lost'
    BY <1>4, <1>5, <1>6, <1>9 DEF Done
  <2>4. c \notin ToSet(m'.waiting_jobs) /\ c \notin ToSet(m'.children) /\ proc'[c] = "none"
    BY <1>3, <1>4, <1>5, <1>9
  <2> QED BY <1>10, <2>1, <2>2, <2>3, <2>4 DEF FileOK
<1>12. Later(m, m') /\ FilesOK' /\ (Bad => Bad')
  <2>1. /\ ToSet(m'.children) \subseteq ToSet(m.children) \cup {c}
        /\ ToSet(m'.waiting_jobs) \subseteq ToSet(m.waiting_jobs) \cup {c}
    BY <1>5 DEF Chain
  <2>2. lost' \subseteq lost \cup {c} /\ lost \subseteq lost'
    BY <1>4
  <2>3. \A g \in Files : g # c => proc'[g] = proc[g]
    BY <1>4
  <2> QED BY <1>2, <1>4, <1>5, <1>9, <1>10, <1>11, <2>1, <2>2, <2>3, FileChanges
<1>13. FrameKnows(fr, m', Bad') /\ TopOK(fr, m', lost')
  BY <1>7 DEF FrameKnows, TopOK
<1>14. CASE stack' = <<fr>> \o Tail(stack) /\ exit' = "no"
  <2>1. StackKnows(stack', m', Bad') /\ TopOK(stack'[1], m', lost')
    BY <1>1, <1>7, <1>12, <1>13, <1>14, GotoLater
  <2> QED BY <1>12, <1>14, <2>1, StatusParts, NoEnd
<1>15. CASE stack' = <<to, fr>> \o Tail(stack) /\ Top.failed /\ exit' \in {"2", "no"}
  <2>1. Bad
    BY <1>6, <1>15 DEF Bad
  <2> DEFINE y == m'
             b == Bad'
  <2>2. Later(m, y) /\ (Bad => b) /\ FrameKnows(fr, y, b) /\ b
    BY <1>8, <1>12, <1>13, <2>1
  <2>3. to \in Frames /\ to.fn = "die" /\ TopOK(to, y, lost')
    BY NewFrames, NewKnows DEF Status
  <2> HIDE DEF y, b
  <2>4. FrameKnows(to, y, b)
    BY <2>2, NewKnows
  <2> HIDE DEF to
  <2>5. /\ ~HasFile(stack[1]) /\ stack[1].fn # "die" /\ fr.fn # "update_file_1"
    BY <1>1, <1>7
  <2>6. StackKnows(<<to, fr>> \o Tail(stack), y, b)
    BY <1>1, <1>7, <2>2, <2>3, <2>4, <2>5, KnowsCall
  <2>7. (<<to, fr>> \o Tail(stack))[1] = to
    BY <1>1, <1>7, <2>2, <2>3, <2>4, <2>5, KnowsCall
  <2>8. StackKnows(stack', m', Bad') /\ TopOK(stack'[1], m', lost')
    BY <1>15, <2>3, <2>6, <2>7 DEF y, b
  <2>9. EndOK'
    BY <1>15, <2>2 DEF EndOK, b
  <2> QED BY <1>12, <2>8, <2>9, StatusParts
<1> QED BY <1>4, <1>14, <1>15

LEMMA ExitsStatus == ASSUME JobsInv, StatusInv, NEW f \in Files, Exits(f) PROVE StatusInv'
<1>1. /\ stack \in Seq(Frames) /\ stack # << >> /\ Top = stack[1] /\ StackKnows(stack, m, Bad)
      /\ TopOK(Top, m, lost) /\ Top \in Frames
  BY StatusKnown
<1>2. UNCHANGED <<m, handling>> /\ exit' = "no" /\ proc[f] = "run"
  BY DEF Exits
<1>3. /\ proc \in [Files -> {"none", "run", "won", "lost"}]
      /\ \/ proc' = [proc EXCEPT ![f] = "won"] /\ lost' = lost
         \/ proc' = [proc EXCEPT ![f] = "lost"] /\ lost' = lost \cup ({f} \ NoError)
  BY DEF Exits, JobsInv, Types
<1>4. /\ FileOK(f, m, proc, lost, Bad) /\ m.file[f].command_state = "cs_running" /\ f \notin lost
      /\ f \notin ToSet(m.waiting_jobs)
  <2>1. FileOK(f, m, proc, lost, Bad)
    BY FileKnown
  <2>2. f \in ToSet(m.children)
    BY <1>2, FileKnown
  <2> QED BY <1>2, <2>1, <2>2, FileKnown DEF FileOK
<1>5. (\A g \in Files : g # f => proc'[g] = proc[g]) /\ proc'[f] \in {"won", "lost"}
      /\ lost' \subseteq lost \cup {f} /\ lost \subseteq lost'
      /\ (proc'[f] = "won" => f \notin lost')
      /\ (proc'[f] = "lost" => (f \in lost' <=> f \notin NoError))
  BY <1>3, <1>4
<1>6. Bad => Bad'
  BY <1>2, <1>5 DEF Bad
<1>7. Later(m, m') /\ FilesOK'
  <2>1. Others(m, m', f)
    BY <1>2 DEF Others
  <2>2. FileOK(f, m', proc', lost', Bad')
    <3>1. (Done(m', f) <=> Done(m, f)) /\ (DepsDone(m', f) <=> DepsDone(m, f))
          /\ (NotStarted(m', f) <=> NotStarted(m, f)) /\ m'.file = m.file
          /\ m'.waiting_jobs = m.waiting_jobs /\ m'.children = m.children
      BY <1>2
    <3>2. ~Done(m, f) /\ ~NotStarted(m, f)
      BY <1>4 DEF Done, NotStarted
    <3>3. m.file[f].update_status # 0 => Bad'
      BY <1>4, <1>6 DEF FileOK
    <3>4. f \in ToSet(m.children) => DepsDone(m, f)
      BY <1>4 DEF FileOK
    <3> QED BY <1>4, <1>5, <3>1, <3>2, <3>3, <3>4 DEF FileOK
  <2> QED BY <1>2, <1>5, <2>1, <2>2, FileChanges
<1>8. TopOK(Top, m', lost')
  <2>1. CASE Holds(Top)
    <3>1. Top.pid # f
      <4>1. Top.pid \notin Alive /\ f \in Alive
        BY <1>2, <2>1 DEF Hand, JobsInv, ChainOK, Top, Alive, Live
      <4> QED BY <4>1
    <3>2. (Top.pid \in lost' <=> Top.pid \in lost) /\ (lost # {} => lost' # {})
      BY <1>5, <3>1
    <3> QED BY <1>1, <1>2, <3>2 DEF TopOK
  <2>2. CASE ~Holds(Top)
    BY <1>1, <1>2, <2>2 DEF TopOK, Holds
  <2> QED BY <2>1, <2>2
<1>9. StackKnows(stack', m', Bad') /\ TopOK(stack'[1], m', lost')
  <2>1. CASE stack' = stack
    <3> DEFINE y == m'
               b == Bad'
    <3>1. Later(m, y) /\ (Bad => b) /\ \A i \in DOMAIN stack : stack[i] \in Frames
      BY <1>1, <1>6, <1>7
    <3> HIDE DEF y, b
    <3>2. \A i \in DOMAIN stack : FrameKnows(stack[i], y, b)
      BY <1>1, <3>1, KnowsLater DEF StackKnows
    <3>3. StackKnows(stack, y, b)
      BY <1>1, <3>2 DEF StackKnows
    <3> QED BY <1>1, <1>8, <2>1, <3>3 DEF y, b
  <2>2. CASE Top.fn = "reap_children" /\ Goto([Top EXCEPT !.pc = "test"])
    <3> DEFINE fr == [Top EXCEPT !.pc = "test"]
    <3>1. Top \in ReapFrames
      BY <1>1, <2>2, FrameKinds
    <3>2. fr \in Frames /\ fr.fn = "reap_children" /\ fr.pc = "test" /\ ~HasFile(Top)
      BY <2>2, <3>1 DEF Frames, ReapFrames, HasFile
    <3>3. stack' = <<fr>> \o Tail(stack)
      BY <2>2 DEF Goto
    <3> HIDE DEF fr
    <3>4. FrameKnows(fr, m', Bad') /\ TopOK(fr, m', lost')
      BY <3>2 DEF FrameKnows, TopOK
    <3> QED BY <1>6, <1>7, <2>2, <3>2, <3>3, <3>4, GotoLater
  <2> QED BY <2>1, <2>2 DEF Exits, child_handler
<1> QED BY <1>2, <1>7, <1>9, StatusParts, NoEnd

LEMMA FatalStatus == ASSUME JobsInv, StatusInv, fatal_error_signal PROVE StatusInv'
<1>1. UNCHANGED <<m, proc, lost, exit>> /\ exit = "no" /\ stack' = <<SignalCall>> /\ handling'
  BY DEF fatal_error_signal
<1>2. Bad'
  BY <1>1 DEF Bad
<1>3. FilesOK'
  BY <1>1, <1>2 DEF StatusInv, FilesOK, FileOK
<1>4. StackKnows(stack', m', Bad') /\ TopOK(stack'[1], m', lost')
  <2> DEFINE fr == SignalCall
  <2>1. FrameKnows(fr, m', Bad') /\ TopOK(fr, m', lost')
    BY NewKnows
  <2>2. stack' = <<fr>>
    BY <1>1
  <2> HIDE DEF fr
  <2>3. DOMAIN stack' = {1} /\ stack'[1] = fr
    BY <2>2
  <2> QED BY <2>1, <2>3 DEF StackKnows, Linked
<1> QED BY <1>1, <1>3, <1>4, StatusParts, NoEnd

-----------------------------------------------------------------------------
(* The invariant, and what follows from it.                                *)

LEMMA StatusInit == ASSUME Init PROVE StatusInv
<1>1. \A f \in Files : /\ m.file[f].command_state = "cs_not_started"
                       /\ m.file[f].update_status = 0 /\ proc[f] = "none"
  BY DEF Init
<1>2. m.children = << >> /\ m.waiting_jobs = << >> /\ lost = {} /\ exit = "no" /\ stack = <<GoalsCall>>
  BY DEF Init
<1>3. ToSet(m.children) = {} /\ ToSet(m.waiting_jobs) = {}
  BY <1>2 DEF ToSet
<1>4. FilesOK
  BY <1>1, <1>2, <1>3 DEF FilesOK, FileOK, Done, NotStarted
<1>5. StackKnows(stack, m, Bad) /\ TopOK(stack[1], m, lost)
  <2> DEFINE fr == GoalsCall
  <2>1. fr.fn = "update_goal_chain" /\ fr.status = 0 /\ fr.goals = Goals
    BY DEF GoalsCall
  <2>2. DOMAIN stack = {1} /\ stack[1] = fr
    BY <1>2
  <2> HIDE DEF fr
  <2>3. FrameKnows(fr, m, Bad) /\ TopOK(fr, m, lost)
    BY <2>1, GoalsKnow
  <2> QED BY <2>2, <2>3 DEF StackKnows, Linked
<1> QED BY <1>2, <1>4, <1>5 DEF StatusInv, EndOK

\* Every step of make, of a process or of a signal preserves the invariant.
LEMMA StatusNext == ASSUME JobsInv, StatusInv, [Next]_vars PROVE StatusInv'
<1>1. CASE Make
  BY <1>1, WaitingReapsStatus, WaitingTakesStatus, JobQuietStatus, JobStartsStatus,
     ReapQuietStatus, ReapGetsStatus, ReapProcessesStatus, ReapRemovesStatus, DieStatus,
     SignalStatus, UpdateQuietStatus, UpdateEndsStatus, GoalsStatus
     DEF Make
<1>2. CASE \E f \in Files : Exits(f)
  BY <1>2, ExitsStatus
<1>3. CASE fatal_error_signal
  BY <1>3, FatalStatus
<1>4. CASE UNCHANGED vars
  <2>1. UNCHANGED <<m, proc, stack, handling, exit, lost>>
    BY <1>4 DEF vars
  <2>2. StackKnows(stack', m, Bad) /\ TopOK(stack'[1], m, lost)
    BY <2>1, StatusKnown
  <2>3. EndOK'
    BY <2>1 DEF StatusInv, EndOK, Bad
  <2> QED BY <2>1, <2>2, <2>3, QuietStatus
<1> QED BY <1>1, <1>2, <1>3, <1>4 DEF Next, Ended

LEMMA StatusAlways == Spec => [](JobsInv /\ StatusInv)
<1>1. Init => StatusInv
  BY StatusInit
<1>2. JobsInv /\ StatusInv /\ [Next]_vars => StatusInv'
  BY StatusNext
<1> QED BY <1>1, <1>2, JobsAlways, PTL DEF Spec

\* When all the goals are done, so is everything they need: a file that is not done and is
\* least deep would be needed by one that is done.
LEMMA GoalsAreAll ==
  ASSUME \A f \in Files : FileOK(f, m, proc, lost, Bad), \A g \in ToSet(Goals) : Done(m, g)
  PROVE  \A f \in Files : Done(m, f)
<1> DEFINE T == {Depth[f] : f \in {g \in Files : ~Done(m, g)}}
<1>1. SUFFICES ASSUME NEW h \in Files, ~Done(m, h) PROVE FALSE
  OBVIOUS
<1>2. T \subseteq Nat /\ T # {}
  BY <1>1, DepthFacts
<1>3. PICK n \in T : \A y \in T : n <= y
  BY <1>2, LeastNat
<1>4. PICK f \in Files : ~Done(m, f) /\ n = Depth[f]
  BY <1>3
<1>5. PICK g \in Files : f \in ToSet(Deps[g])
  BY <1>4, MakeJobsAssumption
<1>6. PICK i \in DOMAIN Deps[g] : Deps[g][i] = f
  BY <1>5 DEF ToSet
<1>7. Depth[g] < Depth[f] /\ Depth[g] \in Nat /\ Depth[f] \in Nat
  BY <1>6, DepthFacts
<1>8. ~Done(m, g)
  BY <1>4, <1>6 DEF FileOK, DepsDone
<1>9. Depth[g] \in T
  BY <1>8
<1> HIDE DEF T
<1> QED BY <1>3, <1>4, <1>7, <1>9

\* A file that is done was made.
LEMMA DoneIsMade == ASSUME JobsInv, StatusInv, NEW f \in Files, Done(m, f) PROVE Made(f)
<1>1. /\ m.file[f].left = 0 /\ f \notin lost /\ f \notin ToSet(m.children)
      /\ f \notin ToSet(m.waiting_jobs)
  BY FileKnown DEF FileOK
<1>2. proc[f] = "none"
  BY <1>1, FileKnown
<1> QED BY <1>1, <1>2 DEF Made, Live, Zombies

LEMMA InvMadeRight == ASSUME JobsInv, StatusInv PROVE MadeRight
<1>1. DepsMadeFirst
  <2>1. SUFFICES ASSUME NEW f \in Live \cup Zombies, NEW i \in DOMAIN Deps[f]
                 PROVE  Made(Deps[f][i])
    BY DEF DepsMadeFirst
  <2>2. f \in Files /\ f \in ToSet(m.children)
    BY FileKnown DEF Live, Zombies
  <2>3. Done(m, Deps[f][i]) /\ Deps[f][i] \in Files
    BY <2>2, FileKnown, Named DEF FileOK, DepsDone
  <2> QED BY <2>3, DoneIsMade
<1>2. exit = "0" => \A f \in Files : Made(f)
  <2>1. exit = "0" => \A f \in Files : Done(m, f)
    BY GoalsAreAll DEF StatusInv, EndOK, FilesOK
  <2> QED BY <2>1, DoneIsMade
<1>3. exit = "2" => lost # {} \/ handling
  BY DEF StatusInv, EndOK, Bad
<1> QED BY <1>1, <1>2, <1>3 DEF MadeRight, StatusRight

\* Whatever the dependencies and options, however the processes end and whenever fatal signals
\* come: a command runs only when everything its target depends on was made; make exits with 0
\* only if all targets were made, and with 2 only if a command was lost or a signal came
\* (update_file_1, notice_finished_file, update_goal_chain, reap_children, die).
THEOREM MadeInOrder == Spec => []MadeRight
<1>1. JobsInv /\ StatusInv => MadeRight
  BY InvMadeRight
<1> QED BY <1>1, StatusAlways, PTL
=============================================================================
