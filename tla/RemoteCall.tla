----------------------------- MODULE RemoteCall -----------------------------
(***************************************************************************)
(* What GDB's remote target code expects of the packet layer: a command is *)
(* sent, the target carries it out once, and the reply to it comes back    *)
(* before the next command is sent.                                        *)
(***************************************************************************)
EXTENDS Naturals

CONSTANT NCmds

VARIABLES
  busy,   \* a command is under way
  cmd,    \* the command
  runs,   \* how often the target has carried it out
  got     \* the command that the last reply was for; 0 for none

vars == <<busy, cmd, runs, got>>

Init == busy = FALSE /\ cmd = NCmds /\ runs = 0 /\ got = 0

\* GDB sends the next command.
Call ==
  /\ ~busy
  /\ busy' = TRUE /\ cmd' = (cmd % NCmds) + 1 /\ runs' = 0 /\ got' = 0

\* The target carries it out.
Execute ==
  /\ busy /\ runs = 0
  /\ runs' = 1
  /\ UNCHANGED <<busy, cmd, got>>

\* GDB has the reply.
Return ==
  /\ busy /\ runs = 1
  /\ busy' = FALSE /\ got' = cmd
  /\ UNCHANGED <<cmd, runs>>

Next == Call \/ Execute \/ Return

\* A command that was sent is carried out and answered.
Spec == Init /\ [][Next]_vars /\ WF_vars(Execute) /\ WF_vars(Return)

=============================================================================
