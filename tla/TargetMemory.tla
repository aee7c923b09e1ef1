---------------------------- MODULE TargetMemory ----------------------------
(***************************************************************************)
(* What GDB expects of a remote target's memory, whatever sits between it  *)
(* and the target: a byte that is read is the byte last written there, by  *)
(* GDB or by the target itself while it runs.  This is the abstract        *)
(* specification that the data cache of gdb/dcache.c has to implement.     *)
(***************************************************************************)

CONSTANTS
  Line,     \* line addresses, in units of a cache line
  Offset,   \* byte offsets inside a line
  Byte      \* values of one byte

VARIABLES
  amem,     \* the memory as GDB should see it
  io        \* the last byte handed to or taken from GDB's caller, and has the target run since

vars == <<amem, io>>

Memory == [Line -> [Offset -> Byte]]

Addr == Line \X Offset

Init ==
  /\ amem \in Memory
  /\ \E a \in Addr, v \in Byte : io = [ev |-> "none", at |-> a, val |-> v]

\* GDB reads one byte.
Read(a) ==
  /\ io' = [ev |-> "read", at |-> a, val |-> amem[a[1]][a[2]]]
  /\ UNCHANGED amem

\* GDB writes one byte.
Write(a, v) ==
  /\ amem' = [amem EXCEPT ![a[1]][a[2]] = v]
  /\ io' = [ev |-> "write", at |-> a, val |-> v]

\* The target runs, or GDB connects to another one.  Memory changes in no other way.
Run ==
  /\ amem' \in Memory
  /\ io' = [io EXCEPT !.ev = "run"]

Next ==
  \/ \E a \in Addr : Read(a)
  \/ \E a \in Addr, v \in Byte : Write(a, v)
  \/ Run

Spec == Init /\ [][Next]_vars

=============================================================================
