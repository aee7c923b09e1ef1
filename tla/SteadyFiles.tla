----------------------------- MODULE SteadyFiles -----------------------------
(***************************************************************************)
(* What the users of BFD are promised: they may open as many BFDs as they  *)
(* want, and each reads and writes at its own place in its own file, as if *)
(* no file were ever closed behind their back.  A member of an archive     *)
(* shares the file, and so the place in it, with its archive.  This is the *)
(* abstract specification that the cache of bfd/cache.c has to implement.  *)
(***************************************************************************)
EXTENDS Integers

CONSTANTS
  BFDs,      \* BFDs with a file of their own
  Elements,  \* BFDs that are members of an archive
  Home,      \* the BFD whose file is read for a BFD
  Origin,    \* where a BFD starts in that file
  Size       \* places in a file

VARIABLES
  live,      \* the BFDs that exist
  place,     \* the place in the file of each BFD that has one
  written,   \* the places that were written
  io         \* the last thing that was done: with which BFD, and at which place

vars == <<live, place, written, io>>

Event(op, x, at) == [op |-> op, bfd |-> x, at |-> at]

Init ==
  /\ live = {} /\ place = [b \in BFDs |-> 0] /\ written = [b \in BFDs |-> {}]
  /\ io = Event("none", "NULL", 0)

Open(x) ==
  /\ x \notin live /\ live' = live \cup {x} /\ io' = Event("open", x, 0)
  /\ IF x \in BFDs THEN place' = [place EXCEPT ![x] = 0] ELSE UNCHANGED place
  /\ \/ UNCHANGED written
     \/ x \in BFDs /\ written' = [written EXCEPT ![x] = {}]

Read(x) ==
  /\ x \in live /\ io' = Event("read", x, place[Home[x]])
  /\ place' = [place EXCEPT ![Home[x]] = IF @ < Size THEN @ + 1 ELSE @]
  /\ UNCHANGED <<live, written>>

Write(x) ==
  /\ x \in live /\ io' = Event("write", x, place[Home[x]])
  /\ place' = [place EXCEPT ![Home[x]] = @ + 1]
  /\ written' = [written EXCEPT ![Home[x]] = @ \cup {place[Home[x]]}]
  /\ UNCHANGED live

\* To place p, counted from the origin of x: before it, when the archive of x stood there.
Seek(x, p) ==
  /\ x \in live /\ io' = Event("seek", x, p)
  /\ place' = [place EXCEPT ![Home[x]] = Origin[x] + p]
  /\ UNCHANGED <<live, written>>

Tell(x) ==
  /\ x \in live /\ io' = Event("tell", x, place[Home[x]] - Origin[x])
  /\ UNCHANGED <<live, place, written>>

Close(x) ==
  /\ x \in live /\ live' = live \ {x} /\ io' = Event("close", x, 0)
  /\ IF x \in BFDs THEN place' = [place EXCEPT ![x] = 0] ELSE UNCHANGED place
  /\ UNCHANGED written

Next ==
  \E x \in BFDs \cup Elements :
    Open(x) \/ Read(x) \/ Write(x) \/ (\E p \in -Size..Size : Seek(x, p)) \/ Tell(x) \/ Close(x)

Spec == Init /\ [][Next]_vars
=============================================================================
