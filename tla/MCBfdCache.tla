----------------------------- MODULE MCBfdCache -----------------------------
(* Instances of BfdCache for TLC: BFDs by name, in each of the ways to open *)
(* one, and a member "e" of the archive "a", if there is one.               *)
EXTENDS BfdCache

CONSTANTS Reads, Writes, Fds, HasArchive

MCBFDs == Reads \cup Writes \cup Fds \cup (IF HasArchive THEN {"a"} ELSE {})
MCDirection ==
  [b \in MCBFDs |-> IF b \in Writes THEN "write" ELSE IF b \in Fds THEN "fd" ELSE "read"]
MCElements == IF HasArchive THEN {"e"} ELSE {}
MCArchive == [e \in MCElements |-> "a"]
MCOffsets == [e \in MCElements |-> 1]

\* When the system's calls may fail, at most two files of each behaviour are open at a time.
Explored == world = "failing" => Cardinality({b \in BFDs : bfd[b].live}) <= 2
=============================================================================
