----------------------------- MODULE MCMakeJobs -----------------------------
(* An instance of MakeJobs for TLC: "t" depends on "a" and "b", and "c" is a *)
(* second goal that depends on nothing.  "d", if it is there, is a third.    *)
EXTENDS MakeJobs

CONSTANTS More, Slots, KeepGoing, Loads, ForkFailures

MCFiles == {"t", "a", "b", "c"} \cup (IF More THEN {"d"} ELSE {})
MCDeps == [f \in MCFiles |-> IF f = "t" THEN <<"a", "b">> ELSE <<>>]
MCGoals == <<"t", "c">> \o (IF More THEN <<"d">> ELSE <<>>)
MCLines == [f \in MCFiles |-> IF f = "c" THEN {0, 1} ELSE IF f = "a" THEN {2} ELSE {1}]
MCOptions ==
  [job_slots : Slots, keep_going_flag : KeepGoing, load : Loads, forks : ForkFailures]
=============================================================================
