------------------------------ MODULE Timeline ------------------------------
(***************************************************************************)
(* What a simulator expects of its event queue: an agenda of events, each  *)
(* with the time it is due.  Time passes an event only after the event     *)
(* was carried out or cancelled, and of the events that are due the        *)
(* earliest goes first.  This is the abstract specification that           *)
(* sim/common/sim-events.c has to implement.                               *)
(***************************************************************************)
EXTENDS Integers

CONSTANT Event   \* what identifies an event

VARIABLES
  now,      \* simulated time
  agenda,   \* the events to come: a set of [ev, time] records
  firing,   \* the event whose handler runs, or none
  lax       \* is the processor allowed to slip past an event?  It never changes.

vars == <<now, agenda, firing, lax>>

None == [ev |-> 0, time |-> 0]

Init ==
  /\ now = 0
  /\ agenda \subseteq [ev : Event, time : {0}]
  /\ firing = None
  /\ lax \in BOOLEAN

\* Events are added, never in the past, and events are cancelled.
Edit ==
  /\ \A x \in agenda' \ agenda : x.ev \in Event /\ x.time >= now
  /\ firing' \in {firing, None}
  /\ UNCHANGED <<now, lax>>

\* The earliest event leaves the agenda and its handler is called.
Fire ==
  /\ \E x \in agenda :
       /\ \A y \in agenda : x.time <= y.time
       /\ agenda' = agenda \ {x}
       /\ firing' = x
  /\ UNCHANGED <<now, lax>>

\* Time goes on, over nothing that is still to be done.
Advance ==
  /\ now' > now
  /\ lax \/ \A x \in agenda : x.time >= now'
  /\ UNCHANGED agenda
  /\ firing' = None
  /\ UNCHANGED lax

Next == Edit \/ Fire \/ Advance

Spec == Init /\ [][Next]_vars

=============================================================================
