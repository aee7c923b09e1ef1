------------------------------ MODULE SimEvents ------------------------------
(***************************************************************************)
(* The event queue of the simulators (sim/common/sim-events.c) with the    *)
(* main loop that drives it (sim-resume.c, sim-engine.c, sim-run.c) and    *)
(* its clients: watchpoints (sim-watch.c), timers of hardware models       *)
(* (hw-events.c), single stepping (sim-resume.c) and ^C (sim-stop.c).      *)
(*                                                                         *)
(* sim_events_process runs step by step, because a handler may schedule,   *)
(* deschedule or halt the simulator with a longjmp while the loops of      *)
(* sim_events_process are under way, and because a signal may arrive       *)
(* between any two steps.  Events are C structures that are recycled       *)
(* through a free list, and their addresses are the handles clients keep.  *)
(***************************************************************************)
EXTENDS Integers, Sequences, SequencesExt, FiniteSets

CONSTANTS
  Points,       \* watchpoints the user may set
  Timers,       \* entries of the hardware models' event lists
  PointTypes,   \* which of "pc", "clock", "cycles" are used
  PeriodicPC,   \* may a "pc" watchpoint be periodic?
  StaleCalls,   \* may events be made while engine.stepper points to an old one?
  Deltas,       \* delays that devices ask for
  Args,         \* cycle counts of watchpoints
  TickSizes,    \* arguments of sim_events_tickn
  SlipStyles,   \* may instructions call sim_events_slip?  A subset of BOOLEAN
  POLL_RATE,    \* SIM_EVENTS_POLL_RATE
  MAX_NR_SIGNAL_SIM_EVENTS,
  MaxSignals,   \* bound on the signals that arrive
  MaxCalls,     \* bound on the client's calls
  MaxTime       \* bound on simulated time

ASSUME SimAssumption ==
  /\ POLL_RATE \in Nat \ {0} /\ TickSizes \subseteq Nat \ {0} /\ Deltas \subseteq Nat /\ Args \subseteq Nat \ {0}
  /\ MAX_NR_SIGNAL_SIM_EVENTS \in Nat /\ MaxTime \in Nat
  /\ MaxSignals \in Nat /\ MaxCalls \in Nat
  /\ PointTypes \subseteq {"pc", "clock", "cycles"}
  /\ SlipStyles \subseteq BOOLEAN /\ {PeriodicPC, StaleCalls} \subseteq BOOLEAN
  /\ Points \cap Timers = {} /\ {"poll", "step", "stop", "none"} \cap (Points \cup Timers) = {}

VARIABLES
  events,   \* STATE_EVENTS (sd); also how many structures were ever allocated
  engine,   \* STATE_ENGINE (sd): the stepper, and who halted
  pc,       \* where the main loop is
  run,      \* event_time of sim_events_process and the handler being called
  points,   \* the watchpoints: the event of each, NULL where there is none
  hw,       \* events_of_hw: the event behind each entry, NULL where there is none
  world,    \* what watchpoints look at: does the PC match, which clocks ran out
  aborted,  \* what ended the simulator: "assert", "overflow", or "no"
  style,    \* of this processor: does it slip, and its most ticks per instruction
  seen      \* history: instructions of this step, is it one, watchpoints handled in
            \* this round (and was one handled again), calls and signals so far

vars == <<events, engine, pc, run, points, hw, world, aborted, style, seen>>

NULL == 0
NoEvent == [ev |-> NULL, time |-> 0]
Idle == [time |-> 0, place |-> "none", what |-> "none", at |-> NoEvent]
NoPoint == [ev |-> NULL, type |-> "pc", periodic |-> FALSE, arg0 |-> 0]

-----------------------------------------------------------------------------
(* The operations of sim-events.c on the events structure.                 *)

sim_events_time(e) == e.time_of_event - e.time_from_event

\* Mutant of update_time_from_event: only the time of the event is set.
UpdateTimeHalf(e) ==
  IF e.queue = <<>> THEN e ELSE [e EXCEPT !.time_of_event = Head(e.queue).time]

\* The clock is kept as a distance from the first event of the queue.
update_time_from_event(e) ==
  LET now == sim_events_time(e)
      due == IF e.queue = <<>> THEN now - 1 ELSE Head(e.queue).time
  IN [e EXCEPT !.time_of_event = due, !.time_from_event = due - now]

\* A structure from the free list, or a new one.
zalloc_id(e) == IF e.free_list = <<>> THEN e.structs + 1 ELSE Head(e.free_list)
sim_events_zalloc(e) ==
  IF e.free_list = <<>> THEN [e EXCEPT !.structs = @ + 1]
                        ELSE [e EXCEPT !.free_list = Tail(@)]

sim_events_free(e, id) == [e EXCEPT !.free_list = <<id>> \o @]

\* Mutant of insert_sim_event: an event goes in front of those of the same time
\* or earlier (the comparison the wrong way round).
InsertWrongWay(e, id, what, delta) ==
  LET x == [ev |-> id, what |-> what, time |-> sim_events_time(e) + delta]
      k == SelectInSeq(e.queue, LAMBDA q : x.time >= q.time)
  IN update_time_from_event([e EXCEPT !.queue = IF k = 0 THEN Append(@, x)
                                                        ELSE InsertAt(@, k, x)])

\* The queue is ordered by time, first come first served.
insert_sim_event(e, id, what, delta) ==
  LET x == [ev |-> id, what |-> what, time |-> sim_events_time(e) + delta]
      k == SelectInSeq(e.queue, LAMBDA q : x.time < q.time)
  IN update_time_from_event([e EXCEPT !.queue = IF k = 0 THEN Append(@, x)
                                                        ELSE InsertAt(@, k, x)])

sim_events_schedule(e, delta, what) ==
  insert_sim_event(sim_events_zalloc(e), zalloc_id(e), what, delta)

\* sim_events_watch_sim and sim_events_watch_clock.
sim_events_watch(e, what) ==
  [sim_events_zalloc(e) EXCEPT !.watchpoints = <<[ev |-> zalloc_id(e), what |-> what]>> \o @,
                               !.work_pending = TRUE]

Ids(list) == {list[i].ev : i \in DOMAIN list}
Without(list, id) == RemoveFirstMatch(list, LAMBDA x : x.ev = id)

\* Is id in one of the lists that next_event_queue goes through?
Queued(e, id) == id \in Ids(e.queue) \cup Ids(e.watchpoints) \cup Ids(e.watchedpoints)

\* Mutant of sim_events_deschedule: the watched list is not searched.
DescheduleTwoLists(e, id) ==
  IF id \notin Ids(e.queue) \cup Ids(e.watchpoints) THEN e
  ELSE update_time_from_event(
         sim_events_free([e EXCEPT !.queue = Without(@, id),
                                   !.watchpoints = Without(@, id)], id))

sim_events_deschedule(e, id) ==
  IF ~ Queued(e, id) THEN e
  ELSE update_time_from_event(
         sim_events_free([e EXCEPT !.queue = Without(@, id),
                                   !.watchpoints = Without(@, id),
                                   !.watchedpoints = Without(@, id)], id))

\* The SIM_ASSERT of sim_events_deschedule.
DescheduleAsserts(e, id) ==
  Queued(e, id) => LET n == sim_events_deschedule(e, id)
                   IN (n.time_from_event >= 0) = (n.queue # <<>>)

\* schedule_watchpoint: a cycle count is a timer, the others are watched.
schedule_watchpoint(e, p, point) ==
  IF point.type = "cycles" THEN sim_events_schedule(e, point.arg0, p)
                           ELSE sim_events_watch(e, p)

\* sim_watch_valid: the PC is in the range, or the wallclock has run out.
sim_watch_valid(p) == IF points[p].type = "pc" THEN world.pc_in ELSE p \in world.out

-----------------------------------------------------------------------------
\* sim_events_init and sim_engine_init: one poll event, due at time 0, and the
\* queue is processed before the first instruction.
Init ==
  /\ events = sim_events_schedule(
                [nr_ticks_to_process |-> 1, queue |-> <<>>, watchpoints |-> <<>>,
                 watchedpoints |-> <<>>, free_list |-> <<>>, held |-> <<>>,
                 work_pending |-> FALSE, time_of_event |-> 0, time_from_event |-> 0,
                 structs |-> 0], 0, "poll")
  /\ engine = [stepper |-> NULL, last |-> "events"]
  /\ pc = "halted"
  /\ run = Idle
  /\ points = [p \in Points |-> NoPoint]
  /\ hw = [h \in Timers |-> NULL]
  /\ world = [pc_in |-> FALSE, out |-> {}]
  /\ aborted = "no"
  /\ style \in [slip : SlipStyles, n : TickSizes] /\ (style.slip => style.n = 1)
  /\ seen = [insns |-> 0, step |-> FALSE, watched |-> {}, again |-> FALSE, calls |-> 0, signals |-> 0]

-----------------------------------------------------------------------------
(* The main loop: sim_resume, sim_engine_run and sim_engine_halt.          *)

NoHandler == [run EXCEPT !.place = "none", !.what = "none", !.at = NoEvent]

\* sim_engine_halt: a longjmp to sim_resume, from a processor or from a handler.
sim_engine_halt(who) ==
  /\ engine' = [engine EXCEPT !.last = who]
  /\ pc' = "halted"
  /\ run' = Idle

\* sim_resume: an old stepper is descheduled, and a new one scheduled to step.
Resume(step) ==
  LET e == sim_events_deschedule(events, engine.stepper) IN
  /\ pc = "halted"
  /\ events' = IF step THEN sim_events_schedule(e, 1, "step") ELSE e
  /\ engine' = [engine EXCEPT !.stepper = IF step THEN zalloc_id(e) ELSE NULL]
  /\ aborted' = IF DescheduleAsserts(events, engine.stepper) THEN "no" ELSE "assert"
  /\ seen' = [seen EXCEPT !.insns = 0, !.step = step]
  /\ pc' = "preprocess"
  /\ UNCHANGED <<run, points, hw, world, style>>

\* The bound on simulated time: it is lifted for a simulator that is about to stop.
Room ==
  \/ sim_events_time(events) < MaxTime
  \/ events.held # <<>>
  \/ \E i \in DOMAIN events.queue : events.queue[i].what = "stop"

\* sim_events_tick and sim_events_tickn: time advances here only if there is
\* nothing to process on the way.
Tick(due, n) ==
  IF events.work_pending \/ due
    THEN /\ events' = [events EXCEPT !.nr_ticks_to_process = @ + n]
         /\ pc' = "process"
    ELSE /\ events' = [events EXCEPT !.time_from_event = @ - n]
         /\ pc' = "cpu"
sim_events_tick == Tick(events.time_from_event = 0, 1)

\* Mutant of sim_events_tickn: off by one.
TicknTooFar(n) == Tick(events.time_from_event < n - 1, n)

sim_events_tickn(n) == Tick(events.time_from_event < n, n)

\* Mutant of sim_events_preprocess: a tick even when events were last.
PreprocessTicks ==
  /\ pc = "preprocess"
  /\ Room
  /\ sim_events_tick
  /\ UNCHANGED <<engine, run, points, hw, world, aborted, style, seen>>

\* sim_events_preprocess: event processing goes on where it was halted, or the tick
\* that is due after the processor that halted.
sim_events_preprocess ==
  /\ pc = "preprocess"
  /\ IF engine.last = "events"
       THEN /\ pc' = "process"
            /\ aborted' = IF events.nr_ticks_to_process # 0 THEN "no" ELSE "assert"
            /\ UNCHANGED events
       ELSE /\ Room
            /\ sim_events_tick
            /\ UNCHANGED aborted
  /\ UNCHANGED <<engine, run, points, hw, world, style, seen>>

\* Only a "pc" watchpoint looks at the PC.
PcWatched(pts) == \E p \in Points : pts[p].ev # NULL /\ pts[p].type = "pc"

\* One instruction and the tick after it.  Meanwhile the PC moves and the wallclock
\* runs.
Insn ==
  /\ pc = "cpu"
  /\ Room
  /\ \/ style.n = 1 /\ sim_events_tick
     \/ style.n > 1 /\ \E n \in 1..style.n : sim_events_tickn(n)
  /\ \E in \in BOOLEAN, late \in SUBSET {p \in Points : points[p].type = "clock"} :
       world' = [pc_in |-> in /\ PcWatched(points), out |-> world.out \cup late]
  /\ seen' = [seen EXCEPT !.insns = IF seen.step THEN @ + 1 ELSE @]
  /\ UNCHANGED <<engine, run, points, hw, aborted, style>>

\* sim_events_slip in an instruction: time passes, and what it passes is left to the
\* next tick.
sim_events_slip ==
  /\ pc = "cpu" /\ style.slip
  /\ sim_events_time(events) < MaxTime
  /\ events' = [events EXCEPT !.time_from_event = @ - 1,
                              !.work_pending = @ \/ events.time_from_event < 1]
  /\ UNCHANGED <<engine, pc, run, points, hw, world, aborted, style, seen>>

\* An instruction halts the simulator.
CpuHalt ==
  /\ pc = "cpu"
  /\ sim_engine_halt("cpu")
  /\ UNCHANGED <<events, points, hw, world, aborted, style, seen>>

-----------------------------------------------------------------------------
(* sim_events_process.                                                     *)

\* work_pending is cleared before the held events are looked at.
Process ==
  /\ pc = "process"
  /\ events' = [events EXCEPT !.work_pending = FALSE]
  /\ run' = [run EXCEPT !.time = sim_events_time(events)]
  /\ pc' = "held"
  /\ UNCHANGED <<engine, points, hw, world, aborted, style, seen>>

\* Mutant of MoveHeld: the loop stops one event short.
MoveHeldShort ==
  /\ pc \in {"held", "moving"}
  /\ IF Len(events.held) < 2 THEN events' = [events EXCEPT !.held = <<>>] /\ pc' = "watch"
     ELSE /\ events' = [sim_events_schedule(events, Head(events.held), "stop") EXCEPT !.held = Tail(@)]
          /\ pc' = "moving"
  /\ UNCHANGED <<engine, run, points, hw, world, aborted, style, seen>>

\* Events from signal handlers move to the queue.  Signals are blocked once the loop is
\* entered.
MoveHeld ==
  /\ pc \in {"held", "moving"}
  /\ IF events.held = <<>> THEN pc' = "watch" /\ UNCHANGED events
     ELSE /\ events' = [sim_events_schedule(events, Head(events.held), "stop") EXCEPT !.held = Tail(@)]
          /\ pc' = "moving"
  /\ UNCHANGED <<engine, run, points, hw, world, aborted, style, seen>>

\* One watchpoint is taken from the list: its handler is called if it is valid,
\* otherwise it waits on the watched list for the next round.
WatchNext ==
  /\ pc = "watch" /\ events.watchpoints # <<>>
  /\ LET x == Head(events.watchpoints)
         e == [events EXCEPT !.watchpoints = Tail(@)]
     IN IF sim_watch_valid(x.what)
          THEN /\ events' = sim_events_free(e, x.ev)
               /\ run' = [run EXCEPT !.place = "watch", !.what = x.what]
               /\ seen' = [seen EXCEPT !.again = @ \/ x.what \in seen.watched,
                                       !.watched = @ \cup {x.what}]
               /\ pc' = "handler"
          ELSE /\ events' = [e EXCEPT !.watchedpoints = <<x>> \o @]
               /\ UNCHANGED <<run, seen, pc>>
  /\ UNCHANGED <<engine, points, hw, world, aborted, style>>

\* Mutant of WatchDone: work_pending is cleared here, after the held events were moved.
WatchDoneClears ==
  /\ pc = "watch" /\ events.watchpoints = <<>>
  /\ events' = [events EXCEPT !.work_pending = FALSE]
  /\ pc' = "queue"
  /\ UNCHANGED <<engine, run, points, hw, world, aborted, style, seen>>

WatchDone ==
  /\ pc = "watch" /\ events.watchpoints = <<>>
  /\ pc' = "queue"
  /\ UNCHANGED <<events, engine, run, points, hw, world, aborted, style, seen>>

\* Mutant of InRound: the last tick of the round is left out.
InRoundButLast(x) == x.time < run.time + events.nr_ticks_to_process - 1

\* Is the event due in this round?
InRound(x) == x.time < run.time + events.nr_ticks_to_process

\* An event of this round leaves the queue and its handler is called.
QueueNext ==
  /\ pc = "queue" /\ events.queue # <<>> /\ InRound(Head(events.queue))
  /\ LET x == Head(events.queue)
         e == update_time_from_event([events EXCEPT !.queue = Tail(@)])
     IN /\ events' = sim_events_free(e, x.ev)
        /\ run' = [run EXCEPT !.place = "queue", !.what = x.what,
                              !.at = [ev |-> x.ev, time |-> x.time]]
  /\ pc' = "handler"
  /\ UNCHANGED <<engine, points, hw, world, aborted, style, seen>>

\* Mutant of Finish: the watched list is put back but not emptied.
FinishTwice ==
  /\ pc = "queue" /\ (events.queue = <<>> \/ ~ InRound(Head(events.queue)))
  /\ events' = [events EXCEPT !.watchpoints = events.watchedpoints,
                              !.work_pending = @ \/ events.watchedpoints # <<>>,
                              !.time_from_event = @ - events.nr_ticks_to_process,
                              !.nr_ticks_to_process = 0]
  /\ pc' = "cpu"
  /\ run' = Idle
  /\ UNCHANGED <<engine, points, hw, world, aborted, style, seen>>

\* The watched list becomes the list of watchpoints, and the round's ticks pass.  The
\* loop before it reads the first event without looking whether there is one.
Finish ==
  /\ pc = "queue" /\ (events.queue = <<>> \/ ~ InRound(Head(events.queue)))
  /\ events' = [events EXCEPT !.watchpoints = events.watchedpoints, !.watchedpoints = <<>>,
                              !.work_pending = @ \/ events.watchedpoints # <<>>,
                              !.time_from_event = @ - events.nr_ticks_to_process,
                              !.nr_ticks_to_process = 0]
  /\ aborted' = IF events.queue # <<>> /\ events.time_from_event >= events.nr_ticks_to_process
                  THEN "no" ELSE "assert"
  /\ seen' = [seen EXCEPT !.watched = {}]
  /\ pc' = "cpu"
  /\ run' = Idle
  /\ UNCHANGED <<engine, points, hw, world, style>>

-----------------------------------------------------------------------------
(* The handlers.                                                           *)

HandlerReturns == pc' = run.place /\ run' = NoHandler

\* sim_stop, from a signal handler or from sim_io_poll_quit: an event with delay 0 is
\* held, unless the buffer is full.
sim_stop(e) == [e EXCEPT !.held = Append(@, 0), !.work_pending = TRUE]

\* sim_events_poll schedules itself again and asks whether the user wants to stop.
Poll ==
  /\ pc = "handler" /\ run.what = "poll"
  /\ LET e == sim_events_schedule(events, POLL_RATE, "poll") IN
     \/ /\ events' = e
        /\ UNCHANGED <<seen, aborted>>
     \/ /\ seen.signals < MaxSignals
        /\ seen' = [seen EXCEPT !.signals = @ + 1]
        /\ IF Len(e.held) < MAX_NR_SIGNAL_SIM_EVENTS
             THEN events' = sim_stop(e) /\ UNCHANGED aborted
             ELSE events' = e /\ aborted' = "overflow"
  /\ HandlerReturns
  /\ UNCHANGED <<engine, points, hw, world, style>>

\* Mutant of Signal: the buffer is not checked.
SignalUnchecked ==
  /\ pc \notin {"halted", "moving"}
  /\ seen.signals < MaxSignals
  /\ seen' = [seen EXCEPT !.signals = @ + 1]
  /\ events' = sim_stop(events)
  /\ UNCHANGED <<engine, pc, run, points, hw, world, aborted, style>>

\* A signal handler calls sim_stop while the simulator runs, unless signals are blocked.
Signal ==
  /\ pc \notin {"halted", "moving"}
  /\ seen.signals < MaxSignals
  /\ seen' = [seen EXCEPT !.signals = @ + 1]
  /\ IF Len(events.held) < MAX_NR_SIGNAL_SIM_EVENTS
       THEN events' = sim_stop(events) /\ UNCHANGED aborted
       ELSE aborted' = "overflow" /\ UNCHANGED events
  /\ UNCHANGED <<engine, pc, run, points, hw, world, style>>

\* has_stepped and control_c_simulation.
Stop ==
  /\ pc = "handler" /\ run.what \in {"step", "stop"}
  /\ sim_engine_halt("events")
  /\ UNCHANGED <<events, points, hw, world, aborted, style, seen>>

\* handle_watchpoint: a periodic watchpoint is scheduled again, another one deleted;
\* then the simulator halts or an interrupt is raised.
handle_watchpoint ==
  /\ pc = "handler" /\ run.what \in Points
  /\ LET p == run.what IN
     IF points[p].periodic
       THEN /\ events' = schedule_watchpoint(events, p, points[p])
            /\ points' = [points EXCEPT ![p].ev = zalloc_id(events)]
            /\ UNCHANGED aborted
       ELSE /\ events' = sim_events_deschedule(events, points[p].ev)
            /\ points' = [points EXCEPT ![p] = NoPoint]
            /\ aborted' = IF DescheduleAsserts(events, points[p].ev) THEN "no" ELSE "assert"
  /\ world' = [pc_in |-> world.pc_in /\ PcWatched(points'), out |-> world.out \ {run.what}]
  /\ sim_engine_halt("events") \/ (HandlerReturns /\ UNCHANGED engine)
  /\ UNCHANGED <<hw, style, seen>>

\* bounce_hw_event: the entry leaves the device's list before its callback runs.
bounce_hw_event ==
  /\ pc = "handler" /\ run.what \in Timers
  /\ hw' = [hw EXCEPT ![run.what] = NULL]
  /\ pc' = "callback"
  /\ UNCHANGED <<events, engine, run, points, world, aborted, style, seen>>

\* The callback returns, or halts the simulator.
CallbackEnds ==
  /\ pc = "callback"
  /\ sim_engine_halt("events") \/ (HandlerReturns /\ UNCHANGED engine)
  /\ UNCHANGED <<events, points, hw, world, aborted, style, seen>>

-----------------------------------------------------------------------------
(* What clients call.                                                      *)

Call(p) ==
  /\ seen.calls < MaxCalls
  /\ seen' = [seen EXCEPT !.calls = @ + 1, !.watched = @ \ {p}]
UserMayCall == pc = "halted" /\ (StaleCalls \/ engine.stepper = NULL)
DeviceMayCall == pc \in {"cpu", "callback"} \/ UserMayCall

\* A device schedules an event, from an instruction that touches its registers, from
\* a callback, or when GDB writes to the registers.
hw_event_queue_schedule(h, delta) ==
  /\ DeviceMayCall /\ hw[h] = NULL
  /\ events' = sim_events_schedule(events, delta, h)
  /\ hw' = [hw EXCEPT ![h] = zalloc_id(events)]
  /\ Call(h)
  /\ UNCHANGED <<engine, pc, run, points, world, aborted, style>>

\* Only an entry that is on the device's list is descheduled.
hw_event_queue_deschedule(h) ==
  /\ DeviceMayCall /\ hw[h] # NULL
  /\ events' = sim_events_deschedule(events, hw[h])
  /\ aborted' = IF DescheduleAsserts(events, hw[h]) THEN "no" ELSE "assert"
  /\ hw' = [hw EXCEPT ![h] = NULL]
  /\ Call(h)
  /\ UNCHANGED <<engine, pc, run, points, world, style>>

\* The user sets a watchpoint.
do_watchpoint_create(p, type, periodic, arg) ==
  LET point == [ev |-> zalloc_id(events), type |-> type, periodic |-> periodic,
                arg0 |-> arg] IN
  /\ UserMayCall /\ points[p].ev = NULL
  /\ periodic => type # "pc" \/ PeriodicPC
  /\ (type = "cycles") = (arg > 0)
  /\ points' = [points EXCEPT ![p] = point]
  /\ events' = schedule_watchpoint(events, p, point)
  /\ \E in \in BOOLEAN :
       world' = [pc_in |-> (in \/ world.pc_in) /\ PcWatched(points'), out |-> world.out \ {p}]
  /\ Call(p)
  /\ UNCHANGED <<engine, pc, run, hw, aborted, style>>

\* The user deletes a watchpoint.
do_watchpoint_delete(p) ==
  /\ UserMayCall /\ points[p].ev # NULL
  /\ events' = sim_events_deschedule(events, points[p].ev)
  /\ aborted' = IF DescheduleAsserts(events, points[p].ev) THEN "no" ELSE "assert"
  /\ points' = [points EXCEPT ![p] = NoPoint]
  /\ world' = [pc_in |-> world.pc_in /\ PcWatched(points'), out |-> world.out \ {p}]
  /\ Call(p)
  /\ UNCHANGED <<engine, pc, run, hw, style>>

-----------------------------------------------------------------------------
\* Steps of the simulator itself.
Machine ==
  \/ sim_events_preprocess \/ Insn
  \/ Process \/ MoveHeld \/ WatchNext \/ WatchDone \/ QueueNext \/ Finish
  \/ Poll \/ Stop \/ handle_watchpoint \/ bounce_hw_event \/ CallbackEnds

User ==
  \/ \E step \in BOOLEAN : Resume(step)
  \/ \E p \in Points, t \in PointTypes, periodic \in BOOLEAN, arg \in {0} \cup Args :
       do_watchpoint_create(p, t, periodic, arg)
  \/ \E p \in Points : do_watchpoint_delete(p)

Device ==
  \/ \E h \in Timers, delta \in Deltas : hw_event_queue_schedule(h, delta)
  \/ \E h \in Timers : hw_event_queue_deschedule(h)

Next ==
  /\ aborted = "no"
  /\ Machine \/ User \/ Device \/ Signal \/ sim_events_slip \/ CpuHalt

Spec == Init /\ [][Next]_vars

\* The simulator's process gets to run.  Nothing is assumed of the user, of signals,
\* or of what instructions do.
FairSpec == Spec /\ WF_vars(aborted = "no" /\ Machine)

-----------------------------------------------------------------------------
(* Properties.                                                             *)

Now == sim_events_time(events)
InCall == pc \in {"handler", "callback"}
Structs == 1..events.structs
Kinds == {"poll", "step", "stop"} \cup Points \cup Timers
Watch == [ev : Structs, what : Points]
TimedEvent == [ev : Structs, what : Kinds, time : Nat]

\* The fields of the events structure, the engine and the clients' lists have their types.
TypeOK ==
  /\ events.queue \in Seq(TimedEvent) /\ events.free_list \in Seq(Structs)
  /\ events.watchpoints \in Seq(Watch) /\ events.watchedpoints \in Seq(Watch)
  /\ events.held \in Seq({0}) /\ Len(events.held) <= MAX_NR_SIGNAL_SIM_EVENTS
  /\ events.nr_ticks_to_process \in Nat /\ events.work_pending \in BOOLEAN
  /\ events.time_of_event \in Int /\ events.time_from_event \in Int
  /\ engine \in [stepper : {NULL} \cup Structs, last : {"events", "cpu"}]
  /\ pc \in {"halted", "preprocess", "cpu", "process", "held", "moving", "watch", "queue",
             "handler", "callback"}
  /\ run.what \in Kinds \cup {"none"} /\ run.place \in {"watch", "queue", "none"}
  /\ points \in [Points -> [ev : {NULL} \cup Structs, type : {"pc", "clock", "cycles"},
                            periodic : BOOLEAN, arg0 : Nat]]
  /\ hw \in [Timers -> {NULL} \cup Structs]
  /\ aborted \in {"no", "assert", "overflow"}

\* No structure is leaked or in two places (sim_events_zalloc, sim_events_free and the
\* moves between the lists): each is in exactly one place of one list.
StructsConserved ==
  LET lists == [i \in DOMAIN events.queue |-> events.queue[i].ev]
                 \o [i \in DOMAIN events.watchpoints |-> events.watchpoints[i].ev]
                 \o [i \in DOMAIN events.watchedpoints |-> events.watchedpoints[i].ev]
                 \o events.free_list
  IN /\ Len(lists) = events.structs
     /\ \A s \in Structs : \E i \in DOMAIN lists : lists[i] = s

\* An event stays until it fires or its owner takes it away, and none stays behind:
\* each entry of a device's list and each watchpoint has the event it points to in a
\* list, and each event there belongs to one (hw_event_queue_schedule,
\* schedule_watchpoint, sim_events_deschedule, the loops of sim_events_process).
NothingLost ==
  LET queued == ToSet(events.queue) \cup ToSet(events.watchpoints)
                  \cup ToSet(events.watchedpoints)
      Has(c, id) == \E x \in queued : x.ev = id /\ x.what = c
  IN /\ \A h \in Timers : (hw[h] # NULL /\ run.what # h) => Has(h, hw[h])
     /\ \A p \in Points : (points[p].ev # NULL /\ run.what # p) => Has(p, points[p].ev)
     /\ \A x \in queued : /\ x.what \in Timers => hw[x.what] = x.ev
                          /\ x.what \in Points => points[x.what].ev = x.ev

\* The clock follows the queue: the queue is ordered, time_of_event is the time of its
\* first event, and except in its own handler the poll event is queued, so that the
\* distance to the next event stays small (the comment at sim-events.c:113-134).
ClockFollowsQueue ==
  /\ \A i, j \in DOMAIN events.queue : i < j => events.queue[i].time <= events.queue[j].time
  /\ events.queue # <<>> => events.time_of_event = Head(events.queue).time
  /\ Cardinality({i \in DOMAIN events.queue : events.queue[i].what = "poll"})
       = IF run.what = "poll" THEN 0 ELSE 1

\* Between rounds nothing is overdue, unless the processor slipped past it and
\* work_pending says so (sim_events_tick, sim_events_slip).
NothingOverdue ==
  pc = "cpu" => \A i \in DOMAIN events.queue : events.queue[i].time >= Now \/
                                              (style.slip /\ events.work_pending)

\* A timer's handler is called in the round of its tick, never early, and late only
\* when the processor slipped; with one tick to the round the handler sees the very time
\* it asked for (sim_events_process; the check in test_handler, hw-events.c:149).
OnTime ==
  (InCall /\ run.place = "queue") =>
    /\ run.at.time < run.time + events.nr_ticks_to_process
    /\ style.slip \/ run.at.time >= run.time
    /\ run.time = Now

\* No SIM_ASSERT fails on a processor that does not slip (sim_events_deschedule,
\* sim_events_preprocess and the end of sim_events_process).
AssertsHold == aborted = "assert" => style.slip

\* A step is one instruction, wherever the simulator was halted before (sim_resume,
\* sim_events_preprocess), on a processor with one tick to the instruction.
StepsOnce ==
  style.n = 1 => /\ seen.step => seen.insns <= 1
                 /\ (pc = "handler" /\ run.what = "step") => seen.step /\ seen.insns = 1

\* What has to be looked at is flagged, so that the next tick looks at it: events of
\* signal handlers and watchpoints (work_pending in sim_events_process).
WorkIsFlagged ==
  /\ events.held # <<>> => events.work_pending \/ pc \in {"held", "moving"}
  /\ events.watchpoints # <<>> => events.work_pending \/ pc \notin {"cpu", "preprocess"}
                                  \/ (pc = "preprocess" /\ engine.last = "events")

\* The lists of sim-events.c and what points into them are whole after any sequence of
\* schedule, deschedule, tick, slip and signal, also in the middle of a round.
QueueSound ==
  TypeOK /\ StructsConserved /\ NothingLost /\ ClockFollowsQueue /\ WorkIsFlagged /\ AssertsHold

\* Events are neither early nor late (sim_events_tickn, sim_events_process).
Punctual == NothingOverdue /\ OnTime

\* Watchpoints are looked at once a round (the comment in sim_events_process).
WatchedOnce == ~ seen.again

\* A ^C halts the simulator (sim_stop, sim_events_process, control_c_simulation).
StopHalts == (events.held # <<>>) ~> (pc = "halted" \/ aborted # "no")

\* The queue implements the agenda of module Timeline: nothing is passed over, and of
\* what is due the earliest goes first.
T == INSTANCE Timeline WITH
       Event <- Nat,
       now <- Now,
       agenda <- {[ev |-> events.queue[i].ev, time |-> events.queue[i].time] :
                     i \in DOMAIN events.queue},
       firing <- IF InCall /\ run.place = "queue" THEN run.at ELSE NoEvent,
       lax <- style.slip
KeepsTheAgenda == T!Spec

=============================================================================
