SPECIFICATION FairSpec
CONSTANTS
  Points = {p1}
  Timers = {h1}
  PointTypes = {"clock", "cycles"}
  PeriodicPC = FALSE
  StaleCalls = FALSE
  Deltas = {1}
  Args = {2}
  TickSizes = {1, 2}
  SlipStyles = {FALSE, TRUE}
  POLL_RATE = 2
  MAX_NR_SIGNAL_SIM_EVENTS = 1
  MaxSignals = 2
  MaxCalls = 2
  MaxTime = 2
CHECK_DEADLOCK FALSE
INVARIANTS QueueSound Punctual StepsOnce
PROPERTIES KeepsTheAgenda StopHalts
