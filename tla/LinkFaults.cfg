SPECIFICATION BusySpec
CONSTANTS
  NCmds = 5
  MAX_TRIES = 3
  MaxTimeouts = 3
  MaxFaults = 3
  Slow = FALSE
  MaxQueue = 0
  Forever = {TRUE, FALSE}
INVARIANTS TypeOK RepeatsAccounted ReplyMatches
PROPERTIES HostReturns Recovers
CHECK_DEADLOCK FALSE
