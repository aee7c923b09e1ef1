SPECIFICATION FairSpec
CONSTANTS
  NCmds = 3
  MAX_TRIES = 3
  MaxTimeouts = 3
  MaxFaults = 0
  Slow = FALSE
  MaxQueue = 0
  Forever = {TRUE, FALSE}
PROPERTY ImplementsCalls
