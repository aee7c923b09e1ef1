SPECIFICATION FairSpec
CONSTANTS
  NThreads = 2
  Threads <- MCThreads
  Worlds = {"calm", "racing"}
  Styles = {"plain", "extended"}
  MAX_TCOUNT = 1
  MAX_TRIES = 2
  MaxResumes = 2
  MaxUser = 5
  MaxLine = 4
INVARIANTS  CalmResumedOnce
PROPERTIES InterruptStops CommandsEnd
CHECK_DEADLOCK FALSE
