SPECIFICATION FairSpec
CONSTANTS
  NThreads = 2
  Threads <- MCThreads
  Worlds = {"calm"}
  Styles = {"plain"}
  MAX_TCOUNT = 1
  MAX_TRIES = 2
  MaxResumes = 2
  MaxUser = 5
  MaxLine = 3
INVARIANT RegistersRight
