SPECIFICATION FairSpec
CONSTANTS
  Names <- MCNames
  Symbols <- MCSymbols
  Archives <- MCArchives
  Foreign <- MCForeign
  Undefineds = {"y"}
  MaxObjects = 3
  MaxSearches = 2
  build_constructors = TRUE
INVARIANTS ListSound ResolvedRight Reported SearchComplete
PROPERTY LinkEnds
CHECK_DEADLOCK FALSE
