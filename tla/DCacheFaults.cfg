SPECIFICATION Spec
CONSTANTS
  DCACHE_SIZE = 2
  LINE_SIZE = 2
  NLines = 3
  Byte = {0}
  ZeroByte = 0
  MaxLen = 2
  ReadErrors = TRUE
  WriteErrors = TRUE
  Quits = TRUE
INVARIANTS ListsDisjoint DirtyIsMarked
PROPERTIES OnlyQuitsDuplicate OnlyQuitsLose
VIEW View
CHECK_DEADLOCK FALSE
