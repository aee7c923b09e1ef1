SPECIFICATION Spec
CONSTANTS
  DCACHE_SIZE = 1
  LINE_SIZE = 2
  NLines = 2
  Byte = {0, 1}
  ZeroByte = 0
  MaxLen = 2
  ReadErrors = FALSE
  WriteErrors = FALSE
  Quits = FALSE
INVARIANTS TypeOK OkIsMemory StuffIsNoted OkMeansStored
PROPERTY ReadsSeeWrites
