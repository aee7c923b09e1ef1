SPECIFICATION Spec
CONSTANTS
  Reads = {}
  Writes = {"w"}
  Fds = {"f"}
  HasArchive = TRUE
  BFDs <- MCBFDs
  Direction <- MCDirection
  Elements <- MCElements
  my_archive <- MCArchive
  Offsets <- MCOffsets
  BFD_CACHE_MAX_OPEN = 1
  Size = 1
  FdOffsets = {0}
  Worlds = {"sound", "failing"}
INVARIANTS RingSound WhereRight
PROPERTY FilesStaySteady
CONSTRAINT Explored
CHECK_DEADLOCK FALSE
