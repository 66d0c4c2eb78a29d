SPECIFICATION FairSpec
CONSTANTS
  Chunk = 3
  MaxSize = 15
  Byte <- Positions
  Files <- FilesUpTo
  JUNK = 0
  ShortReads = FALSE
  MayDie = FALSE
INVARIANTS
  LockStep
PROPERTIES
  CopySpec
  BothReturn
CHECK_DEADLOCK FALSE
