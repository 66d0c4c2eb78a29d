SPECIFICATION FairSpec
CONSTANTS
  Chunk = 3
  MaxSize = 14
  Byte <- Positions
  Files <- FilesUpTo
  JUNK = 0
  ShortReads = TRUE
  MayDie = TRUE
INVARIANTS
  SizeKept
PROPERTIES
  BothEnd
CHECK_DEADLOCK FALSE
