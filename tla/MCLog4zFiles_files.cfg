SPECIFICATION FairSpec
CONSTANTS
  BufSize = 12
  Day = 2
  Slack = 1
  Unit = 12
  Word = 48
  Level = {0, 1}
  Changes <- HotChanges
  Name = "a"
  Limit = 1
  Said <- Messages
  PrefixLen = 3
  NoFile = NoFile
  MaxTime = 5
  MaxEntries = 4
INVARIANTS
  LinesAreWhole
  OneDayPerFile
  SizeIsBounded
PROPERTIES
  RollIsFresh
  IsFlushed
CHECK_DEADLOCK FALSE
