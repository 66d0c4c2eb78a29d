SPECIFICATION FairSpec
CONSTANTS
  Producers = {p1}
  Changers = {c1}
  WRITER = WRITER
  NONE = NONE
  Data = {1, 2, 3, 4, 5, 6}
  LastId = 0
  Levels = {0, 1}
  DEBUG = 0
  ALARM = 1
  Limit = 0
  PoolLimit = 1
  MaxCalls <- Calls
  MaxNumber = 2
INVARIANTS
  Owned
  MemoryIsBounded
  NothingOwedIsLost
  StartedMeansRunning
PROPERTIES
  PipeSpec
  StopReturns
  DisableTakesEffect
CHECK_DEADLOCK FALSE
