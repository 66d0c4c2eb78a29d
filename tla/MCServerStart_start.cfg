SPECIFICATION FairSpec
CONSTANTS
  Attempts = 30
  FdBase = 9
  FdLimit = 1024
INVARIANTS
  FlagsTellSocket
PROPERTIES
  StartsOnFreePort
CHECK_DEADLOCK FALSE
