SPECIFICATION FairSpec
CONSTANTS
  NULL = NULL
  Clients = {c1, c2}
  MaxRx = 1
  Listeners = 1
  FdBase = 9
  FdLimit = 1024
  MayStop = FALSE
PROPERTIES
  HandlerReturns
CHECK_DEADLOCK FALSE
