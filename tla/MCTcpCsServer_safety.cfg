SPECIFICATION Spec
CONSTANTS
  NULL = NULL
  Clients = {c1, c2}
  MaxRx = 1
  Listeners = 2
  FdBase = 9
  FdLimit = 26
  MayStop = TRUE
INVARIANTS
  
  TerminateNeedsExhaustion
PROPERTIES
  RegistersOnlyOpen
  
CHECK_DEADLOCK FALSE
