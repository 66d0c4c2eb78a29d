SPECIFICATION Spec
CONSTANTS
  NULL = NULL
  Clients = {c1, c2}
  MaxRx = 1
  Listeners = 2
  FdBase = 9
  FdLimit = 1024
  MayStop = FALSE
SYMMETRY Symmetry
INVARIANTS
  NullIsNotCalled
CHECK_DEADLOCK FALSE
