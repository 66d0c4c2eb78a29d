CONSTANTS
  Script <- SockmanScript
  MaxBuffer = 1024
  PORT = 10009
  MaxDuplicates = 1
SPECIFICATION UdpFairSpec
INVARIANTS
  StringsEnd
  WholeIfInOrder
PROPERTIES
  ReceiverReturns
CHECK_DEADLOCK FALSE
