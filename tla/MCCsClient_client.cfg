SPECIFICATION ClientFair
CONSTANTS
  HeartBeat = 3
  Floor <- MCFloor
  MaxRx = 2
  FdBase = 9
  FdLimit = 12
INVARIANTS
  FlagsTellLink
  OneDescriptorPerConnection
PROPERTIES
  LeavesTheDead
  Reconnects
CHECK_DEADLOCK FALSE
