SPECIFICATION MCFairSpec
CONSTANTS
  NBoards = 1
  MaxFd = 3
  MIN_MSGS = 1
  Grace = 0
PROPERTIES
  Retried
  SilentDropped
  StopEnds
CHECK_DEADLOCK FALSE
