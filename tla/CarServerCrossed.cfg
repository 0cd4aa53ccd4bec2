SPECIFICATION MCSpec
CONSTANTS
  NBoards = 1
  MaxFd = 3
  MIN_MSGS = 1
  Grace = 0
INVARIANTS
  CommandsReachTheirBoard
CHECK_DEADLOCK FALSE
