SPECIFICATION BoardsSpec
CONSTANTS
  NBoards = 2
  MaxFd = 3
  MIN_MSGS = 1
  Grace = 0
INVARIANTS
  TypeOK
  SelectSetOpen
  LiveIsWatched
  ListenerOpen
CHECK_DEADLOCK FALSE
