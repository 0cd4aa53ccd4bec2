SPECIFICATION LinkFairSpec
CONSTANTS
  StallLimit = 0
  UartTimeout = 2
  Byte <- MCByte
  RxDepth = 6
  TxDepth = 3
  VersionLen = 1
  ResponseLen = 2
  Payload <- MCPayload
  MaxFaults = 3
  MaxDown = 13
INVARIANTS
  LinkTypeOK
  AsSent
  AnswersWhole
  ServerSurvives
PROPERTIES
  Recovers
  StopsWithServer
CHECK_DEADLOCK FALSE
