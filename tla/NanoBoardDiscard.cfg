SPECIFICATION Spec
CONSTANTS
  StallLimit = 1
  UartTimeout = 2
  Byte <- MCByte
  RxDepth = 5
  TxDepth = 1
  VersionLen = 1
  ResponseLen = 2
PROPERTIES
  OnlyReadsDiscard
