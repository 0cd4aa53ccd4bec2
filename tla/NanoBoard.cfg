SPECIFICATION FairSpec
CONSTANTS
  StallLimit = 1
  UartTimeout = 2
  Byte <- MCByte
  RxDepth = 4
  TxDepth = 1
  VersionLen = 1
  ResponseLen = 2
INVARIANTS
  TypeOK
  Deadman
  NoUninitialisedRead
  TripLatch
PROPERTIES
  PacketWhole
  HandshakeHeard
  LoopProgress
