SPECIFICATION Spec
CONSTANTS
  KP = 1
  KI = 2
  KD = 1
  DeadDuty = 2
  MaxDuty = 7
  HalfRange = 32
  SetPoint <- MCSetPoint
  Speed <- MCSpeed
  StallLimit = 2
INVARIANTS
  TypeOK
PROPERTIES
  ImplementsLatch
  StallEndsDrive
  FreshStart
