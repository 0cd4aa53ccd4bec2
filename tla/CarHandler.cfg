SPECIFICATION Spec
CONSTANTS
  DIST_MIN = 1
  DIST_BREAK_BEGIN = 3
  Speed <- MCSpeed
  Distance <- MCDistance
  ubatP = 2
  ubatC = 1
  distF = 3
  distR = 2
INVARIANTS
  TypeOK
  OnlySlower
  RearObstacleStops
  FreeRearUnlimited
  NoDriveUnheard
  StopSoon
