SPECIFICATION FairSpec
CONSTANTS
  TriggerLen = 2
  Limit = 3
  Gap = 2
INVARIANTS
  TypeOK
  FreshReading
PROPERTIES
  EchoExact
  MeasuresOn
