SPECIFICATION FairSpec
CONSTANTS
  c1 = c1
  c2 = c2
  c3 = c3
  Call <- ThreeCalls
  BaseLimit = 2
  DegradedLimit = 1
  SlotTtl = 4
  CallTimeout = 3
  OpenTime = 2
  Window = 2
  MinRequests = 1
  DegradedPercent = 30
  OpenPercent = 60
  RecordTime = 1
INVARIANTS
  TypeOK
  RunningWithinLimit
  OpenNotExtended
PROPERTIES
  ProbeRunsAlone
  WaitersServed
CHECK_DEADLOCK FALSE
