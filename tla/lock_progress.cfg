SPECIFICATION FairSpec
CONSTANTS
  Instances = {i1, i2}
  Ids = {a, b, c}
  NoId = NoId
  MaxFaults = 2
  MaxStops = 2
CHECK_DEADLOCK FALSE
INVARIANTS
  TypeOK
  LeftByFailures
PROPERTY LocksGo
