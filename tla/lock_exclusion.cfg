SPECIFICATION Spec
CONSTANTS
  Instances = {i1, i2}
  Ids = {a, b}
  NoId = NoId
  MaxFaults = 0
  MaxStops = 0
CHECK_DEADLOCK FALSE
INVARIANT OneInstanceRuns
