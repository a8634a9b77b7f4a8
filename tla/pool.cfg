SPECIFICATION Spec
CONSTANTS
  Gets = {g1}
  Posts = {p1, p2}
  Unfinished = {t1}
  Recovery = Recovery
  Nobody = Nobody
  PoolSize = 3
  MaxRetries = 2
  MaxFaults = 1
CHECK_DEADLOCK FALSE
INVARIANTS
  TypeOK
  HeldByTheBusy
  FreezeNeedsLoad
PROPERTIES
  RequestsAnswered
