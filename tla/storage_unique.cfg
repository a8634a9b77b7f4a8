SPECIFICATION Spec
CONSTANTS
  Requests = {r1, r2}
  Tenants = {a}
  Buckets = {bk}
  Names = {n1}
  NoDoc = NoDoc
  MaxFaults = 0
  MaxCrashes = 0
CHECK_DEADLOCK FALSE
INVARIANT UniqueNames
