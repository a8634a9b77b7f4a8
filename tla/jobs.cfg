SPECIFICATION FairSpec
CONSTANTS
  Posts = {p1, p2, p3}
  Checks = {h1}
  Uids = {u1, u2}
  NoJob = NoJob
  MaxCrashes = 1
CHECK_DEADLOCK FALSE
INVARIANTS
  TypeOK
  StatusTellsTheRun
  CompleteMeansRun
  NoJobAbandoned
PROPERTIES
  JobsComplete
  HealthAnswers
