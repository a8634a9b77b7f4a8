SPECIFICATION FairSpec
CONSTANTS
  Tasks = {t1, t2, t3}
  Coroutines = {c1, c2, c3}
  NoTask = NoTask
  MaxRetries = 2
  MaxFaults = 2
  MaxRestarts = 2
INVARIANTS
  TypeOK
  CarriedOnce
  CarriedIsPending
  LostOnlyToErrors
  PermitConserved
  RowConsistent
PROPERTIES
  QueuedSurvivesStop
  ImplementsLifecycle
  EveryTaskSettles
  EveryCoroutineEnds
