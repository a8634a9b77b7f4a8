SPECIFICATION Spec
CONSTANTS
  Tasks = {t1, t2}
  Day = 1
  Retention = 1
  MaxHours = 3
  MaxSkips = 1
  MaxRetries = 2
  MaxFaults = 1
  MaxDeaths = 1
CHECK_DEADLOCK FALSE
INVARIANTS
  TypeOK
  ReapedInTime
  OneAtATime
  CallbacksLostOnlyToErrors
PROPERTIES
  EveryCallbackSettles
  EveryCoroutineEnds
