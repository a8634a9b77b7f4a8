SPECIFICATION Spec
CONSTANTS
  Tasks = {t1}
  Coroutines = {c1}
  NoTask = NoTask
  MaxRetries = 3
  MaxFaults = 1
  MaxRestarts = 0
PROPERTIES
  ExhaustedIsFailed
