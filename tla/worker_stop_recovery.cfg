SPECIFICATION Spec
CONSTANTS
  Tasks = {t1, t2}
  Coroutines = {c1, c2}
  NoTask = NoTask
  MaxRetries = 3
  MaxFaults = 0
  MaxRestarts = 1
PROPERTIES
  StopKeepsRecoverable
