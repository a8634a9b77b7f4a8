SPECIFICATION RetentionSpec
CONSTANTS
  Tasks = {t1}
  Day = 24
  Retention = 3600
  MaxHours = 60
  MaxSkips = 0
CHECK_DEADLOCK FALSE
INVARIANT RetentionIsAnHour
