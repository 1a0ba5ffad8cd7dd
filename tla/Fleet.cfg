CONSTANTS
  Last = 2
  Scheduled = {cron}
  Requested = {api}
  Interval = 1
SPECIFICATION Spec
PROPERTIES
  EverySourceChecked
