SPECIFICATION SchedSpec
CONSTANTS
  MAX_TASKS = 5
  MAX_AFFINITIES = 2
  MAX_PRIORITY = 5
  AGING_THRESH = 10
  AGING_BOOST = 2
  REAPER_SCAN_INTERVAL = 2
  TICK_MOD = 64
  FIRST_PID = 10
  BootTasks <- MCBootTop
  NewTasks <- MCNewTop
  Killable = {}
  SleepTicks = {2}
  MaxTicks = 45
  MaxPid = 13
INVARIANTS AgedTaskRuns
CHECK_DEADLOCK FALSE
