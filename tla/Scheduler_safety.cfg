SPECIFICATION SchedSpec
CONSTANTS
  MAX_TASKS = 5
  MAX_AFFINITIES = 2
  MAX_PRIORITY = 5
  AGING_THRESH = 5
  AGING_BOOST = 2
  REAPER_SCAN_INTERVAL = 2
  TICK_MOD = 64
  FIRST_PID = 10
  BootTasks <- MCBoot
  NewTasks <- MCNew
  Killable = {10, 12, 13}
  SleepTicks = {2}
  MaxTicks = 26
  MaxPid = 13
INVARIANTS RunningIsCurrent KilledStaysDead TableExact AgedTaskRuns
PROPERTIES SleepsFullTime
CHECK_DEADLOCK FALSE
