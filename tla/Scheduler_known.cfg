SPECIFICATION SchedSpec
CONSTANTS
  MAX_TASKS = 4
  MAX_AFFINITIES = 2
  MAX_PRIORITY = 5
  AGING_THRESH = 3
  AGING_BOOST = 2
  REAPER_SCAN_INTERVAL = 4
  TICK_MOD = 64
  FIRST_PID = 10
  BootTasks <- MCBootDeadline
  NewTasks = {}
  Killable = {12}
  SleepTicks = {2}
  MaxTicks = 40
  MaxPid = 14
INVARIANTS DeadlineCaught ReportsNamePid
PROPERTIES SliceHonoured
CHECK_DEADLOCK FALSE
