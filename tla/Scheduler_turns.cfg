SPECIFICATION FairSchedSpec
CONSTANTS
  MAX_TASKS = 4
  MAX_AFFINITIES = 2
  MAX_PRIORITY = 5
  AGING_THRESH = 3
  AGING_BOOST = 2
  REAPER_SCAN_INTERVAL = 2
  TICK_MOD = 8
  FIRST_PID = 10
  BootTasks <- MCBootEqual
  NewTasks = {}
  Killable = {10, 12}
  SleepTicks = {2}
  MaxTicks = 8
  MaxPid = 14
PROPERTIES ReadyTaskRuns ZombiesReaped
