SPECIFICATION ApiSpec
CONSTANTS
  MAX_IPC_MSGS = 3
  Receivers = {0, 9}
  MaxPosts = 7
  MaxOverflows = 1
INVARIANTS DrainOldestFirst
PROPERTIES PostKeepsWaiting
CHECK_DEADLOCK FALSE
