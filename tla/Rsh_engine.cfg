SPECIFICATION Spec
CONSTANTS
  MAX_VARS = 3
  INDEX_MOD = 2
  MAX_FUNCTIONS = 2
  FUNC_POOL_SIZE = 9
  MAX_CALL_STACK = 2
  MAX_INCLUDE_DEPTH = 3
  BUFFERS = 2
  MAX_WHILE_ITER = 2
  MAX_ONCE_TAGS = 1
  COUNTS = {0, 2}
  FILES <- MCFiles
  PROMPT_LINES <- MCPrompt
  ScriptLines <- MCLines
  COMMANDS = 3
  FuncNames = {"main", "f", "g"}
INVARIANTS ContextMatchesStack LinesIntact
PROPERTIES LeavingRestores ScriptEnds
CHECK_DEADLOCK FALSE
