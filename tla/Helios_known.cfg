SPECIFICATION ShellSpec
CONSTANTS
  WORD = 32768
  VM_STACK_SLOTS = 24
  VM_DEPTH = 4
  VM_MAX_STEPS = 120
  HEAP_BASE = 100
  Junk = {0, 7}
  Inputs = {"42"}
  INCLUDE_DEPTH = 2
  BENCH_RUNS = 2
  Files <- KnownFiles
  Outputs <- NoFiles
  Stripped <- NoFiles
  Snippets = {}
  Suite <- DiagTests
CHECK_DEADLOCK FALSE
CONSTANTS
  Comparable = {}
INVARIANTS FmtIsSource SuitePasses
