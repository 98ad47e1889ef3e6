CONSTANTS
  MEMORY_POOL_SIZE = 16
  HEADER = 1
  ALIGN = 2
  POOL_BASE = 16
  Clients = {c1, c2, c3}
  Sizes = {0, 1, 3, 4, 18}
SPECIFICATION HeapSpec
INVARIANTS
  HeapSound
