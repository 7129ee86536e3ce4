CONSTANTS
  MAX_PROCESSES = 2
  UserPages = 4
  AllocBase = 1
  PT_ENTRIES = 2
  PoolPages = 8
  IdentBase = 4
  MAX_PAGES = 2
  ALLOC_MAX = 2
  MaxCall = 2
SPECIFICATION Spec
PROPERTY FaultServed
CHECK_DEADLOCK FALSE
