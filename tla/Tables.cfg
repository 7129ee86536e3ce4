SPECIFICATION TablesSpec
CONSTANTS
  WAIT_MAX_EXITS = 3
  Pid = {1, 2, 3, 4}
  Code = {0, 7}
  None = None
  RC_BUCKETS = 3
  Key = {"k", "l"}
  Page = {p1, p2, p3, p4}
  WindowPages = 2
  MaxTick = 2
INVARIANTS TablesTypeOK OneRecord PagesOwned
PROPERTIES ImplementsExitRecord RecentHitSurvives
SYMMETRY PageSymmetry
CHECK_DEADLOCK FALSE
