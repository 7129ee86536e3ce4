CONSTANTS
  MAX_PROCESSES = 2
  CPUs = {0}
  DEFAULT_TIME_SLICE = 2
  TickMod = 6
  KeyMod = 16
  MaxTick = 5
  MaxSleep = 1

SPECIFICATION FairSpec
INVARIANTS TypeOK OnCpu RunningIsCurrent LoadingReserved CurrentLive BoundedWait
CHECK_DEADLOCK FALSE
