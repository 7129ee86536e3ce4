CONSTANTS
  MAX_PROCESSES = 2
  CPUs = {0}
  DEFAULT_TIME_SLICE = 2
  TickMod = 16
  KeyMod = 16
  MaxTick = 5
  MaxSleep = 1

SPECIFICATION Spec
INVARIANT RingThreeRunsUserCode
CHECK_DEADLOCK FALSE
