SPECIFICATION Spec
CONSTANTS
  Pid = {1, 2, 3}
  SemPid = {1, 2, 3, 4}
  Type = {1, 2}
  Want = {0, 1, 2}
  IPC_MAX_MSG_PER_QUEUE = 3
  MaxBlocked = 2
  MaxBlockedProcs = 2
  MaxSent = 5
  Initials = {1, 2}
INVARIANTS IpcTypeOK AtMostOnce MsgSleepersListed
           SemSleepersListed UnitsConserved PassesWithUnit
PROPERTY ImplementsFifo
CHECK_DEADLOCK FALSE
