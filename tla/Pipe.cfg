CONSTANTS
  Pid = {0, 1}
  Creator = {1}
  Value = {v1, v2}
  PIPE_BUFFER_SIZE = 3
  PIPE_WAIT_MAX = 2
  MaxLen = 2

SPECIFICATION Spec
INVARIANTS TypeOK SpaceExact WaitersCounted
PROPERTY ImplementsFifo
CHECK_DEADLOCK FALSE
