CONSTANTS
  Pid = {1, 2}
  Creator = {1}
  Value = {v1}
  PIPE_BUFFER_SIZE = 3
  PIPE_WAIT_MAX = 2
  MaxLen = 2

SPECIFICATION OneCpuSpec
PROPERTY ReaderWoken
CHECK_DEADLOCK FALSE
