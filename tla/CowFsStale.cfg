SPECIFICATION CowSpec
CONSTANTS
  MEM_FS_NODES = 4
  PATH_MAX_SEGMENTS = 2
  Name = {"a", "b"}
  Data = {"x", "y"}
  MaxSegments = 3
  COW_MAX_VERSIONS = 3
  VER_NAMES = 4
  MaxVersion = 3
  MaxDepth = 1
PROPERTY StaleWriteRefused
