SPECIFICATION CowSpec
CONSTANTS
  MEM_FS_NODES = 4
  PATH_MAX_SEGMENTS = 2
  Name = {"a", "b"}
  Data = {"x"}
  MaxSegments = 3
  COW_MAX_VERSIONS = 3
  VER_NAMES = 3
  MaxVersion = 4
  MaxDepth = 1
INVARIANTS CowTypeOK ListsSound NamesDistinct
PROPERTIES ImplementsFileTree ForkClones Isolation
