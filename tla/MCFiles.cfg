SPECIFICATION FilesSpec
CONSTANTS
  Threads = {"main", "t2"}
  Main = "main"
  ALT_MAX_FD = 5
  Devices = {"uart"}
  Filesystems = {"fs"}
  Null = "null"
  NoDev = "none"
  NameOf <- MCNameOf
  Provides <- MCProvides
  StdioName <- MCStdioName
  Paths <- MCPaths
  OpenFlags <- MCFlags
  Calls = {"open", "stat", "close", "lock", "unlock", "fcntl"}
  Shared = FALSE
  SIZE = 8
  LINE = 2
  DLINES = 2
  ILINES = 2
  CodeStart = 6
  Sizes = {1, 2, 3}
  MaxBlocks = 2
  Limit = 16
  Incrs <- MCIncrs
  Exception = TRUE
INVARIANTS
  PoolSound
  LockSticks
  CachesCoherent
  HeapSound
PROPERTIES
  EveryCallReturns
