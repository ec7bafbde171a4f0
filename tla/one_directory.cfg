SPECIFICATION Spec
CONSTANTS
  Threads = {t1, t2, t3}
  NoPath = NoPath
  Dirs <- MCDirs
  Paths <- MCPaths
  DirOf <- MCDirOf
  PathLen <- MCLen
  Calls <- OneDirCalls
  Masks <- AllMasks
  TfileDir = "tmp"
  Faults = {}
  MaxCalls = 3
INVARIANTS UniqueIds WellFramed
PROPERTIES ImplementsTraceLog
CHECK_DEADLOCK FALSE
