SPECIFICATION Spec
CONSTANTS
  Threads = {t1, t2}
  NoPath = NoPath
  Dirs <- MCDirs
  Paths <- MCPaths
  DirOf <- MCDirOf
  PathLen <- MCLen
  Calls <- ReadCalls
  Masks <- NoMasks
  TfileDir = "tmp"
  Faults = {}
  MaxCalls = 2
INVARIANT WellFramed
CHECK_DEADLOCK FALSE
