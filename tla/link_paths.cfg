SPECIFICATION Spec
CONSTANTS
  Threads = {t1}
  NoPath = NoPath
  Dirs <- MCDirs
  Paths <- MCPaths
  DirOf <- MCDirOf
  PathLen <- MCLen
  Calls <- LinkCalls
  Masks <- NoMasks
  TfileDir = "tmp"
  Faults = {}
  MaxCalls = 1
INVARIANT PathsRecorded
CHECK_DEADLOCK FALSE
