SPECIFICATION Spec
CONSTANTS
  Threads = {t1, t2}
  NoPath = NoPath
  Dirs <- MCDirs
  Paths <- MCPaths
  DirOf <- MCDirOf
  PathLen <- MCLen
  Calls <- LongCalls
  Masks <- NoMasks
  TfileDir = "tmp"
  Faults = {"interpose", "nomem", "tfile", "enospc"}
  MaxCalls = 3
INVARIANTS PiecesInOrder LocksInHandlers
CHECK_DEADLOCK FALSE
