SPECIFICATION FairSpec
CONSTANTS
  Threads = {t1, t2}
  NoPath = NoPath
  Dirs <- MCDirs
  Paths <- MCPaths
  DirOf <- MCDirOf
  PathLen <- MCLen
  Calls <- MixedCalls
  Masks <- AllMasks
  TfileDir = "f"
  Faults = {}
  MaxCalls = 3
INVARIANTS IdsCovered AllOrNothing SameDirInEffectOrder
PROPERTIES EveryCallReturns
CHECK_DEADLOCK FALSE
