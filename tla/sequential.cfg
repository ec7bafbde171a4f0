SPECIFICATION Spec
CONSTANTS
  Threads = {t1}
  NoPath = NoPath
  Dirs <- MCDirs
  Paths <- MCPaths
  DirOf <- MCDirOf
  PathLen <- MCLen
  Calls <- AllCalls
  Masks <- AllMasks
  TfileDir = "tmp"
  Faults = {"interpose", "negative"}
  MaxCalls = 2
INVARIANTS TypeOK RecordedErrReturned AllOrNothing
PROPERTIES ImplementsTraceLog
CHECK_DEADLOCK FALSE
