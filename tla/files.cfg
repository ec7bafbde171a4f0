SPECIFICATION Spec
CONSTANTS
  Threads = {t1, t2}
  Files <- MCFiles
  NoFile = "nofile"
  Dirs <- MCDirs
  MaxSize = 1
  MaxPos = 2
  IntRange = 4
  Faults = {"refused", "lower"}
  MaxMaps = 2
  MaxOps = 4
INVARIANTS TypeOK LowerFileBalanced LowerFileInUse MappedHasVmOps NoOops SizeAgrees PosAgrees
PROPERTIES ClosedIsReleased
CHECK_DEADLOCK FALSE
