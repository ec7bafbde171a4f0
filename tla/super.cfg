SPECIFICATION Spec
CONSTANTS
  Threads = {t1, t2}
  Names <- MCNames
  Root = "root"
  ParentOf <- MCParentOf
  Lowers <- MCLowers
  NoLower = "null"
  Slots = {1, 2, 3, 4, 5, 6}
  NoSlot = 0
  InitLink <- MCLink
  Foreign = {"f"}
  Faults = {"nomem", "lower", "stale", "cold"}
  MaxOps = 3
  MountArgs = {"good", "missing", "nodir", "notfile", "noequals"}
  MaxMounts = 2
INVARIANTS TypeOK LowerInodesBalanced LowerPathsBalanced UpperInodesBalanced Coherent OneInode UnmountClean SuperInUse
PROPERTIES CallsReturn UnmountEnds
CHECK_DEADLOCK FALSE
