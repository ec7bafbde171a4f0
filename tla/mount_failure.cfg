SPECIFICATION Spec
CONSTANTS
  Threads = {t1}
  Names <- MCNames
  Root = "root"
  ParentOf <- MCParentOf
  Lowers <- MCLowers
  NoLower = "null"
  Slots = {1, 2}
  NoSlot = 0
  InitLink <- MCLink
  Foreign = {"f"}
  Faults = {}
  MaxOps = 0
  MountArgs = {"good", "missing", "nodir"}
  MaxMounts = 1
INVARIANT MountReturns
CHECK_DEADLOCK FALSE
