SPECIFICATION Spec
CONSTANTS
  Paths <- MCPaths
  Top = "/"
  ParentOf <- MCParentOf
  Already <- MCAlready
  Contents = {"x", "y"}
  NoContent = "null"
  Junk = "junk"
  Garbled = "garbled"
  Misfit = {"y", "m"}
  Argvs <- MCArgvs
  MaxFds = 6
  Handles = {1, 2}
  PathLen <- MCPathLen
  Menus <- MCMenus
INVARIANTS TypeOK Reproduced ReturnsSame StrictStops PrintOnly
PROPERTIES TreplayEnds
CHECK_DEADLOCK FALSE
