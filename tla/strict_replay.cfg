SPECIFICATION Spec
CONSTANTS
  Paths <- MCPaths
  Top = "/"
  ParentOf <- MCParentOf
  Already <- MCAlready
  Contents = {"x", "y"}
  NoContent = "null"
  Junk = "junk"
  Garbled = "garbled"
  Misfit = {}
  Argvs <- StrictArgvs
  MaxFds = 6
  Handles = {1, 2}
  PathLen <- MCPathLen
  Menus <- StrictMenus
INVARIANT AbortsOnDeviation
CHECK_DEADLOCK FALSE
