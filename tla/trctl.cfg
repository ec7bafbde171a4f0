SPECIFICATION Spec
CONSTANTS
  Procs = {p1, p2}
  Commands <- MCCommands
  InitMasks <- MCMasks
  Garbage <- MCGarbage
INVARIANTS MaskInRange OptionsExact OnlyNamedBitsChange
CHECK_DEADLOCK FALSE
