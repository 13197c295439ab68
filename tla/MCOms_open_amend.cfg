SPECIFICATION Spec
CONSTANTS
  Ids = {o1, o2}
  Clients = {c1, c2}
  Recons = {main}
  Main = main
  None = None
  Quantities = {1, 2}
  MaxPosition = 2
  InPlace = TRUE
  Foreign = {}
  Faults = {}
  MaxAmends = 1
  MaxAppendFails = 0
  MaxCrashes = 0
SYMMETRY ClientSymmetry
CHECK_DEADLOCK FALSE
INVARIANTS
  PositionWithinLimit
