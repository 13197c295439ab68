SPECIFICATION AuditSpec
CONSTANTS
  Ids = {o1}
  Clients = {c1, c2}
  Recons = {main, feeder}
  Main = main
  None = None
  Quantities = {1, 2}
  MaxPosition = 2
  InPlace = FALSE
  Foreign = {}
  Faults = {"lost_ack"}
  MaxAmends = 1
  MaxAppendFails = 0
  MaxCrashes = 0
  kMaxDiscoveredLegNotes = 1
SYMMETRY ClientSymmetry
CHECK_DEADLOCK FALSE
INVARIANTS
  DriftReported
  AlarmsMeanLoss
  NoZombieUnlessLost
