SPECIFICATION Spec
CONSTANTS
  Ids = {o1}
  Clients = {c1, c2}
  Recons = {main, feeder}
  Main = main
  None = None
  Quantities = {2, 3}
  MaxPosition = 2
  InPlace = TRUE
  Foreign = {}
  Faults = {"lost_ack", "late_request", "venue_cancel"}
  MaxAmends = 2
  MaxAppendFails = 1
  MaxCrashes = 0
SYMMETRY ClientSymmetry
CHECK_DEADLOCK FALSE
INVARIANTS
  TypeOK
  PlaceOwnsRecord
  OneOpenCall
  Converged
  FillsCounted
