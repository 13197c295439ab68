SPECIFICATION RoutesSpec
CONSTANTS
  Ids = {o1}
  Clients = {c1}
  Recons = {main, feeder}
  Main = main
  None = None
  Quantities = {1, 2, 3}
  MaxPosition = 2
  InPlace = TRUE
  Foreign = {}
  Faults = {"lost_ack", "late_request", "feed_loss", "venue_cancel"}
  MaxAmends = 1
  MaxAppendFails = 1
  MaxCrashes = 1
CHECK_DEADLOCK FALSE
INVARIANTS
  AtMostOnePlace
  NotForgotten
  DiskAgrees
PROPERTIES
  NeverRegresses
  AnswersStable
  CanceledIsFinal
