SPECIFICATION FairSpec
CONSTANTS
  Ids = {o1}
  Clients = {c1}
  Recons = {main, feeder}
  Main = main
  None = None
  Quantities = {1}
  MaxPosition = 1
  InPlace = TRUE
  Foreign = {o1}
  Faults = {"lost_ack", "feed_loss"}
  MaxAmends = 1
  MaxAppendFails = 0
  MaxCrashes = 1
CHECK_DEADLOCK FALSE
PROPERTIES
  CallsEnd
  Serves
  PendingResolved
