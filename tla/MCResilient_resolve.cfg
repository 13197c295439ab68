SPECIFICATION FairSpec
CONSTANTS
  Calls = {p, a, c}
  Venues = {"binance", "okx"}
  MaxAttempts = 2
  Values = {1, 2}
CHECK_DEADLOCK FALSE
INVARIANTS
  TypeOK
  PlacedOnce
  CanceledIsDead
PROPERTIES
  RefusedIsAbsent
  AmendInEffect
  CallsReturn
