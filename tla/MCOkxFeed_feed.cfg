SPECIFICATION FairSpec
CONSTANTS
  Patience = 3
  ReadTimeout = 6
  MaxInbox = 3
CHECK_DEADLOCK FALSE
INVARIANTS
  TypeOK
  ClientOutlivesUsers
  SilenceNoticed
PROPERTIES
  StopEnds
