SPECIFICATION FairSpec
CONSTANTS
  Callers = {h, c}
  Handler = h
  MaxCalls = 2
  MaxSessions = 2
CHECK_DEADLOCK FALSE
INVARIANTS
  TypeOK
  NobodyStranded
  OneOutcome
  NoLeak
  HandlerUpToDate
  StopIsClean
PROPERTIES
  StopEnds
