SPECIFICATION FaultySpec
CONSTANTS
  Event = {e1, e2, e3}
  Garbage = Garbage
CHECK_DEADLOCK FALSE
INVARIANTS
  Readable
