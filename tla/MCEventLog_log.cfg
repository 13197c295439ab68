SPECIFICATION Spec
CONSTANTS
  Event = {e1, e2, e3, e4}
  Garbage = Garbage
CHECK_DEADLOCK FALSE
INVARIANTS
  Readable
PROPERTIES
  Implements
