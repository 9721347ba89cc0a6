SPECIFICATION Spec
CONSTANTS
  Event = {e1, e2}
  W = 2
  MaxTime = 13
  MaxOffset = 7
SYMMETRY Symmetry
CHECK_DEADLOCK FALSE
PROPERTY ImplementsEventQueue
INVARIANTS
  TypeOK
  StoredExact
  OnSchedule
  SameLevelFifo
