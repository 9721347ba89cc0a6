SPECIFICATION Spec
CONSTANTS
  Initials = {p}
  Edges = {f}
  Designs <- LongDesigns
  MaxTime = 2
  DeltaLimit = 3
  ZeroCap = 2
  Interval = 2
INVARIANTS NothingLost
