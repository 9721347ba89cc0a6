SPECIFICATION FairSpec
CONSTANTS
  Initials = {p, q}
  Edges = {f}
  Designs <- MCDesigns
  MaxTime = 3
  DeltaLimit = 3
  ZeroCap = 1
  Interval = 2
INVARIANTS TypeOK StepComplete OnlyZeroDelaysLost QuiescedIsOver CombSettled NoMissedEvent NoMissedWait
PROPERTIES Termination RevisitChangesNothing
