SPECIFICATION Spec
CONSTANTS
  p = p
  q = q
  Processes <- ProcessSet
  Branches = 4
  Width = 2
  Length = 3
  Designs <- NestedDesigns
SYMMETRY Symmetry
INVARIANTS JoinSound
