SPECIFICATION Spec
CONSTANTS
  a = a
  b = b
  c = c
  Slave <- SlaveSet
  Partitions = 2
  MaxTime = 4
CHECK_DEADLOCK FALSE
INVARIANTS TypeOK FaultyIsGone RoundsWaitForAll
PROPERTIES EverybodyEnds
