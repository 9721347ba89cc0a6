SPECIFICATION Spec
CONSTANTS
  a = a
  b = b
  Input <- InputSet
  MaxTime = 2
  MaxRounds = 3
CHECK_DEADLOCK FALSE
INVARIANTS TypeOK ExchangeSound
PROPERTIES NoMutualWait
