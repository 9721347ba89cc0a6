SPECIFICATION Spec
CONSTANTS
  p = p
  q = q
  r = r
  d = d
  a = a
  b = b
  x = x
  y = y
  Process <- ProcessSet
  Item <- ItemSet
  Path <- Paths
  Driver <- d
  Sizes <- SizesGiven
  Thresholds <- ThresholdsGiven
  MaxQueue = 2
  None = None
  Wildcard = Wildcard
  Designs <- AllDesigns
CHECK_DEADLOCK FALSE
INVARIANTS TypeOK NoLostWakeup
PROPERTIES ImplementsBuffer BarrierMeets FinishSound HandshakeCompletes
