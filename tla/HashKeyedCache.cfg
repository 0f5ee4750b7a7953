SPECIFICATION Spec
CONSTANTS
  Key <- Keys
  Value = {v1, v2, v3, v4, v5}
  NoValue = NoValue
  Client = {c1, c2}
  Capacities <- Sizes
SYMMETRY Symmetries
CHECK_DEADLOCK FALSE
INVARIANT CacheInv
PROPERTY IsPinnedFifo
