SPECIFICATION SearchSpec
CONSTANTS
  Worker = {w1, w2}
  NoWorker = NoWorker
  Node <- Short
  Top = 0
  Parent <- ShortParent
  Ending <- ShortEnding
  Cycle <- ShortCycle
  OutOfOrder = FALSE
  MaxLimit = 2
  MaxPlayouts = 4
  MaxCollisions = 2
  MaxMoves = 1
  MayClear = FALSE
CHECK_DEADLOCK FALSE
PROPERTY AllPlayoutsMade
