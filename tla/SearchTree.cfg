SPECIFICATION Spec
CONSTANTS
  Worker = {w1, w2}
  NoWorker = NoWorker
  Node <- Game
  Top = 0
  Parent <- GameParent
  Ending <- GameEnding
  Cycle <- GameCycle
  OutOfOrder = TRUE
  MaxLimit = 2
  MaxPlayouts = 4
  MaxCollisions = 2
  MaxMoves = 1
  MayClear = FALSE
SYMMETRY WorkerSymmetry
CHECK_DEADLOCK FALSE
INVARIANTS TreeInv BoundsAreTrue TwoFoldInsideSearch
