SPECIFICATION MCSpec
CONSTANTS
  Worker = {w1, w2}
  NoWorker = NoWorker
  Position <- Dag
  Starts <- DagStarts
  Board <- DagBoard
  Reply <- DagReply
  Ending <- DagEnding
  MaxBatch = 3
  MaxCollisions = 1
  MaxPlayouts = 9
  MaxSearches = 4
  MaxMoves = 3
  MayClear = TRUE
SYMMETRY WorkerSymmetry
CHECK_DEADLOCK FALSE
INVARIANTS GraphInv OneLowNodePerPosition BoundsAreTrue AssertionsHold
