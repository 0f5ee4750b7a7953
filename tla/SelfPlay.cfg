SPECIFICATION SelfPlaySpec
CONSTANTS
  Worker = {w1, w2}
  TotalGames = 2
  Openings = 1
  Mirrored = TRUE
  ShareTree = FALSE
  PlyLimit = 1
  Games = 3
  UseValue = FALSE
  MovesPerGame = 2
  BatchCapacity = 3
  LongestGame = 4
  p1 = p1  p2 = p2  p3 = p3
  Position = {p1, p2, p3}
  HashOf <- Hashes
  MovesOf <- Moves
  Address = {a1, a2, a3, a4}
  Null = Null
  Thread = {t1, t2}
  Computation = {c1}
  Of <- OneBatch
  SplitThread = t1
  MaxBatch = 2
  BatchLimit = 2
  Asked <- Questions
  Sizes = {0, 1}
SYMMETRY Symmetries
CHECK_DEADLOCK FALSE
INVARIANTS TournamentInv MultiGamesInv MemCacheInv
PROPERTIES NoSearchInAMovingTree CachedValuesStay
