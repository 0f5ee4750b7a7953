SPECIFICATION FairSpec
CONSTANTS
  Position <- Positions
  Startpos = "startpos"
  NoPosition = NoPosition
  Backend <- OneBackend
  NoBackend = NoBackend
  Policy <- Policies
CHECK_DEADLOCK FALSE
INVARIANT EngineInv
PROPERTIES SetupIsStable AnswersAreAsked NobodyWaitsForEver
