SPECIFICATION Spec
CONSTANTS
  Position <- Positions
  Startpos = "startpos"
  NoPosition = NoPosition
  Backend <- OneBackend
  NoBackend = NoBackend
  Policy <- Policies
INVARIANT CacheFitsBackend
CHECK_DEADLOCK FALSE
