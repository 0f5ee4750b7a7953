SPECIFICATION Spec
CONSTANTS
  Starts <- MCStarts
  Format <- MCFormats
CHECK_DEADLOCK FALSE
INVARIANT MovesFollowThePlanes
