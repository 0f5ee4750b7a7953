SPECIFICATION Spec
CONSTANTS
  Starts <- MCStarts
  Format <- MCFormats
CHECK_DEADLOCK FALSE
INVARIANTS MovesAreTheLegalOnes BoardTellsTheGame DrawsAreFound
           PlanesTellTheGame GameIsReadBack
