SPECIFICATION FairSpec
CONSTANTS
  Half = 8
  Requests <- Lines
  MaxAsks = 3
INVARIANTS
  FramesAligned
PROPERTIES
  ImplementsCalc
  AnswersOrEnds
CHECK_DEADLOCK FALSE
