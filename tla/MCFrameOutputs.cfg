SPECIFICATION DrawingSpec
CONSTANTS
  Sizes <- MCSizes
  DistanceInc = 2
  MaxAngle <- MCMaxAngle
  MaxDistance = 2
CHECK_DEADLOCK FALSE
INVARIANTS
  TypeOK
  SamePixelEverywhere
  PositionsWhereDepth
  FileHoldsTheFrame
  PrintedIsShown
