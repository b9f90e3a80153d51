SPECIFICATION DoCalibSpec
CONSTANTS
  MaxThrown = 2
  Width = 4
  Height = 6
  Given <- MCGiven
  Objects <- MCObjects
  Found3D <- MCFound
INVARIANTS
  DoCalibTypeOK
  BuffersReleased
  ErrorsAreOwn
  ResultsAreOwn
  KeptIfDrawn
  TurnedFaces
  DrawnAsSeen
