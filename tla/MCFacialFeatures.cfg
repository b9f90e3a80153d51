SPECIFICATION Spec
CONSTANTS
  portrait = portrait
  landscape = landscape
  missing = missing
  crop = crop
  whole = whole
  Garbage = Garbage
  Images <- MCImages
  Size <- MCSize
  Detected <- MCDetected
  Landmarks <- MCLandmarks
  EyeHits <- MCEyeHits
  SmileHits <- MCSmileHits
  Crop = crop
  Whole = whole
  Points <- MCPoints
  Found <- MCFound
  MaxCalls = 4
INVARIANTS
  TypeOK
  DescriptorsCorrespond
  MatchesStayInRange
  AskedIsWritten
  OnlyEyesThrow
  RegionsFit
PROPERTIES
  CallsReturn
  StoresBatches
