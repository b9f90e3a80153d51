SPECIFICATION Spec
CONSTANTS
  near = near
  far = far
  beyond = beyond
  one = one
  two = two
  None = None
  Pixels <- MCPixels
  Outside <- MCOutside
  Photos <- MCPhotos
  Keypoints <- MCKeypoints
  Bytes <- MCBytes
  HeaderBytes = 2
  MaxRuns = 2
  Queries = {0, 1, 2}
  MinPoints = 2
INVARIANT PointsArePoints
