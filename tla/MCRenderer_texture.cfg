SPECIFICATION Spec
CONSTANTS
  wrl = wrl
  obj = obj
  inMemory = inMemory
  None = None
  Files <- MCFiles
  Wrl <- MCWrl
  Textured <- MCTextured
  Meshes <- MCMeshes
  Unsound <- MCUnsound
  Hollow <- MCHollow
  MaxVersion = 2
PROPERTY SameResults
