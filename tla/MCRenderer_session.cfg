SPECIFICATION Spec
CONSTANTS
  wrl = wrl
  obj = obj
  inMemory = inMemory
  None = None
  Files <- MCFiles
  Wrl <- MCWrl
  Textured <- MCTextured
  Meshes <- MCMeshes
  Unsound <- MCUnsound
  Hollow <- MCHollow
  MaxVersion = 2
INVARIANTS
  TypeOK
  CleanCacheIsExact
  CacheEntryCoherent
  CachedTexturesFit
  NoViewerLeaks
  OkShowsTheName
PROPERTIES
  EveryCallReturns
  FirstDrawingBindsTheName
