SPECIFICATION Spec
CONSTANTS
  g1 = g1
  g2 = g2
  g3 = g3
  uri = uri
  NoUri = NoUri
  NoMesh = NoMesh
  Guids <- MCGuids
  Uris = {uri}
  Mesh <- MCMesh
  Lights = {g2}
  Attrs = {"position", "orientation"}
  MaxInstances = 3
  MaxUpdates = 2
  MaxBatch = 2
INVARIANTS
  LatestKept
  SceneFollowsRegistry
  MeshesShown
PROPERTIES
  CatchesUp
CHECK_DEADLOCK FALSE
