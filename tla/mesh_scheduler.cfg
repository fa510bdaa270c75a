SPECIFICATION FairSpec
CONSTANTS
  Coords = {1, 2}
  Near <- Row
  Contents = {v1, v2}
  Invisible = {v2}
  Workers = 2
  MaxPending = 4
  MaxResults = 2
  MaxDispatches = 2
  MaxRevision = 4
  MaxGeneration = 1
  Absent = Absent
  Clean = Clean
  NoMesh = NoMesh
  NoJob = NoJob
INVARIANTS TypeOK CleanMeshIsCurrent
PROPERTIES MeshOnlyGetsCurrent Settles
CHECK_DEADLOCK FALSE
