SPECIFICATION Spec
CONSTANTS
  Objects = {a, b}
  Careless = {x}
  InvalidId = InvalidId
  MapWidth = 4
  MapHeight = 1
  SectorSize = 2
  MaxRadius = 1
  Walls <- MCWalls
  Readers = {r}
INVARIANTS
  AtRest
  NearbyComplete
PROPERTY
  RefinesOccupancy
SYMMETRY Symmetry
