SPECIFICATION Spec
CONSTANTS
  Cols = 5
  Rows = 3
  Walls <- MCWalls
  MaxNodes = 7
  Players = {p1, p2}
  Spawn <- MCSpawn
  HalfView = 3
  HalfAgro = 2
  RoamingRange = 1
  Entries <- MCEntries
  MaxMoves = 3
  Nobody = Nobody
INVARIANTS
  ShortestOrNone
  HitsWhoStoodBeside
PROPERTIES
  LetsGo
  Catches
CHECK_DEADLOCK FALSE
