SPECIFICATION DeathSpec
CONSTANTS
  Session = s
  Closer = c
  Killers = {k1}
  Tiles <- MCTiles
  SectorOf <- MCSectorOf
  Origin = 0
  Spawn <- MCSpawn
  MaxOps = 4
INVARIANTS
  ExactUnlessStale
CHECK_DEADLOCK FALSE
