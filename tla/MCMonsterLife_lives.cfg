SPECIFICATION MonsterFairSpec
CONSTANTS
  Attackers = {a1}
  Viewers = {v1, v2}
  Brains = {b1}
  Spawners = {w1}
  Tiles = {0, 1}
  SpawnTile = 0
  MaxHp = 2
  MaxLives = 2
  MaxViews = 2
  MaxFull = 1
INVARIANTS
  OneChainUnlessRaced
  ExactUnlessRaced
  SeenIsActive
PROPERTY
  ComesBack
CHECK_DEADLOCK FALSE
