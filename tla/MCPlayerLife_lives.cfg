SPECIFICATION FairSpec
CONSTANTS
  Monsters = {m1, m2}
  Workers = {w1, w2}
  MaxHp = 3
  Damages = {1, 3}
  Regen = 1
  MaxHits = 3
INVARIANTS
  NoStuckDead
  OneTimerUntilDeath
PROPERTY
  Heals
CHECK_DEADLOCK FALSE
