SPECIFICATION ViewSpec
SYMMETRY Symmetric
CONSTANTS
  Players = {p1, p2}
  Monsters = {m}
  Places = {0, 1, 2}
  HalfView = 1
  Spawn = {0}
  Corner = 0
  MaxOps = 4
INVARIANTS
  ShowsWhatIsInView
CHECK_DEADLOCK FALSE
