SPECIFICATION Spec
CONSTANTS
  c1 = c1
  c2 = c2
  c3 = c3
  r1 = r1
  r2 = r2
  r3 = r3
  Ids = {0, 1}
  Pool <- MCPool
  Conns = {c1, c2, c3}
  Requests = {r1, r2, r3}
  Owner <- MCOwner
  Characters = {n1, n2}
  None = None
INVARIANTS
  IdsNotShared
  OneBodyPerCharacter
  AnswersItsConnection
  ClaimsHaveHolders
PROPERTY
  RefinesClaim
CHECK_DEADLOCK FALSE
