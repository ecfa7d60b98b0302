SPECIFICATION FairSpec
CONSTANTS
  Sessions = {s1, s2}
  NeedExp = 1
  MaxLevel = 4
  Rewards <- MCRewards
  MaxSaves = 1
  MaxChanges = 2
  First <- MCFirst
  Playing = s1
  Timer = timer
  Main = main
  Nobody = Nobody
INVARIANTS
  SavedUnlessRaced
  DrainedWhenReturned
  RowLegal
PROPERTY
  ShutdownReturns
CHECK_DEADLOCK FALSE
