SPECIFICATION FairSpec
CONSTANTS
  root = root
  a = a
  b = b
  Root = root
  Dirs = {a}
  Parent <- MCOneDir
  Budgets <- MCBudgets
  MaxConnections = 2
  Capacity = 2
  DrainLimit = 1
  Backlog = 1
INVARIANTS
  EditsAreSeen
  SeenIsOwed
  RuntimeIsOwed
  FinishedMeansJoined
PROPERTIES
  QuietPeriodEnds
CHECK_DEADLOCK FALSE
