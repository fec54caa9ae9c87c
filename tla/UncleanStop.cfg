SPECIFICATION Spec
CONSTANTS
  root = root
  a = a
  b = b
  Root = root
  Dirs = {a}
  Parent <- MCOneDir
  Budgets <- MCStops
  MaxConnections = 2
  Capacity = 2
  DrainLimit = 1
  Backlog = 1
INVARIANTS
  StopReachesWorkers
CHECK_DEADLOCK FALSE
