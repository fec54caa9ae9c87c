SPECIFICATION Spec
CONSTANTS
  root = root
  a = a
  b = b
  Root = root
  Dirs = {a, b}
  Parent <- MCParent
  Budgets <- MCMoves
  MaxConnections = 2
  Capacity = 2
  DrainLimit = 1
  Backlog = 1
INVARIANTS
  ReplacementIsWatched
CHECK_DEADLOCK FALSE
