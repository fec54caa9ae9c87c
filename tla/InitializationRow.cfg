CONSTANTS
  r1 = r1
  r2 = r2
  Requests <- MCRequests
  Generations = {g1}
  Contents = {c1}
  Plans <- MCOperatorPlans
  MaxAttempts = 2
  MaxTries = 2
  MaxFaults = 2
  MaxForeign = 1
  MaxCrashes = 1
SPECIFICATION Spec
INVARIANT RowsAreReadable
CHECK_DEADLOCK FALSE
