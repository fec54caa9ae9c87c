CONSTANTS
  r1 = r1
  r2 = r2
  Requests <- MCRequests
  Generations = {g1, g2, g3}
  Contents = {c1, c2}
  Plans <- MCPlans
  MaxAttempts = 2
  MaxTries = 2
  MaxFaults = 2
  MaxForeign = 1
  MaxCrashes = 1
SPECIFICATION Spec
INVARIANTS
  RecordDescribesDirectories
  ActiveIsProven
  CrashNeverStrandsActivation
  ReceiptsAreTrue
  InitializedOnce
PROPERTIES
  KeysAreKept
CHECK_DEADLOCK FALSE
