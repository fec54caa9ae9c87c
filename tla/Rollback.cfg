SPECIFICATION FairSpec
CONSTANTS
  MaxAttempts = 3
  MaxApplies = 2
  MaxShocks = 2
INVARIANTS
  RestoreOnce
  ConclusionIsTrue
PROPERTY
  RollbackConcludes
CHECK_DEADLOCK FALSE
