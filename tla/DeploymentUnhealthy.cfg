SPECIFICATION FairSpec
CONSTANTS
  MaxAttempts = 2
  MaxShocks = 0
PROPERTY
  UnhealthyIsRolledBack
CHECK_DEADLOCK FALSE
