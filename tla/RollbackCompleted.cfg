SPECIFICATION FairSpec
CONSTANTS
  MaxAttempts = 3
  MaxApplies = 1
  MaxShocks = 1
PROPERTY
  CompletedSucceeds
CHECK_DEADLOCK FALSE
