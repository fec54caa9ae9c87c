SPECIFICATION Spec
CONSTANTS
  MaxAttempts = 3
  MaxApplies = 2
  MaxShocks = 0
PROPERTY
  RejectedStaysRejected
CHECK_DEADLOCK FALSE
