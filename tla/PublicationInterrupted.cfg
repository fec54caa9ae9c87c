CONSTANTS
  Cases <- MCCases
  Trees = {t1, t2}
  MaxCommits = 3
  MaxAttempts = 2
  MaxFaults = 1
  MaxForeign = 1
  MaxRows = 2
  MaxHorizon = 2
SPECIFICATION Spec
INVARIANT OwnPushIsRecovered
CHECK_DEADLOCK FALSE
