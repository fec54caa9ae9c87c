CONSTANTS
  Cases <- MCCases
  Trees = {t1, t2}
  MaxCommits = 3
  MaxAttempts = 2
  MaxFaults = 1
  MaxForeign = 1
  MaxRows = 2
  MaxHorizon = 2
SPECIFICATION FairSpec
INVARIANTS
  BaselineDescribesBranch
PROPERTIES
  MainOnlyGrows
  NeverDropsForeign
  RetentionFollowsPlan
  ReplacementIsFinished
CHECK_DEADLOCK FALSE
