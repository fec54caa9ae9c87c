SPECIFICATION FairSpec
CONSTANTS
  MaxAttempts = 3
  MaxShocks = 4
INVARIANTS
  RestartOnce
  PublishedOnlyIfProven
  AuthorityIsExclusive
PROPERTIES
  ForeignRefsSurvive
  DeploymentConcludes
CHECK_DEADLOCK FALSE
