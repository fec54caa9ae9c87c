SPECIFICATION Spec
CONSTANTS
  NumOps = 1
  Edits = {"edit"}
  MaxAttempts = 2
  MaxEdits = 1
  MaxCrashes = 1
INVARIANT
  VerifiedReplacedBaseline
CHECK_DEADLOCK FALSE
