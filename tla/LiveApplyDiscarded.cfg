SPECIFICATION Spec
CONSTANTS
  NumOps = 1
  Edits = {"edit"}
  MaxAttempts = 2
  MaxEdits = 2
  MaxCrashes = 0
INVARIANT
  DiscardsNoEdit
CHECK_DEADLOCK FALSE
