SPECIFICATION FairSpec
CONSTANTS
  NumOps = 2
  Edits = {"edit"}
  MaxAttempts = 2
  MaxEdits = 2
  MaxCrashes = 1
INVARIANTS
  OneMutation
  WriterReplacedBaseline
  OutcomeBindsJournal
  EndIsExact
PROPERTIES
  ApplySettles
  ProtocolSpec
CHECK_DEADLOCK FALSE
