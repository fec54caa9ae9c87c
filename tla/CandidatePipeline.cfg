SPECIFICATION Spec
CONSTANTS
  Candidates = {c1, c2}
  MaxAttempts = 2
  MaxInterruptions = 1
  MaxRetries = 1
SYMMETRY CandidateSymmetry
INVARIANTS
  StagesInOrder
  SettledTogether
PROPERTIES
  CandidateProtocolSpec
