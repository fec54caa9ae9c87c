SPECIFICATION FairSpec
CONSTANTS
  Candidates = {c1, c2}
  MaxAttempts = 2
  MaxInterruptions = 1
  MaxRetries = 0
PROPERTIES
  EveryCandidateSettles
