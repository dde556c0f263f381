SPECIFICATION Spec
CONSTANTS
  Bonds = {"bond"}
  Expires <- MCExpires
  Limit <- MCLimit
  FailScore = 3
  MissScore = 2
  CancelScore = 2
  PenaltyThreshold = 3
  Overlap = FALSE
  MaxOutcomes = 2
  MaxConnects = 2
  MaxRequests = 1
  MaxCrashes = 1
  MaxTime = 1
INVARIANTS   AnswerIsHeard
PROPERTIES  AwayIsUnbooked
CHECK_DEADLOCK FALSE
