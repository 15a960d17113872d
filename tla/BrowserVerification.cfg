\* One session with two attempts, one assertion and two recoveries; three artifacts over
\* four ticks; two journeys; three proposals.
SPECIFICATION Spec
CONSTANTS
  Null = Null
  Thrown = Thrown
  Obligation = {ob}
  MaxRecovery = 2
  ClassUsed <- MCClasses
  MaxAttempts = 2
  MaxAssertions = 1
  Artifact = {1, 2, 3}
  TraceArtifact = {1, 2}
  MaxAge = 2
  MaxArtifacts = 2
  MaxBytes = 3
  MaxSize = 2
  MaxTime = 4
  Key = {key1, key2}
  Value = {v1, v2}
  Path = {p1, p2}
  Journey = {j1, j2}
  Obligations = {ob}
  MaxRecoveryActions = 1
  MaxRetries = 1
  Rejected = Rejected
  MaxProposals = 2
  MaxToolCalls = 2
  MaxAsked = 3
SYMMETRY MCSymmetry
INVARIANTS GreenIsEarned RecordsReread ExplorationGrounded
PROPERTIES PassedIsCurrent RetentionHolds
CHECK_DEADLOCK FALSE
