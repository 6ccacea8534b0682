SPECIFICATION SourceFairSpec
CONSTANTS
  Callers = {c1, c2}
  FailureThreshold = 2
  MaxRetries = 1
  Runs = {r1}
  Ttl = 1
  None = None
  Settings <- MCSettings
INVARIANTS
  SourceTypeOK
  FailuresBounded
  VerdictIsRecent
  LiveAsksTheSource
PROPERTY
  Recovers
CHECK_DEADLOCK FALSE
