SPECIFICATION SourceSpec
CONSTANTS
  Callers = {c1}
  FailureThreshold = 2
  MaxRetries = 1
  Runs = {r1}
  Ttl = 1
  None = None
  Settings <- MCSettings
INVARIANT
  LiveIsNeverFixture
CHECK_DEADLOCK FALSE
