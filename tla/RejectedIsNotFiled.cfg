SPECIFICATION Spec
CONSTANTS
  Runs = {r1}
  Threads = {t1, t2}
  MaxRequests = 3
  MaxAges = 0
  MaxCrashes = 0
  MaxFaults = 0
  TerminalCheckpointThreshold = 2
INVARIANT
  RejectedIsNotFiled
CHECK_DEADLOCK FALSE
