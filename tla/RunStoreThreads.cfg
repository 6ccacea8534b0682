SPECIFICATION Spec
CONSTANTS
  Runs = {r1, r2}
  Threads = {t1, t2}
  MaxRequests = 4
  MaxAges = 1
  MaxCrashes = 0
  MaxFaults = 0
  TerminalCheckpointThreshold = 2
INVARIANTS
  FiledIsApproved
  NoPhantomTicket
PROPERTY
  NeverWaitsAgain
CHECK_DEADLOCK FALSE
