SPECIFICATION FairSpec
CONSTANTS
  Runs = {r1, r2}
  Threads = {t1}
  MaxRequests = 4
  MaxAges = 2
  MaxCrashes = 2
  MaxFaults = 1
  TerminalCheckpointThreshold = 2
INVARIANTS
  TypeOK
  RejectedIsNotFiled
  WaitingIsResumable
  NoPhantomTicket
PROPERTIES
  HealthyStart
  RequestsAreAnswered
  ImplementsLifecycle
CHECK_DEADLOCK FALSE
