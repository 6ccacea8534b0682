SPECIFICATION Spec
CONSTANTS
  Threads = {t1, t2}
  Contents <- MCContents
  Parts = {"pump", "seal"}
  Requests <- MCRequests
  Answers <- MCAnswers
  Family <- MCFamily
  None = None
  MaxEdits = 1
  MaxChecks = 2
SYMMETRY Swap
INVARIANTS
  TypeOK
  CachesAreCurrent
  CleanIsInStock
  KnownPartIsFound
  OnlyABrokenFileRaises
CHECK_DEADLOCK FALSE
