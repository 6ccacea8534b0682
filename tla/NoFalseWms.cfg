SPECIFICATION Spec
CONSTANTS
  Threads = {t1}
  Contents <- MCContents
  Parts = {"pump", "seal"}
  Requests <- MCRequests
  Answers <- MCAnswers
  Family <- MCFamily
  None = None
  MaxEdits = 1
  MaxChecks = 1
INVARIANT NoFalseWms
CHECK_DEADLOCK FALSE
