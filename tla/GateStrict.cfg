SPECIFICATION FairSpec
CONSTANTS
  EnableWeatherPol = TRUE
  HitlRequiredOnConflict = TRUE
  Requests <- MCRequests
  RagResults <- MCRagResults
  PartsResults <- MCPartsResults
  Confirmations <- MCConfirmations
  EngineStrict = TRUE
  FileOutbox = FALSE
  RecursionLimit = 25
  MaxFaults = 1
INVARIANTS
  TypeOK
  GatedTickets
  ChiefsNoHolds
  AskIsEnough
  ApprovalIsHonoured
  RetriesBounded
PROPERTY
  Rests
CHECK_DEADLOCK FALSE
