SPECIFICATION FairSpec
CONSTANTS
  EnableWeatherPol = TRUE
  HitlRequiredOnConflict = TRUE
  Requests <- MCRequests
  RagResults <- MCRagResults
  PartsResults <- MCPartsResults
  Confirmations <- MCConfirmations
  EngineStrict = FALSE
  FileOutbox = TRUE
  RecursionLimit = 13
  MaxFaults = 1
INVARIANTS
  GatedTickets
  NoPhantomTicket
  ApprovalIsHonoured
PROPERTIES
  DecisionStands
  Rests
CHECK_DEADLOCK FALSE
