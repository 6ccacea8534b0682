SPECIFICATION Spec
CONSTANTS
  EnableWeatherPol = TRUE
  HitlRequiredOnConflict = TRUE
  Requests <- MCRequests
  RagResults <- MCRagResults
  PartsResults <- MCPartsResults
  Confirmations <- MCConfirmations
  EngineStrict = TRUE
  FileOutbox = TRUE
  RecursionLimit = 25
  MaxFaults = 0
INVARIANT
  FiledRunIsNotFailed
CHECK_DEADLOCK FALSE
