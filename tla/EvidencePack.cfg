SPECIFICATION Spec
CONSTANTS
  Commits <- MCCommits
  Works <- MCWorks
  Sources <- MCSources
  Disks <- MCDisks
  MaxScripts = 2
  None = None
  Torn = Torn
INVARIANTS
  TypeOK
  ClaimsAreEarned
  SnapshotClaimsNothing
  ScorecardIsCurrent
  LiveClaimIsBacked
CHECK_DEADLOCK FALSE
