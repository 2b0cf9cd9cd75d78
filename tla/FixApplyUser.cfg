SPECIFICATION FairSpec
CONSTANTS
  j1 = j1
  j2 = j2
  f1 = f1
  f2 = f2
  u1 = u1
  NoJob = NoJob
  Jobs <- MCOneJob
  Files <- MCFiles
  Edits <- MCOneEdit
  UserActs <- MCAllActs
  MaxCancels = 2
  Fails <- MCUserFails
CHECK_DEADLOCK FALSE
INVARIANTS
  ReportedFixesCommitted
  EditsSurvive
PROPERTIES
  UserBranchUntouched
