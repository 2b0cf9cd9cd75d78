SPECIFICATION Spec
CONSTANTS
  j1 = j1
  j2 = j2
  f1 = f1
  f2 = f2
  u1 = u1
  NoJob = NoJob
  Jobs <- MCOneJob
  Files <- MCFiles
  Edits <- MCNoEdits
  UserActs <- MCNoActs
  MaxCancels = 2
  Fails <- MCNoFails
CHECK_DEADLOCK FALSE
INVARIANTS
  CancelRestores
