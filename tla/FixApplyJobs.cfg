SPECIFICATION FairSpec
CONSTANTS
  j1 = j1
  j2 = j2
  f1 = f1
  f2 = f2
  u1 = u1
  NoJob = NoJob
  Jobs <- MCTwoJobs
  Files <- MCFiles
  Edits <- MCNoEdits
  UserActs <- MCNoActs
  MaxCancels = 1
  Fails <- MCReadFails
CHECK_DEADLOCK FALSE
INVARIANTS
  RepositoryRestored
PROPERTIES
  PromiseKept
  JobsEnd
