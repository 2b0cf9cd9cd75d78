SPECIFICATION FairSpec
CONSTANTS
  c1 = c1
  c2 = c2
  Clients <- MCTwoClients
  ScanClients <- MCOneClient
  MAX_RETAINED_SCANS = 1
  MAX_RETAINED_FIX_JOBS = 0
  MAX_CONCURRENT_FIX_JOBS = 2
  ServerKey = FALSE
  MaxScans = 2
  MaxJobs = 2
  MaxEvents = 1
  MaxTimers = 2
CHECK_DEADLOCK FALSE
INVARIANTS
  StoresBounded
  KeyForgotten
  DoneMeansAll
PROPERTIES
  WatchedNotAbandoned
  AbandonedStops
  StreamsEnd
