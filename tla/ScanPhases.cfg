SPECIFICATION Spec
CONSTANTS
  x1 = x1
  x2 = x2
  Flaws <- MCFlaws
  Severe <- MCSevere
  Finders <- MCFinders
  Requests <- MCRequests
  MaxFindings = 2
  MaxFailures = 1
CHECK_DEADLOCK FALSE
INVARIANTS
  ScannersInPlace
  FindingsAccounted
  CleanBillEarned
