SPECIFICATION FairSpec
CONSTANTS
  discovery = discovery  injection = injection
  headers = headers  osv = osv  review = review
  f1 = f1  f2 = f2  f3 = f3 
  Scanners <- MCScanners
  Phases <- MCPhases
  Flaws = {f1, f2, f3}
  ScannerOf <- MCScannerOf
  Cooperative = {injection}
  Skipping = {osv, review}
  MaxEmits <- MCMaxEmits
CHECK_DEADLOCK FALSE
INVARIANTS
  ReportTrue
  VerdictHonest
PROPERTIES
  QuietAfterStop
  ScanEnds
