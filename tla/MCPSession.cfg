SPECIFICATION Spec
CONSTANTS
  file1 = file1
  file2 = file2
  file3 = file3
  noLine = noLine
  NumFlaws = 7
  ScannerOf <- MCScannerOf
  CategoryOf <- MCCategoryOf
  TitleOf <- MCTitleOf
  WordingOf <- MCWordingOf
  RowOf <- MCRowOf
  Collapsing = {"exposed_secrets"}
  LLMScanners = {"llm_code_reviewer"}
  Reviewer = "llm_code_reviewer"
  SastOnly = {"static_injection_analyzer", "secret_scanner"}
  Semgrep = "semgrep_taint"
  NoLine = noLine
  Files = {file1, file2, file3}
  Home <- MCHome
  LineOf <- MCLineOf
  SeverityOf <- MCSeverityOf
  Initially = {1, 2, 4, 5}
  SCAN_CACHE_MAX = 2
  JOBS_MAX = 1
  MaxCalls = 2
  MaxEvents = 2
  MaxMishaps = 1
INVARIANTS
  ResolvedIsGone
  GradeOnlyByFixing
  HandlesWork
CHECK_DEADLOCK FALSE
