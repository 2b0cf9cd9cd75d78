SPECIFICATION Spec
CONSTANTS
  g1 = g1  g2 = g2  f1 = f1  f2 = f2  f3 = f3
  main = main  shared = shared  other = other
  NoRun = NoRun  NoFinding = NoFinding
  FileOf <- MCFileOf
  Runs = {r1, r2}
  Plan <- MCPlanOne
  FindingsOf <- MCFindingsTwoFixes
  NameOf <- MCTwinNames
  MaxSuffix = 2
  Base <- MCFixBranchBase
  Leftovers <- MCBaseLeftover
  Faults = {"precheck", "pr_lookup", "reset", "commit_late", "push_late", "pr_late"}
  UserActs = {"merge", "squash", "close", "delete"}
  Concurrent = TRUE
CHECK_DEADLOCK FALSE
INVARIANTS
  BaseOnlyByReview
  CountsBacked
  IInv
PROPERTIES
  ProposesFixes
