SPECIFICATION Spec
CONSTANTS
  g1 = g1  g2 = g2  f1 = f1  f2 = f2  f3 = f3
  main = main  shared = shared  other = other
  NoRun = NoRun  NoFinding = NoFinding
  FileOf <- MCFileOf
  Runs = {r1}
  Plan <- MCPlanTwo
  FindingsOf <- MCFindingsTwoGroups
  NameOf <- MCTwinNames
  MaxSuffix = 2
  Base <- MCFixBranchBase
  Leftovers <- MCTwinLeftovers
  Faults = {"pr_lookup", "push_late", "pr_late"}
  UserActs = {"merge", "delete"}
  Concurrent = FALSE
CHECK_DEADLOCK FALSE
INVARIANTS
  EveryGroupReported
