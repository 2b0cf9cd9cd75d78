SPECIFICATION Spec
CONSTANTS
  g1 = g1  g2 = g2  f1 = f1  f2 = f2  f3 = f3
  main = main  shared = shared  other = other
  NoRun = NoRun  NoFinding = NoFinding
  FileOf <- MCFileOf
  Runs = {r1, r2, r3}
  Plan <- MCPlanOne
  FindingsOf <- MCFindingsTwoFixes
  NameOf <- MCNameOf
  MaxSuffix = 3
  Base = main
  Leftovers <- MCAllLeftovers
  Faults = {"commit_late"}
  UserActs = {"merge", "squash", "close"}
  Concurrent = FALSE
CHECK_DEADLOCK FALSE
INVARIANTS
  NoDuplicatePR
  OrphansTold
  OneFixPerCommit
PROPERTIES
  ExistingNeverReused
