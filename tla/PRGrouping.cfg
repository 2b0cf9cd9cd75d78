SPECIFICATION Spec
CONSTANTS
  Attr <- MCAttr
  NoFile = 0
  Strategies = {"per-category", "per-file", "per-finding", "single"}
  Caps = {1, 2}
  IdOrders <- MCIdOrders
  MAX_BRANCH_SUFFIX = 9
  Known = {1, 2, 3, 5}
  MaxCloses = 1
INVARIANTS
  PlanSound
  ProposedOnce
PROPERTIES
  EveryFindingFixed
CHECK_DEADLOCK FALSE
