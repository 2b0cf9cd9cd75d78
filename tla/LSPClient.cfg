SPECIFICATION FairSpec
CONSTANTS
  f1 = f1  f2 = f2
  Files = {f1, f2}
  Batchings <- EitherWay
  Aliases <- OneAlias
  Procedures = {f1}
  MaxOpen = 2
  Retries = 2
  MaxHops = 2
  MaxPipe = 2
  MaxServerAsks = 1
  Faults = {"absent", "crash", "broken", "refuse", "stop"}
CHECK_DEADLOCK FALSE
INVARIANTS
  ClientOK
  SuppressedOnlyIfGuarded
  ServerReaped
PROPERTIES
  SessionEnds
