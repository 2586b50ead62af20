\* Manager.Stats, as the logging loop in main.go calls it, against one
\* Set on the same cache.
CONSTANTS
  Callers = {g1, g2}
  Deleters = {x1, x2}
  DomainOrder <- MCBlockOnly
  Ids = {"a"}
  Vals = {"v"}
  Size <- MCSize
  TTL <- MCTTL
  MaxTime = 1
  MaxOps = 1
  NoProc = NoProc
SPECIFICATION Spec
PROPERTY EveryCallReturns
CHECK_DEADLOCK FALSE
