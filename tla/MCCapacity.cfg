SPECIFICATION CapacityFairSpec
CONSTANTS
  Processes = {p1}
  Tasks = {t1, t2}
  Connections = {c1, c2, c3, c4, c5}
  NoSession = NoSession
  s1 = s1
  h1 = h1
  Targets <- MCTargets
  Limit <- MCLimit
  MaxBorrowed = 1
  MaxLosses = 1
INVARIANTS WithinLimits PooledSessionsAreClean
PROPERTIES EveryExecutionEnds
