SPECIFICATION FairWorkerSpec
CONSTANTS
  Endpoints = {e1}
  Jobs = {j1, j2}
  Runs = {j1, j2, d1}
  NoJob = NoJob
  NoRun = NoRun
  MaxAttempts = 2
  PollInterval = 2
  MinCooldown = 3
  CooldownThreshold = 2
  Tasks = {t1, t2}
  Recoverers = {r1}
  NoTask = NoTask
  Lease = 3
  InitialRetryDelay = 1
  MaxRetryDelay = 2
  ContentionDelay = 1
  MaxJitter = 1
  MaxTime = 2
  SessionsMayDie = FALSE
INVARIANTS OneCollectorPerEndpoint
PROPERTIES EveryJobEnds
CHECK_DEADLOCK FALSE
