SPECIFICATION WorkerSpec
CONSTANTS
  Endpoints = {e1}
  Jobs = {j1, j2}
  Runs = {j1, j2}
  NoJob = NoJob
  NoRun = NoRun
  MaxAttempts = 2
  PollInterval = 2
  MinCooldown = 3
  CooldownThreshold = 2
  Tasks = {t1, t2}
  Recoverers = {r1}
  NoTask = NoTask
  Lease = 2
  InitialRetryDelay = 1
  MaxRetryDelay = 2
  ContentionDelay = 1
  MaxJitter = 1
  MaxTime = 5
  SessionsMayDie = TRUE
SYMMETRY Symmetry
INVARIANTS WorkerTypeOK JobAgreesWithRun EndedJobsAreApplied RuntimeFollowsHistory ValidatorsWereCollected RetryChain
PROPERTIES LateTasksLeaveJobsAlone NoStepBack DeadTokensStayDead SlotSpec
CHECK_DEADLOCK FALSE
