SPECIFICATION MCFairSpec
CONSTANTS
  Evaluators = {e1, e2}
  Attempts = {a1, a2}
  NoAttempt = NoAttempt
  Articles = {x}
  Styles = {s1}
  SlotLength = 2
  Timeout = 1
  Margin = 1
  Faults = {"stall", "unreadable"}
  MaxTime = 2
  MaxChanges = 0
  MaxFailures = 1
INVARIANTS OneRunningAttempt OneAttemptPerSlot ActiveDigestSucceeded
PROPERTIES EndedAttemptsStayEnded LateAnswersAreDropped NoAttemptRunsForever
CHECK_DEADLOCK FALSE
