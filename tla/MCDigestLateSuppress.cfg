SPECIFICATION MCSpec
CONSTANTS
  Evaluators = {e1, e2}
  Attempts = {a1, a2, a3}
  NoAttempt = NoAttempt
  Articles = {x, y}
  Styles = {s1, s2}
  SlotLength = 2
  Timeout = 1
  Margin = 1
  Faults = {"stall"}
  MaxTime = 2
  MaxChanges = 1
  MaxFailures = 0
PROPERTIES SanctionedDigestKept
SYMMETRY Symmetry
CHECK_DEADLOCK FALSE
