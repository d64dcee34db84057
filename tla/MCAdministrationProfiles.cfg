SPECIFICATION Spec
CONSTANTS
  Admins = {a1, a2}
  Sources = {s1, s2}
  Endpoints = {e1, e2}
  Profiles = {p1, p2}
  Categories = {c1}
  RelevanceRules = {r1}
  Order <- MCOrder
  Owner <- MCOwner
  Commands <- ProfileRaceCommands
  Catalogs <- OverTheOther
  MaxCommands = 3
  None = None
  a1 = a1
  a2 = a2
  s1 = s1
  s2 = s2
  e1 = e1
  e2 = e2
  p1 = p1
  p2 = p2
  c1 = c1
  r1 = r1
SYMMETRY Interchangeable
INVARIANTS ActiveProfilesAreUsable
CHECK_DEADLOCK FALSE
