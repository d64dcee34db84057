SPECIFICATION Spec
CONSTANTS
  Sources = {1, 2, 3}
  Priority <- MCPriority
  Feed <- StoryFeed
  MaxArticles = 3
  Absent = Absent
  Collectors = {c1, c2}
  RunTime <- MCRunTime
  MaxWork = 4
  Edited = {1}
  Categories = {k1}
  Excluded = Excluded
  Moderated = {"visibility"}
INVARIANTS UniqueKeysNeverClash SeenWindowSpansObservations TopologySound ModerationSurvives
PROPERTIES GroupingHasEvidence DismissalSticks
CHECK_DEADLOCK FALSE
