SPECIFICATION AttemptSpec
CONSTANTS
  Policy <- MCPolicy
  EndpointUrl <- FeedUrl
  Answers <- MCAnswers
  Responses <- MCResponses
  Total = 3
  Connect = 2
  Late = 1
  MaxRedirects = 2
  MaxWire = 1
  FeedLimit = 3
  ListingLimit = 3
  FailureCap = 2
  Snapshots <- MCSnapshots
  Documents <- MCDocuments
  RuleSets <- MCRuleSets
  Defaults <- MCDefaults
  MaxEdits = 1
  NoUrl = NoUrl
  NoResult = NoResult
  NoTimer = NoTimer
  NoResponse = NoResponse
  NoRule = NoRule
  NoCategory = NoCategory
  NoDiagnostics = NoDiagnostics
INVARIANTS FinalizationAccepted CountsMatchStore ContactsAreVetted
PROPERTIES EveryAttemptEnds
CHECK_DEADLOCK FALSE
