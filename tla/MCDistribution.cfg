SPECIFICATION FairSpec
CONSTANTS
    PageSize = 1
    ResultLimit = 2
    Credentials = {c1, c2}
    FirstCredential = c1
    NoCredential = NoCredential
    Network = network
    InvalidPolicy <- MCInvalidPolicy
    RequestPolicy <- MCRequestPolicy
    InitialRows <- MCInitialRows
    ArticleRows <- MCArticleRows
    Digests = {d1}
    NoDigest = NoDigest
    TopicChoices <- MCTopicChoices
    NoRevision = NoRevision
    Processes = {p1, p2}
    NoProcess = NoProcess
    MaxRetries = 1
    MaxRestarts = 1
    MaximumPages = 2
    MaxEvents = 2
INVARIANTS ReadsAreWhole
PROPERTIES ShowsLastKnownGood EventuallyCurrent
