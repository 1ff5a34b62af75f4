CONSTANTS
    Jobs = {b1, c1}
    Standalone = {c1}
    None = None
    TTL <- LeaseTTL
    ArxivTTL = 3
    Kinds = {"refresh", "summary", "arxiv", "restore"}
    CancelRequests <- PageCancels
    FeedOutcomes = {"success", "partial"}
    AiOutcomes = {"success", "empty"}
    DigestOutcomes = {"unchanged", "failed"}
    MaxBatches = 1
    Launchers = {"wsgi"}
    HostSuspends = FALSE
SPECIFICATION Spec
INVARIANTS
    TypeOK
    Exclusion
    WorkingRecordRuns
    NothingLeftBehind
    CancelledWasAsked
    AnswersShowFeeds
PROPERTIES
    LiveLeaseEndsByOwner
    TakesTurns
CHECK_DEADLOCK FALSE
