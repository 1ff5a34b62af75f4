CONSTANTS
    Jobs = {b1, b2}
    Standalone = {}
    None = None
    TTL <- LeaseTTL
    ArxivTTL = 3
    Kinds = {"summary", "restore"}
    CancelRequests = {}
    FeedOutcomes = {"success"}
    AiOutcomes = {"success"}
    DigestOutcomes = {"unchanged"}
    MaxBatches = 0
    Launchers = {"wsgi", "local"}
    HostSuspends = TRUE
SPECIFICATION FairSpec
INVARIANTS
    HoldersExclude
PROPERTIES
    RecordsClose
    LapsedStaysLapsed
    ClosedStaysClosed
CHECK_DEADLOCK FALSE
