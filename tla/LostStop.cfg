CONSTANTS
    Jobs = {b1}
    Standalone = {}
    None = None
    TTL <- LeaseTTL
    ArxivTTL = 3
    Kinds = {"summary"}
    CancelRequests <- PageCancels
    FeedOutcomes = {"success", "partial"}
    AiOutcomes = {"success", "empty"}
    DigestOutcomes = {"unchanged", "failed"}
    MaxBatches = 1
    Launchers = {"wsgi"}
    HostSuspends = FALSE
SPECIFICATION Spec
PROPERTIES
    StopHonoured
CHECK_DEADLOCK FALSE
