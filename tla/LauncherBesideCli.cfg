CONSTANTS
    Jobs = {b1, c1}
    Standalone = {c1}
    None = None
    TTL <- LeaseTTL
    ArxivTTL = 3
    Kinds = {"refresh"}
    CancelRequests <- PageCancels
    FeedOutcomes = {"success", "partial"}
    AiOutcomes = {"success", "empty"}
    DigestOutcomes = {"unchanged", "failed"}
    MaxBatches = 1
    Launchers = {"local"}
    HostSuspends = FALSE
SPECIFICATION Spec
PROPERTIES
    LiveLeaseEndsByOwner
CHECK_DEADLOCK FALSE
