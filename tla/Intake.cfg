CONSTANTS
    Items = {i1, i2}
    Workers = {w1}
    Pages = {p1}
    None = None
    Automatic = {}
    MaxBatch = 2
    MaxRequests = 2
    Edits = {"delete"}
    Feeds = {1, 2}
    Sources = {"a", "b", "c"}
    NoSource = "none"
    Hosts = {"g", "h"}
    HostOf <- MCHostOf
    MaxWorkers = 2
    PerHost = 1
    Rests = {1, 2}
    MaxDelay = 1
    LastVersion <- MCLastVersion
    MaxFailures = 1
    MaxEdits = 1
SPECIFICATION IntakeSpec
INVARIANTS
    JobAgreesWithRuns
    RowTellsHistory
PROPERTIES
    ClaimsReturn
    HostsAreSpared
