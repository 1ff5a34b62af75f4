SPECIFICATION ReaderSpec
CONSTANTS
    a1 = a1
    a2 = a2
    cs = cs
    lg = lg
    Papers <- MCPapers
    Categories <- MCCategories
    CategoryOf <- MCCategoryOf
    Scopes <- MCScopes
    Score <- MCScore
    Thresholds = {1, 2}
    LastDay = 1
    Versions <- MCVersions
    MaxDisturbances = 1
    Items = {1, 2}
    Stamp <- MCStamp
    Scores = {80}
    Minimum = 70
    Filters <- MCFilters
    PageSize = 1
    MaxReloads = 1
    MaxActions = 2
INVARIANTS
    ScoreIsOfStoredText
    EveryDayHasItsDigest
    AllShown
    ReadAgrees
    ChangeIsShown
PROPERTIES
    LedgerIsKept
    EligibleIsScored
CHECK_DEADLOCK FALSE
