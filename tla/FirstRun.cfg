SPECIFICATION FairSpec
CONSTANTS
    t1 = t1
    t2 = t2
    Nobody = Nobody
    Tabs <- MCTabs
    Payloads <- MCPayloads
    MaxReviews = 2
    MaxLaunches = 2
INVARIANTS
    ServedIsComplete
    PublishedAsReviewed
PROPERTIES
    SetupEnds
    OutcomeAsTold
