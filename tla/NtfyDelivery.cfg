CONSTANTS
    Items <- MCItems
    Papers <- MCPapers
    Feeds = {"feed"}
    Groups = {"child", "root"}
    None = None
    FeedOf <- MCFeedOf
    GroupOf <- MCGroupOf
    Parent <- MCParent
    Relevance <- MCRelevance
    Senders = {s1, s2}
    Destinations = {d1}
    PolicyChoices <- MCPolicies
    Limit = 2
    ArxivThreshold = 80
SPECIFICATION FairSpec
INVARIANTS
    TypeOK
    PostedOnce
    DeliveredWasAccepted
    SendingHasASender
PROPERTIES
    OutboxIsKept
    SendingEnds
