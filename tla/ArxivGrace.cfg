CONSTANTS
    Items <- MCItems
    Papers <- MCPapers
    Feeds = {"feed"}
    Groups = {"child", "root"}
    None = None
    FeedOf <- MCFeedOf
    GroupOf <- MCGroupOf
    Parent <- MCParent
    Relevance <- MCRelevance
    Senders = {s1}
    Destinations = {d1}
    PolicyChoices <- MCPolicies
    Limit = 1
    ArxivThreshold = 80
SPECIFICATION FairSpec
PROPERTY GraceIsKept
