CONSTANTS
    Items = {i1}
    Workers = {w1, w2}
    Pages = {p1}
    None = None
    Automatic = {w1, w2}
    MaxBatch = 1
    MaxRequests = 1
    Edits = {"delete", "exclude", "baseline"}
SPECIFICATION Spec
SYMMETRY Exchange
INVARIANTS
    TypeOK
    ReviewedIffEvaluated
    LiveWorkIsKept
    NoClaimLeftBehind
    OpenRowsHaveAWorker
PROPERTIES
    AskedOnce
    ReviewsInOrder
