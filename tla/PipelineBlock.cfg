SPECIFICATION MCSpec
CONSTANTS
    Parts = {"pipeline"}
    m1 = m1
    m2 = m2
    EvidenceIds = {x1, x2}
    ClaimIds = {y1, y2}
    Confidences = {49, 50, 74, 75}
    ComparisonConfidences = {39, 40, 75}
    MaxCited = 2
    MaxComparisons = 2
    MinimumEvidenceCount = 1
    MinimumAcceptedConfidence = 75
    MinimumReviewConfidence = 50
    PossibleThreshold = 40
    MaterialThreshold = 75
    RecordIds = {1}
    LostIds = {2}
    ReceiptKeys = {y1, y2}
    Times = {1}
    MaxClock = 1
    None = None
    Memories = {m1, m2}
    Requests = {y1, y2}
    Callers = {x1, x2}
    Executors = {"kernel", "recovery"}
    Approvals <- PersonApprovals
    HighImpact = {m2}
    MaxReceipts = 2
    DecisionIds = {1, 2}
    GivenStates = {"proposed"}
SYMMETRY Symmetry
INVARIANT VerifiedMaterialConflictBlocks
CHECK_DEADLOCK FALSE
