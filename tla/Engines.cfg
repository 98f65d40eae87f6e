SPECIFICATION MCSpec
CONSTANTS
    Parts = {"tasks", "research", "goal", "graph", "knowledge", "search", "web"}
    k1 = k1
    k2 = k2
    k3 = k3
    need = need
    Keys = {k1, k2, k3}
    DraftTasks <- MCDraftTasks
    Requirements = {need}
    TaskEvidence = {x, y}
    MaxTasks = 3
    EveryTaskNeedsEvidence = FALSE
    ToolCounts = {0, 2}
    MaxAttempts = 2
    Declines = {}
    Texts <- MCTexts
    Pages <- MCPages
    MaxQueries = 16
    MaxPlanTasks = 3
    MaxDependencies = 2
    AllowedTasks = 3
    MaxDepth = 3
    CaseIds = {k}
    EvidenceIds = {x, y}
    EntityIds = {n}
    Callers = {p, q}
    MaxCalls = 4
    MaxStops = 1
    ClaimedMissions <- MCMissions
    Fillers = {"de"}
    HitLists <- MCHits
    Replies <- MCReplies
    UrlKeys = {1, 2, 3, 4, 5, 6, 7, 9}
    UrlHosts = {"w", "x", "y", "z"}
    CredentialFiles = {f1, f2}
    MaxCoreTerms = 4
    MaxQueryTerms = 3
    MaxSearches = 2
    MaxReturned = 4
    MaxFindings = 2
    MaxPerHost = 1
    ResultPages <- MCResultPages
    Targets <- MCTargets
    Lookups <- MCLookups
    LiteralOf <- MCLiteralOf
    MaxResults = 2
    MaxRedirects = 2
    Retries = 1
INVARIANTS
    TasksAreOrdered
    EveryConstraintIsAsked
    PlansAreClosed
    KnowledgeIsConsistent
PROPERTIES
    ResearchIsAccounted
    SearchIsHonest
    ReadingIsSafe
CHECK_DEADLOCK FALSE
