SPECIFICATION MCSpec
CONSTANTS
    Parts = {"plans", "radar", "bridge", "poll", "panel"}
    Capabilities <- MCCapabilities
    Definition <- MCDefinition
    Adapters <- MCCapabilities
    GoalVersions <- MCGoalVersions
    Reports <- MCReports
    Proposals <- MCProposals
    Keys = {k1}
    Calls = {x1, x2}
    Actors = {owner}
    MaxRevisions = 2
    Pages = {x1, x2}
    Sensitive = {}
    Jobs = {x1, x2}
    StateMessages = {"observing", "paused"}
    MaxQueueRetry = 1
    MaxReady = 2
    MaxEdits = 5
    MaxRestarts = 1
    Ports = {x1, x2}
    MaxActive = 1
    MaxResponse = 1
    MaxAsks = 2
    MaxCodesPerPage = 2
    MaxWrites = 2
    Cases = {x1, x2}
    MaxRestores = 2
    OfflineAfter = 2
    MaxChoices = 2
    MaxOutages = 2
    MaxOpens = 2
SYMMETRY Symmetry
INVARIANTS
    EffectsAreSafe
    CapturesAreWanted
    BridgeIsFaithful
    ShellFollowsTheUser
CHECK_DEADLOCK FALSE
