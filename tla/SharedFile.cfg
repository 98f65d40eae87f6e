SPECIFICATION MCSpec
CONSTANTS
    Parts = {"file"}
    Contexts = {"a", "b"}
    Target <- MCTarget
    KnownCase = "k"
    Handlers = {x1, x2}
    HasModel = TRUE
    MaxFaults = 1
    MaxCrashes = 1
    Streams = {x1, x2, x3}
    Managed = {"env"}
    UserProviders = {"mine"}
    MaxConversations = 2
    MaxMessages = 4
    MaxPieces = 2
    MaxResponse = 1
    MaxEdits = 1
    Extensions = {x1, x2}
    MaxAttempts = 2
    MaxMints = 1
    MaxTokens = 2
    MaxCodes = 3
    MaxWriteFaults = 1
    Tokens = {"rust", "rusty", "bitcoin", "job", "guide", "simple"}
    PageTexts <- MCPageTexts
    Generic = {"guide", "simple"}
    Synonyms <- MCSynonyms
    Beginnings <- MCBeginnings
    GoalTexts <- MCGoalTexts
    Urls = {"u", "home"}
    Homepages = {"home"}
    Labels <- MCLabels
    Owners = {o1}
    MaxEvents = 1
    MaxPrior = 1
    MaxShown = 2
    MaxRounds = 2
    Connections = {x1, x2}
    ExtensionOrigins = {"e"}
    DashboardOrigins = {"d"}
    ForeignOrigins = {"f"}
    OwnOrigins = {"d", "f"}
    Services = {"projector", "models", "providers", "chat", "opportunities", "notifications", "preferences", "surfaces", "goals", "missions", "executor", "replay"}
    MaxRevision = 3
    Clis = {c1}
    MaxRecords = 4
    MaxCommands = 2
    Pids = {1, 2}
    Launchers = {x1, x2}
    MaxStarts = 2
    MaxChanges = 1
    DevTaskIds = {t1, t2}
    Shells = {x1, x2}
    Commits = {1, 2}
    FounderTasks = {t2}
    MaxRoundsOfWork = 2
    Memories = {x1, x2}
    Signals = {"altered_replay"}
    Evaluators = {e1}
    Versions = {1}
    Requests = {q1}
    PolicyVersions = {1, 2}
    MaxMoves = 2
    SafetyMemories = {1, 2}
    Categories = {"altered_replay"}
    FailureIds = {1, 2}
    References = {1, 2}
    Rules <- MCRules
    Entries <- MCEntries
    MaxFailures = 3
    MaxNow = 3
SYMMETRY Symmetry
PROPERTY SharedFileKeepsRecords
CHECK_DEADLOCK FALSE
