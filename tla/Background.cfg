SPECIFICATION MCSpec
CONSTANTS
    Parts = {"scheduler", "notifications", "tower", "forge", "streams", "hub"}
    Schedules = {1, 2}
    ScheduleSpecs <- MCScheduleSpecs
    TicksPerDay = 2
    DaysPerWeek = 2
    Pollers = {p1, p2}
    Limits = {1}
    MaxLimit = 100
    Horizon = 4
    Triggers <- MCTriggers
    Observations <- MCObservations
    Contents = {"first", "altered"}
    MaxReceipts = 4
    Missions = {"m1"}
    Wakes = {"w1", "w2"}
    Window = 1
    MaxRounds = 2
    MaxFaults = 1
    Goals = {1, 2}
    Unpaired = TRUE
    MaxPresses = 3
    MaxForgeFaults = 2
    MaxPanels = 1
    Tabs = {t1, t2}
    MaxListeners = 1
    MaxBackoff = 1
    UnreachableAfter = 2
    MaxFrames = 1
    MaxReloads = 2
INVARIANTS
    NotificationsHold
PROPERTIES
    ScheduleIsKept
    FindsReachTheUser
    ForgeObeys
    StreamsRecover
CHECK_DEADLOCK FALSE
