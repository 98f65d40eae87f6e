CONSTANTS
  Goals = {g1}
  Missions = {m1}
  GoalOf <- OneGoal
  Candidates = {c1, c2}
  Slots = {p1}
  Boot = boot
  None = none
  Environments <- AllEnvironments
  ExternalKinds = {}
  LegacyStranded <- AllMissions
  MaxAttempts = 2
  MaxRuns = 2
  MaxPrior = 1
  MaxRevision = 2
  MaxDecisions = 2
  MaxRestarts = 0
  MaxLate = 0
SPECIFICATION SurfaceSpec
INVARIANTS
  SurfacesTellTheTruth
CHECK_DEADLOCK FALSE
