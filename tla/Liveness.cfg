CONSTANTS
  Goals = {g1}
  Missions = {m1}
  GoalOf <- OneGoal
  Candidates = {c1, c2}
  Slots = {p1}
  Boot = boot
  None = none
  Environments <- AllEnvironments
  ExternalKinds = {}
  LegacyStranded <- AllMissions
  MaxAttempts = 2
  MaxRuns = 2
  MaxPrior = 1
  MaxRevision = 2
  MaxDecisions = 2
  MaxRestarts = 1
  MaxLate = 0
SPECIFICATION FairSpec
INVARIANTS
  CompletedMeansSupport
PROPERTIES
  FinishedIsFinal
  WorkEnds
CHECK_DEADLOCK FALSE
