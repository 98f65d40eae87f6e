CONSTANTS
  Goals = {g1}
  Missions = {m1}
  GoalOf <- OneGoal
  Candidates = {c1}
  Slots = {p1, p2}
  Boot = boot
  None = none
  Environments <- AllEnvironments
  ExternalKinds = {"worker"}
  LegacyStranded <- NoMissions
  MaxAttempts = 2
  MaxRuns = 2
  MaxPrior = 1
  MaxRevision = 2
  MaxDecisions = 2
  MaxRestarts = 0
  MaxLate = 1
SYMMETRY Symmetry
SPECIFICATION Spec
INVARIANTS
  LeaseExclusive
PROPERTIES
  LiveLeaseUndisturbed
  ImplementsLifecycle
CHECK_DEADLOCK FALSE
