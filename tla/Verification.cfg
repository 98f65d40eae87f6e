CONSTANTS
  Goals = {g1}
  Missions = {m1, m2}
  GoalOf <- OneGoal
  Candidates = {c1}
  Slots = {p1, p2}
  Boot = boot
  None = none
  Environments <- CertifiedOnly
  ExternalKinds = {"client"}
  LegacyStranded <- NoMissions
  MaxAttempts = 1
  MaxRuns = 1
  MaxPrior = 1
  MaxRevision = 2
  MaxDecisions = 3
  MaxRestarts = 0
  MaxLate = 0
SYMMETRY Symmetry
SPECIFICATION Spec
INVARIANTS
  GatedWorkStaysAuthorized
PROPERTIES
  SealedOnCurrentGround
CHECK_DEADLOCK FALSE
