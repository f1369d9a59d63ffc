\* Two plan commits compete for the writer lane
SPECIFICATION Spec
CONSTANTS
  Tasks <- LaneTasks
  KindOf <- LaneKinds
  DepsOf <- LaneDeps
  PlannerOf <- LanePlanner
  InitialTasks <- LaneTasks
  SettlementOn = FALSE
  InitialBudget = 1
  MaxAttempts = 1
  CommandIds = {k1, k2}
  NoTask = NoTask
SYMMETRY CommandSymmetry
CHECK_DEADLOCK FALSE
INVARIANTS
  AttemptDiscipline
  GenerationsDistinct
  CanonLineage
