\* One run through its fixed topology
SPECIFICATION Spec
CONSTANTS
  Tasks <- ChainTasks
  KindOf <- ChainKinds
  DepsOf <- ChainDeps
  PlannerOf <- ChainPlanner
  InitialTasks <- ChainInitial
  SettlementOn = FALSE
  InitialBudget = 1
  MaxAttempts = 1
  CommandIds = {k1, k2}
  NoTask = NoTask
SYMMETRY CommandSymmetry
CHECK_DEADLOCK FALSE
INVARIANTS
  SupersededNeverRuns
  SuccessorOnCommit
