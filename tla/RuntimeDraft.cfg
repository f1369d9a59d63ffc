\* Two attempts of one draft commit through Stage 2W
SPECIFICATION Spec
CONSTANTS
  Tasks <- DraftTasks
  KindOf <- DraftKinds
  DepsOf <- DraftDeps
  PlannerOf <- DraftPlanner
  InitialTasks <- DraftInitial
  SettlementOn = TRUE
  InitialBudget = 1
  MaxAttempts = 2
  CommandIds = {k1, k2}
  NoTask = NoTask
SYMMETRY CommandSymmetry
CHECK_DEADLOCK FALSE
INVARIANTS
  TypeOK
  BudgetExact
  SucceededIsCommitted
PROPERTIES
  SettledAttemptsFrozen
  CommittedNeverReclaimed
