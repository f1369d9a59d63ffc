SPECIFICATION Spec
CONSTANTS
  Target = 2
  Policies <- AllPolicies
  GapAt <- EarlyPlans
  MaintenanceFirst = TRUE
  TrancheLimit = 1
  MaxTroubles = 2
  MaxKills = 1
INVARIANTS LookaheadRevalidated
PROPERTIES WriterBasisStable WaitIsExplained TargetReached ImplementsManuscript
