SPECIFICATION Spec
CONSTANTS
  N = 3
  Work = 2
  MaxTasks = 2
  MaxSlices <- SomeSlices
  Parallel = 2
  Watches <- ThreeWatches
  MaxFaults = 1
INVARIANTS BudgetConserved
PROPERTIES NoStarvation WatchEnds
CHECK_DEADLOCK FALSE
