\* A second attempt whose runner is killed after it committed
SPECIFICATION Spec
CONSTANTS
  Runners = {r1}
  MaxAttempts = 2
  MaxCrashes = 1
  Budget = 1
  AnswersLost = FALSE
  OtherRuns = FALSE
INVARIANTS
  NoLostReceipt
