\* Two runners on one run, one kill
SPECIFICATION Spec
CONSTANTS
  Runners = {r1, r2}
  MaxAttempts = 2
  MaxCrashes = 1
  Budget = 2
  AnswersLost = TRUE
  OtherRuns = TRUE
INVARIANTS
  NoDoubleCommit
  SuccessIsProven
PROPERTIES
  InterruptedIsSettled
  RunReturns
