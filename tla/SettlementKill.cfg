\* One runner killed twice anywhere, over two attempts
SPECIFICATION Spec
CONSTANTS
  Runners = {r1}
  MaxAttempts = 2
  MaxCrashes = 2
  Budget = 2
  AnswersLost = FALSE
  OtherRuns = TRUE
INVARIANTS
  FirstReceiptKept
