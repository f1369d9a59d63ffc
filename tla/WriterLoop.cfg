\* One Writing Task over its attempts
SPECIFICATION Spec
CONSTANTS
  Policies <- AllPolicies
  MaxAttempts = 3
  MaxFaults = 2
  MaxPressures = 1
INVARIANTS ReadyIsReviewed SettledCallsSkipped YieldAdvances LogReplays
PROPERTIES AttemptEnds
CHECK_DEADLOCK FALSE
