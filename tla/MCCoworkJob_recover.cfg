SPECIFICATION Spec
CONSTANTS
  w1 = w1
  w2 = w2
  Workers <- OneWorker
  Inline = TRUE
  Env = {}
  PlanLists <- OrderlyPlans
  MaxAttempts = 2
  MaxClaims = 2
  MaxCrashes = 1
INVARIANT NoIllegalMove
CHECK_DEADLOCK FALSE
