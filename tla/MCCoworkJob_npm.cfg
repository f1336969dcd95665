SPECIFICATION Spec
CONSTANTS
  w1 = w1
  w2 = w2
  Workers <- OneWorker
  Inline = TRUE
  Env = {}
  PlanLists <- NpmPlans
  MaxAttempts = 2
  MaxClaims = 2
  MaxCrashes = 0
INVARIANT NoIllegalMove
CHECK_DEADLOCK FALSE
