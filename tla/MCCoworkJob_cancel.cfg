SPECIFICATION Spec
CONSTANTS
  w1 = w1
  w2 = w2
  Workers <- TwoWorkers
  Inline = TRUE
  Env = {"cancel","cancel_live"}
  PlanLists <- OrderlyPlans
  MaxAttempts = 2
  MaxClaims = 2
  MaxCrashes = 0
PROPERTY CancelIsFinal
CHECK_DEADLOCK FALSE
