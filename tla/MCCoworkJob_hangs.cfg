SPECIFICATION FairSpec
CONSTANTS
  w1 = w1
  w2 = w2
  Workers <- OneWorker
  Inline = TRUE
  Env = {}
  PlanLists <- OrderlyPlans
  MaxAttempts = 2
  MaxClaims = 1
  MaxCrashes = 1
PROPERTY Settles
CHECK_DEADLOCK FALSE
