SPECIFICATION FairSpec
CONSTANTS
  w1 = w1
  w2 = w2
  Workers <- TwoWorkers
  Inline = FALSE
  Env = {}
  PlanLists <- OrderlyPlans
  MaxAttempts = 2
  MaxClaims = 2
  MaxCrashes = 0
PROPERTY Settles
CHECK_DEADLOCK FALSE
