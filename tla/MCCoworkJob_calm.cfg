SPECIFICATION FairSpec
CONSTANTS
  w1 = w1
  w2 = w2
  Workers <- TwoWorkers
  Inline = TRUE
  Env = {"fault", "cancel", "retry"}
  PlanLists <- OrderlyPlans
  MaxAttempts = 2
  MaxClaims = 2
  MaxCrashes = 1
INVARIANTS TypeOK OneDriver OutcomeFollowsReport
PROPERTIES TerminalIsFinal LifecycleKept OutcomeAtCompletion ApprovalIsKept InHandSettles
CHECK_DEADLOCK FALSE
