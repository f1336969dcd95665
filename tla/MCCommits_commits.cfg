SPECIFICATION CommitsSpec
CONSTANTS
  s1 = s1
  s2 = s2
  c1 = c1
  d1 = d1
  d2 = d2
  q1 = q1
  q2 = q2
  q3 = q3
  g1 = g1
  g2 = g2
  g3 = g3
  ann = ann
  bob = bob
  Sessions <- TwoSessions
  Clients <- OneClient
  PageLimit = 2
  MaxEvents = 3
  Deliveries <- Responses
  Overlapping = FALSE
  Nobody = Nobody
  NoRun = NoRun
  People <- TwoPeople
  Runs <- ThreeRuns
  Requests <- ThreeRequests
  Overlap = FALSE
SYMMETRY Symmetry
INVARIANTS BrowserTypeOK NoGaps ExactReplay FinishedMeansComplete RegenerationTypeOK GateHeld StagesInOrder ActiveMeansChecked
PROPERTIES FirstResponseKept ContainedFirst FailedRemainsContained
CHECK_DEADLOCK FALSE
