SPECIFICATION RegenerationSpec
CONSTANTS
  g1 = g1
  g2 = g2
  q1 = q1
  q2 = q2
  ann = ann
  bob = bob
  Nobody = Nobody
  NoRun = NoRun
  People <- Persons
  Runs <- TwoRuns
  Requests <- TwoRequests
  Overlap = TRUE
INVARIANT ActiveMeansChecked
CHECK_DEADLOCK FALSE
