SPECIFICATION RegenerationSpec
CONSTANTS
  g1 = g1
  g2 = g2
  q1 = q1
  q2 = q2
  ann = ann
  bob = bob
  Nobody = Nobody
  NoRun = NoRun
  People <- Persons
  Runs <- OneRun
  Requests <- OneRequest
  Overlap = FALSE
INVARIANT StagesAsDocumented
CHECK_DEADLOCK FALSE
