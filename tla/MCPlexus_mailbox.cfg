SPECIFICATION Spec
CONSTANTS
  m1 = m1
  m2 = m2
  r1 = r1
  r2 = r2
  r3 = r3
  ann = ann
  bob = bob
  cyd = cyd
  NoKey = NoKey
  Nobody = Nobody
  Messages <- TwoMessages
  Requests <- ThreeRequests
  People <- Persons
  Keys = {"k"}
SYMMETRY Symmetry
INVARIANTS TypeOK GateHeld OneMessagePerKey
PROPERTIES ApprovedOnce NeverReopened
CHECK_DEADLOCK FALSE
