SPECIFICATION ProgressSpec
CONSTANTS
  j1 = j1
  t1 = t1
  s1 = s1
  s2 = s2
  m1 = m1
  n1 = n1
  n2 = n2
  n3 = n3
  i1 = i1
  i2 = i2
  NoJob = NoJob
  NoMission = NoMission
  Parallelism = 1
  Jobs <- OneJob
  Tasks <- OneTask
  Slots <- TwoSlots
  Schedulers <- OneLoop
  Objectives <- OneMission
  Nodes <- ThreeNodes
  Sources = 2
  Seats = 2
  Inquiries <- TwoInquiries
  MinSamples = 2
  MaxSamples = 4
INVARIANTS ProgressTypeOK AskedOnEvidence
PROPERTIES DueIsServed EveryRunReported GraphEnds Recovers
CHECK_DEADLOCK FALSE
