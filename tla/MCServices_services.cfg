SPECIFICATION ServicesSpec
CONSTANTS
  j1 = j1
  t1 = t1
  t2 = t2
  s1 = s1
  s2 = s2
  s3 = s3
  m1 = m1
  p1 = p1
  p2 = p2
  p3 = p3
  p4 = p4
  c1 = c1
  c2 = c2
  c3 = c3
  e1 = e1
  NoJob = NoJob
  NoMission = NoMission
  Parallelism = 1
  Jobs <- OneJob
  Tasks <- TwoTasks
  Slots <- ThreeSlots
  Schedulers <- OneLoop
  Objectives <- OneMission
  Staff <- FourPeople
  Requester = p1
  Calls <- TwoCalls
  Nobody = Nobody
  Operators <- FourPeople
  Commander = p1
  Reviews <- TwoCalls
  Policies <- TwoOrThree
  NoOperator = NoOperator
  Events <- OneEvent
  Users <- ThreePeople
  Firings <- ThreeCalls
  NoEvent = NoEvent
  NoUser = NoUser
  Workers <- ThreeCalls
SYMMETRY Symmetry
INVARIANTS ServicesTypeOK RunsOnlyApproved VerdictOnAll CancelSticks ObservedAtRest EffectOnce RolledBackWithData
PROPERTIES ExecConsent CommandConsent
CHECK_DEADLOCK FALSE
