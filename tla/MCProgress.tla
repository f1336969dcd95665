----------------------------- MODULE MCProgress -----------------------------
(* Instance for TLC of what must come to an end by itself: the runs of a      *)
(* mission, a task graph, and the open time of the circuit breaker.  They     *)
(* share nothing, so a behaviour of the instance is a behaviour of one of     *)
(* them, its part; no fair action of the others is enabled meanwhile.         *)
EXTENDS Missions, TaskGraph, Breaker

CONSTANTS j1, t1, s1, s2, m1, n1, n2, n3, i1, i2

OneJob        == {j1}
OneTask       == {t1}
TwoSlots      == {s1, s2}
OneLoop       == {s1}
OneMission    == {m1}
ThreeNodes    == {n1, n2, n3}
TwoInquiries  == {i1, i2}

VARIABLE part

progress == <<allVars, graphVars, breakerVars, part>>

(* A request that policy blocked: the state of the graph in the other parts. *)
GraphAtRest ==
  /\ dependsOn = [n \in Nodes |-> {}] /\ graph = "blocked"
  /\ node = [n \in Nodes |-> "blocked"] /\ tried = [n \in Nodes |-> <<>>]
  /\ layer = {} /\ results = {}

ProgressInit ==
  /\ part \in {"missions", "graph", "breaker"}
  /\ MissionInit
  /\ IF part = "graph" THEN GraphInit ELSE GraphAtRest
  /\ BreakerInit /\ (part = "breaker" \/ redis)

MissionsMove == part = "missions" /\ MissionNext /\ UNCHANGED <<graphVars, breakerVars>>
GraphMoves   == part = "graph" /\ GraphNext /\ UNCHANGED <<allVars, breakerVars>>
BreakerMoves == part = "breaker" /\ BreakerNext /\ UNCHANGED <<allVars, graphVars>>

ProgressNext == (MissionsMove \/ GraphMoves \/ BreakerMoves) /\ UNCHANGED part

ProgressSpec ==
  /\ ProgressInit /\ [][ProgressNext]_progress
  /\ MissionFairness /\ GraphFairness /\ BreakerFairness

ProgressTypeOK == MissionTypeOK /\ GraphTypeOK /\ BreakerTypeOK
=============================================================================
