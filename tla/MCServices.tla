----------------------------- MODULE MCServices -----------------------------
(* Instance for TLC of the services that keep a row and are driven by         *)
(* requests: missions and their swarm jobs, execution channels, pending       *)
(* commands, reflexes and remediation actions.  They share nothing, so a      *)
(* behaviour of the instance is a behaviour of one of them, its part, while   *)
(* the others stay in an initial state.                                       *)
EXTENDS Missions, ExecChannels, RemoteCommands, Reflexes, Remediation, TLC

CONSTANTS j1, t1, t2, s1, s2, s3, m1, p1, p2, p3, p4, c1, c2, c3, e1

OneJob      == {j1}
TwoTasks    == {t1, t2}
ThreeSlots  == {s1, s2, s3}
OneLoop     == {s1}
OneMission  == {m1}
FourPeople  == {p1, p2, p3, p4}
ThreePeople == {p1, p2, p3}
TwoCalls    == {c1, c2}
ThreeCalls  == {c1, c2, c3}
OneEvent    == {e1}
TwoOrThree  == {2, 3}
Symmetry    == Permutations(TwoTasks) \cup Permutations({s2, s3})

VARIABLE part

services == <<allVars, execVars, commandVars, reflexVars, remediationVars, part>>

ServicesInit ==
  /\ part \in {"missions", "exec", "commands", "reflexes", "remediation"}
  /\ MissionInit /\ ReflexInit
  /\ ExecInit /\ (part = "exec" \/ item = NewGate)
  /\ CommandInit /\ (part = "commands" \/ lowest = 2)
  /\ RemediationInit /\ (part = "remediation" \/ action.status = "pending_approval")

(* Bound: one session at a time is about to change the mission itself. *)
OneUpdate == Cardinality({s \in Slots : flight[s].pc = "updating"}) <= 1

MissionsMove ==
  /\ part = "missions" /\ MissionNext /\ OneUpdate'
  /\ UNCHANGED <<execVars, commandVars, reflexVars, remediationVars>>
ExecMoves ==
  /\ part = "exec" /\ ExecNext
  /\ UNCHANGED <<allVars, commandVars, reflexVars, remediationVars>>
CommandsMove ==
  /\ part = "commands" /\ CommandNext
  /\ UNCHANGED <<allVars, execVars, reflexVars, remediationVars>>
ReflexesMove ==
  /\ part = "reflexes" /\ ReflexNext
  /\ UNCHANGED <<allVars, execVars, commandVars, remediationVars>>
RemediationMoves ==
  /\ part = "remediation" /\ RemediationNext
  /\ UNCHANGED <<allVars, execVars, commandVars, reflexVars>>

ServicesNext ==
  /\ MissionsMove \/ ExecMoves \/ CommandsMove \/ ReflexesMove \/ RemediationMoves
  /\ UNCHANGED part

ServicesSpec == ServicesInit /\ [][ServicesNext]_services

ServicesTypeOK ==
  MissionTypeOK /\ ExecTypeOK /\ CommandTypeOK /\ ReflexTypeOK /\ RemediationTypeOK
=============================================================================
