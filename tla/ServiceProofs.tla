---------------------------- MODULE ServiceProofs ----------------------------
(* Proofs about Reflexes and Remediation, for any number of events, users and *)
(* requests that overlap, and about the services of MCServices together.      *)
EXTENDS MCServices, SwarmProofs, ConsentProofs, TLAPS

-----------------------------------------------------------------------------
(* Reflexes.  What a request holds of its execution: the one that executes is *)
(* the only one of its event, and the row says running until it is done.      *)
Ran     == {"running", "completed", "failed"}
Owns(f) == firing[f].pc \in {"executing", "effecting"}

FiringKept(f) ==
  LET e == firing[f].of
  IN /\ firing[f].pc # "none" => e \in Events
     /\ firing[f].pc \in {"deciding", "approving"} => firing[f].by \in Users
     /\ firing[f].pc = "approving" =>
          execution[e].status # "none" /\ execution[e].requestedBy # firing[f].by
     /\ Owns(f) => execution[e].status = "running"
     /\ firing[f].pc = "executing" => effects[e] = 0
     /\ firing[f].pc = "effecting" => effects[e] = 1

ApprovedByOther(row) ==
  row.held /\ row.status \in Ran => row.approvedBy \notin {NoUser, row.requestedBy}

KeepsRequester(old, new) == old.status = "none" \/ new.requestedBy = old.requestedBy

EventKept(e) ==
  /\ effects[e] \in {0, 1}
  /\ execution[e].status \notin Ran => effects[e] = 0
  /\ ApprovedByOther(execution[e])

OneOwner ==
  \A f, g \in Firings : Owns(f) /\ Owns(g) /\ firing[f].of = firing[g].of => f = g

ReflexInv ==
  /\ ReflexTypeOK
  /\ \A f \in Firings : FiringKept(f)
  /\ \A e \in Events : EventKept(e)
  /\ OneOwner

LEMMA SpentType == Spent \in Firing /\ Spent.pc = "none"
BY DEF Spent, Firing

LEMMA ReflexInitially == ReflexInit => ReflexInv
<1> SUFFICES ASSUME ReflexInit PROVE ReflexInv
  OBVIOUS
<1>1. \A f \in Firings : firing[f].pc = "none"
  BY SpentType DEF ReflexInit
<1>2. ReflexTypeOK
  BY SpentType DEF ReflexInit, ReflexTypeOK, Unclaimed, Execution
<1>3. \A e \in Events : EventKept(e)
  BY DEF ReflexInit, EventKept, ApprovedByOther, Unclaimed, Ran
<1> QED
  BY <1>1, <1>2, <1>3 DEF ReflexInv, FiringKept, OneOwner, Owns

(* A request moves and neither the table nor the effects do. *)
LEMMA FiringMoves ==
  ASSUME ReflexInv, NEW f \in Firings, NEW to \in Firing,
         firing' = [firing EXCEPT ![f] = to], UNCHANGED <<execution, effects>>,
         to.pc \in {"none", "deciding", "approving"},
         to.pc # "none" => to.of \in Events /\ to.by \in Users,
         to.pc = "approving" =>
           execution[to.of].status # "none" /\ execution[to.of].requestedBy # to.by
  PROVE  ReflexInv'
<1>1. ReflexTypeOK'
  BY DEF ReflexInv, ReflexTypeOK
<1>2. \A g \in Firings : firing'[g] = IF g = f THEN to ELSE firing[g]
  BY DEF ReflexInv, ReflexTypeOK
<1>3. ASSUME NEW g \in Firings PROVE FiringKept(g)'
  BY <1>2 DEF ReflexInv, FiringKept, Owns
<1>4. ASSUME NEW e \in Events PROVE EventKept(e)'
  BY DEF ReflexInv, EventKept
<1>5. OneOwner'
  BY <1>2 DEF ReflexInv, OneOwner, Owns
<1> QED
  BY <1>1, <1>3, <1>4, <1>5 DEF ReflexInv

(* A request writes the row of an event that no request executes. *)
LEMMA RowWritten ==
  ASSUME ReflexInv, NEW f \in Firings, NEW row \in Execution, NEW to \in Firing,
         firing[f].pc \in {"deciding", "approving"},
         execution' = [execution EXCEPT ![firing[f].of] = row],
         firing' = [firing EXCEPT ![f] = to], UNCHANGED effects,
         execution[firing[f].of].status \notin Ran, row.status # "none",
         KeepsRequester(execution[firing[f].of], row),
         \/ to.pc = "none"
         \/ to.pc = "executing" /\ to.of = firing[f].of /\ row.status = "running",
         ApprovedByOther(row)
  PROVE  ReflexInv'
<1> DEFINE e == firing[f].of
<1>1. e \in Events /\ effects[e] = 0
  BY DEF ReflexInv, FiringKept, EventKept
<1>2. ReflexTypeOK'
  BY DEF ReflexInv, ReflexTypeOK
<1>3. \A g \in Firings : firing'[g] = IF g = f THEN to ELSE firing[g]
  BY DEF ReflexInv, ReflexTypeOK
<1>4. \A d \in Events : execution'[d] = IF d = e THEN row ELSE execution[d]
  BY DEF ReflexInv, ReflexTypeOK
<1>5. \A g \in Firings : Owns(g) => firing[g].of # e
  BY DEF ReflexInv, FiringKept, Ran
<1> HIDE DEF e
<1>6. ASSUME NEW g \in Firings PROVE FiringKept(g)'
  <2>1. CASE g = f
    BY <1>1, <1>3, <1>4, <2>1 DEF FiringKept, Owns, e
  <2>2. CASE g # f
    <3>1. FiringKept(g) /\ firing'[g] = firing[g] /\ UNCHANGED effects
      BY <1>3, <2>2 DEF ReflexInv
    <3>2. CASE firing[g].of = e
      <4>1. ~Owns(g) /\ execution'[e] = row /\ row.status # "none"
        BY <1>1, <1>4, <1>5, <3>2
      <4>2. firing[g].pc = "approving" => row.requestedBy # firing[g].by
        BY <3>1, <3>2 DEF FiringKept, KeepsRequester, e
      <4> QED
        BY <3>1, <3>2, <4>1, <4>2 DEF FiringKept, Owns
    <3>3. CASE firing[g].of # e
      <4>1. firing[g].pc # "none" => execution'[firing[g].of] = execution[firing[g].of]
        BY <1>4, <3>1, <3>3 DEF FiringKept
      <4> QED
        BY <3>1, <4>1 DEF FiringKept, Owns
    <3> QED
      BY <3>2, <3>3
  <2> QED
    BY <2>1, <2>2
<1>7. ASSUME NEW d \in Events PROVE EventKept(d)'
  BY <1>1, <1>4 DEF ReflexInv, EventKept
<1>8. OneOwner'
  BY <1>3, <1>5 DEF ReflexInv, OneOwner, Owns, e
<1> QED
  BY <1>2, <1>6, <1>7, <1>8 DEF ReflexInv

(* The owner of an event begins its effect, or ends it. *)
LEMMA OwnerActs ==
  ASSUME ReflexInv, NEW f \in Firings, Begin(f) \/ End(f)
  PROVE  ReflexInv'
<1> DEFINE e == firing[f].of
<1>1. e \in Events /\ Owns(f) /\ FiringKept(f) /\ EventKept(e)
  BY DEF Begin, End, Fires, Owns, ReflexInv, FiringKept
<1>2. \A g \in Firings : g # f /\ Owns(g) => firing[g].of # e
  BY <1>1 DEF ReflexInv, OneOwner
<1>3. CASE Begin(f)
  <2>1. \A g \in Firings :
          firing'[g] = IF g = f THEN [firing[f] EXCEPT !.pc = "effecting"] ELSE firing[g]
    BY <1>3 DEF Begin, Fire, ReflexInv, ReflexTypeOK
  <2>2. firing'[f].pc = "effecting" /\ firing'[f].of = e /\ firing'[f] \in Firing
    BY <2>1 DEF ReflexInv, ReflexTypeOK, Firing
  <2>3. effects[e] = 0 /\ \A d \in Events : effects'[d] = IF d = e THEN 1 ELSE effects[d]
    BY <1>1, <1>3 DEF Begin, Fires, FiringKept, ReflexInv, ReflexTypeOK
  <2>4. UNCHANGED execution
    BY <1>3 DEF Begin
  <2>5. ReflexTypeOK'
    BY <1>1, <1>3, <2>1, <2>2, <2>4 DEF Begin, Fire, ReflexInv, ReflexTypeOK
  <2> HIDE DEF e
  <2>6. ASSUME NEW g \in Firings PROVE FiringKept(g)'
    <3>1. CASE g = f
      BY <1>1, <2>2, <2>3, <2>4, <3>1 DEF FiringKept, Owns, e
    <3>2. CASE g # f
      BY <1>2, <2>1, <2>3, <2>4, <3>2 DEF ReflexInv, FiringKept, Owns
    <3> QED
      BY <3>1, <3>2
  <2>7. ASSUME NEW d \in Events PROVE EventKept(d)'
    BY <1>1, <2>3, <2>4 DEF ReflexInv, EventKept, ApprovedByOther, FiringKept, Ran, e
  <2>8. OneOwner'
    BY <1>2, <2>1, <2>2 DEF ReflexInv, OneOwner, Owns
  <2> QED
    BY <2>5, <2>6, <2>7, <2>8 DEF ReflexInv
<1>4. CASE End(f)
  <2>1. PICK status \in {"completed", "failed"} :
          execution' = [execution EXCEPT ![e].status = status]
    BY <1>4 DEF End
  <2>2. \A g \in Firings : firing'[g] = IF g = f THEN Spent ELSE firing[g]
    BY <1>4 DEF End, EndFiring, ReflexInv, ReflexTypeOK
  <2>3. /\ \A d \in Events : d # e => execution'[d] = execution[d]
        /\ execution'[e] \in Execution /\ execution'[e].status = status
        /\ execution'[e].requestedBy = execution[e].requestedBy
        /\ execution'[e].approvedBy = execution[e].approvedBy
        /\ execution'[e].held = execution[e].held
    BY <1>1, <2>1 DEF ReflexInv, ReflexTypeOK, Execution
  <2>4. UNCHANGED effects
    BY <1>4 DEF End
  <2>5. ReflexTypeOK'
    BY <1>4, <2>1, <2>3, SpentType DEF End, EndFiring, ReflexInv, ReflexTypeOK
  <2> HIDE DEF e
  <2>6. ASSUME NEW g \in Firings PROVE FiringKept(g)'
    <3>1. CASE g = f
      BY <2>2, <3>1, SpentType DEF FiringKept, Owns
    <3>2. CASE g # f
      <4>1. FiringKept(g) /\ firing'[g] = firing[g]
        BY <2>2, <3>2 DEF ReflexInv
      <4>2. CASE firing[g].of = e
        BY <1>2, <2>3, <2>4, <3>2, <4>1, <4>2 DEF FiringKept, Owns
      <4>3. CASE firing[g].of # e
        BY <2>3, <2>4, <4>1, <4>3 DEF FiringKept, Owns
      <4> QED
        BY <4>2, <4>3
    <3> QED
      BY <3>1, <3>2
  <2>7. ASSUME NEW d \in Events PROVE EventKept(d)'
    BY <1>1, <2>3, <2>4 DEF ReflexInv, EventKept, ApprovedByOther, FiringKept, Ran, e
  <2>8. OneOwner'
    BY <2>2, SpentType DEF ReflexInv, OneOwner, Owns
  <2> QED
    BY <2>5, <2>6, <2>7, <2>8 DEF ReflexInv
<1> QED
  BY <1>3, <1>4

LEMMA InsertPreserves ==
  ASSUME ReflexInv, NEW f \in Firings, Fires(f, "deciding"), UNCHANGED effects,
         NEW status \in {"rate_limited", "running", "requires_approval", "blocked"},
         Insert(f, status),
         \/ EndFiring(f)
         \/ Fire(f, "executing") /\ status = "running"
  PROVE  ReflexInv'
<1> DEFINE e   == firing[f].of
           row == [status |-> status, requestedBy |-> firing[f].by, approvedBy |-> NoUser,
                   held |-> status = "requires_approval"]
<1>1. e \in Events /\ firing[f].by \in Users /\ firing[f] \in Firing
  BY DEF Fires, ReflexInv, FiringKept, ReflexTypeOK
<1>2. row \in Execution /\ row.status = status
      /\ (row.held => row.status \notin Ran)
  BY <1>1 DEF Execution, Ran
<1>3. execution[e].status = "none" /\ execution' = [execution EXCEPT ![e] = row]
  BY DEF Insert, Unclaimed
<1> HIDE DEF row
<1>4. PICK to \in Firing :
        /\ firing' = [firing EXCEPT ![f] = to]
        /\ \/ to.pc = "none"
           \/ to.pc = "executing" /\ to.of = e /\ row.status = "running"
  <2>1. CASE EndFiring(f)
    BY <2>1, SpentType DEF EndFiring
  <2>2. CASE Fire(f, "executing") /\ status = "running"
    <3>1. [firing[f] EXCEPT !.pc = "executing"] \in Firing
      BY <1>1 DEF Firing
    <3> QED
      BY <1>1, <1>2, <2>2, <3>1 DEF Fire, Firing
  <2> QED
    BY <2>1, <2>2
<1>5. /\ row \in Execution /\ row.status # "none" /\ ApprovedByOther(row)
      /\ execution' = [execution EXCEPT ![firing[f].of] = row]
  BY <1>2, <1>3 DEF ApprovedByOther
<1>6. /\ firing[f].pc \in {"deciding", "approving"}
      /\ execution[firing[f].of].status \notin Ran
      /\ KeepsRequester(execution[firing[f].of], row)
  BY <1>3 DEF Fires, Ran, KeepsRequester
<1> HIDE DEF e
<1>7. UNCHANGED effects /\ ReflexInv
  OBVIOUS
<1>8. \/ to.pc = "none"
      \/ to.pc = "executing" /\ to.of = firing[f].of /\ row.status = "running"
  BY <1>4 DEF e
<1>9. firing' = [firing EXCEPT ![f] = to]
  BY <1>4
<1> QED
  BY <1>5, <1>6, <1>7, <1>8, <1>9, RowWritten

LEMMA ClaimPreserves ==
  ASSUME ReflexInv, NEW f \in Firings, ClaimExecution(f)
  PROVE  ReflexInv'
<1> DEFINE e   == firing[f].of
           row == [execution[e] EXCEPT !.status = "running", !.approvedBy = firing[f].by]
           to  == [firing[f] EXCEPT !.pc = "executing"]
<1>1. /\ firing[f].pc = "approving" /\ e \in Events /\ firing[f].by \in Users
      /\ firing[f] \in Firing
      /\ execution[e].status = "requires_approval" /\ execution[e].requestedBy # firing[f].by
  BY DEF ClaimExecution, Fires, Claimable, ReflexInv, FiringKept, ReflexTypeOK
<1>2. to \in Firing /\ to.pc = "executing" /\ to.of = e
  BY <1>1 DEF Firing
<1>3. execution[e] \in Execution
  BY <1>1 DEF ReflexInv, ReflexTypeOK
<1>4. /\ row \in Execution /\ row.status = "running"
      /\ row.requestedBy = execution[e].requestedBy /\ row.approvedBy = firing[f].by
  BY <1>1, <1>3 DEF Execution
<1>5. execution' = [execution EXCEPT ![e] = row]
  BY <1>1, <1>3 DEF ClaimExecution, ReflexInv, ReflexTypeOK
<1>6. firing' = [firing EXCEPT ![f] = to] /\ UNCHANGED effects
  BY DEF ClaimExecution, Fire
<1>7. ApprovedByOther(row) /\ KeepsRequester(execution[e], row)
  BY <1>1, <1>4, ReflexAssumption DEF ApprovedByOther, KeepsRequester
<1> HIDE DEF row, to
<1> QED
  BY <1>1, <1>2, <1>4, <1>5, <1>6, <1>7, RowWritten DEF Ran

LEMMA ReflexAlways == ReflexSpec => []ReflexInv
<1>1. ASSUME ReflexInv, NEW f \in Firings,
             \/ \E e \in Events, u \in Users : Deliver(f, e, u) \/ ConsiderRead(f, e, u)
             \/ ClaimFails(f) \/ DropFiring(f)
      PROVE  ReflexInv'
  <2>1. ASSUME NEW e \in Events, NEW u \in Users, Deliver(f, e, u) PROVE ReflexInv'
    <3> DEFINE to == [pc |-> "deciding", of |-> e, by |-> u]
    <3>1. to \in Firing /\ to.pc = "deciding" /\ to.of = e /\ to.by = u
      BY DEF Firing
    <3> HIDE DEF to
    <3> QED
      BY <1>1, <2>1, <3>1, FiringMoves DEF Deliver, to
  <2>2. ASSUME NEW e \in Events, NEW u \in Users, ConsiderRead(f, e, u) PROVE ReflexInv'
    <3> DEFINE to == [pc |-> "approving", of |-> e, by |-> u]
    <3>1. to \in Firing /\ to.pc = "approving" /\ to.of = e /\ to.by = u
      BY DEF Firing
    <3>2. execution[e].status # "none" /\ execution[e].requestedBy # u
      BY <2>2 DEF ConsiderRead
    <3>3. firing' = [firing EXCEPT ![f] = to] /\ UNCHANGED <<execution, effects>>
      BY <2>2 DEF ConsiderRead
    <3> HIDE DEF to
    <3> QED
      BY <1>1, <3>1, <3>2, <3>3, FiringMoves
  <2>3. CASE ClaimFails(f) \/ DropFiring(f)
    BY <1>1, <2>3, SpentType, FiringMoves DEF ClaimFails, DropFiring, EndFiring
  <2> QED
    BY <1>1, <2>1, <2>2, <2>3
<1>2. ASSUME ReflexInv, NEW f \in Firings, Limit(f) \/ Evaluate(f) PROVE ReflexInv'
  <2>1. CASE Clash(f) /\ UNCHANGED effects
    BY <1>2, <2>1, SpentType, FiringMoves DEF Clash, EndFiring
  <2>2. CASE ~Clash(f)
    BY <1>2, <2>2, InsertPreserves DEF Limit, Evaluate
  <2> QED
    BY <1>2, <2>1, <2>2 DEF Limit, Evaluate
<1>3. ASSUME ReflexInv, UNCHANGED reflexVars PROVE ReflexInv'
  BY <1>3
  DEF reflexVars, ReflexInv, ReflexTypeOK, FiringKept, EventKept, ApprovedByOther, OneOwner,
      Owns
<1>4. ReflexInv /\ [ReflexNext]_reflexVars => ReflexInv'
  BY <1>1, <1>2, <1>3, OwnerActs, ClaimPreserves DEF ReflexNext
<1> QED
  BY <1>4, ReflexInitially, PTL DEF ReflexSpec

(* Whatever the number of deliveries and approvals that race, the unique      *)
(* constraint and the conditional update leave one request to begin the       *)
(* effect, and an effect that was held is approved by another user.           *)
THEOREM EffectBegunOnce == ReflexSpec => []EffectOnce
<1>1. ReflexInv => EffectOnce
  <2> SUFFICES ASSUME ReflexInv, NEW e \in Events, effects[e] > 0
               PROVE  /\ effects[e] = 1 /\ execution[e].status \in Ran
                      /\ execution[e].held =>
                           execution[e].approvedBy \notin {NoUser, execution[e].requestedBy}
    BY DEF EffectOnce, Ran
  <2> QED
    BY DEF ReflexInv, EventKept, ApprovedByOther
<1> QED
  BY <1>1, ReflexAlways, PTL

-----------------------------------------------------------------------------
(* Remediation.  A row that says completed has the data of an execution that  *)
(* succeeded, whatever statuses are written over it, and so has a rollback    *)
(* that was begun on it.                                                      *)
DataKept ==
  action.status \in {"completed", "rolled_back"} \/ (\E w \in Workers : Does(w, "rolling"))
    => succeeded /\ action.data

RemediationInv == RemediationTypeOK /\ DataKept

LEMMA RemediationAlways == RemediationSpec => []RemediationInv
<1>1. RemediationInit => RemediationInv
  <2> SUFFICES ASSUME RemediationInit PROVE RemediationInv
    OBVIOUS
  <2>1. RemediationTypeOK
    <3>1. action \in [status : ActionStatuses, data : BOOLEAN]
      <4>1. "pending_approval" \in ActionStatuses /\ "approved" \in ActionStatuses
        BY DEF ActionStatuses
      <4>2. \A status \in ActionStatuses :
              [status |-> status, data |-> FALSE] \in [status : ActionStatuses, data : BOOLEAN]
        OBVIOUS
      <4> QED
        BY <4>1, <4>2, Zenon DEF RemediationInit
    <3>2. worker \in [Workers -> WorkStages]
      BY DEF RemediationInit, WorkStages
    <3> QED
      BY <3>1, <3>2 DEF RemediationInit, RemediationTypeOK
  <2>2. /\ action.status \in {"pending_approval", "approved"}
        /\ \A w \in Workers : worker[w] # "rolling"
    BY DEF RemediationInit
  <2>3. DataKept
    BY <2>2 DEF DataKept, Does
  <2> QED
    BY <2>1, <2>3 DEF RemediationInv
<1>2. ASSUME RemediationInv, NEW w \in Workers, NEW stage \in WorkStages, Turn(w, stage),
             UNCHANGED succeeded, action'.data = action.data,
             action' \in [status : ActionStatuses, data : BOOLEAN],
             stage = "rolling" => action.status = "completed",
             action'.status \in {"completed", "rolled_back"} =>
               action'.status = action.status \/ Does(w, "rolling")
      PROVE  RemediationInv'
  <2>1. RemediationTypeOK'
    BY <1>2 DEF RemediationInv, RemediationTypeOK, Turn
  <2>2. \A v \in Workers : worker'[v] = IF v = w THEN stage ELSE worker[v]
    BY <1>2 DEF RemediationInv, RemediationTypeOK, Turn
  <2>3. DataKept'
    BY <1>2, <2>2 DEF RemediationInv, DataKept, Does
  <2> QED
    BY <2>1, <2>3 DEF RemediationInv
<1>3. ASSUME RemediationInv, NEW w \in Workers, Succeed(w) PROVE RemediationInv'
  <2>1. RemediationTypeOK'
    BY <1>3
    DEF Succeed, Turn, RemediationInv, RemediationTypeOK, ActionStatuses, WorkStages
  <2>2. DataKept'
    BY <1>3 DEF Succeed, DataKept
  <2> QED
    BY <2>1, <2>2 DEF RemediationInv
<1>4. ASSUME RemediationInv, NEW w \in Workers,
             \/ PermitRead(w) \/ Permit(w) \/ Expire(w) \/ StartAction(w) \/ FailAction(w)
             \/ RejectRead(w) \/ RejectAction(w)
             \/ RollBackActionRead(w) \/ RollBackAction(w) \/ DropWork(w)
      PROVE  RemediationInv'
  <2> USE <1>4
  <2>1. PICK stage \in WorkStages, status \in ActionStatuses :
          /\ Turn(w, stage) /\ UNCHANGED succeeded
          /\ Mark(status) \/ UNCHANGED action
          /\ stage = "rolling" => action.status = "completed"
          /\ status \in {"completed", "rolled_back"} => Does(w, "rolling")
    BY Zenon
    DEF PermitRead, Permit, Expire, StartAction, FailAction, RejectRead, RejectAction,
        RollBackActionRead, RollBackAction, DropWork, WorkStages, ActionStatuses
  <2>2. /\ action' \in [status : ActionStatuses, data : BOOLEAN]
        /\ action'.data = action.data /\ action'.status \in {action.status, status}
    BY <2>1 DEF Mark, RemediationInv, RemediationTypeOK
  <2> QED
    BY <1>2, <2>1, <2>2
<1>5. ASSUME RemediationInv, UNCHANGED remediationVars PROVE RemediationInv'
  BY <1>5 DEF remediationVars, RemediationInv, RemediationTypeOK, DataKept, Does
<1>6. RemediationInv /\ [RemediationNext]_remediationVars => RemediationInv'
  BY <1>3, <1>4, <1>5 DEF RemediationNext
<1> QED
  BY <1>1, <1>6, PTL DEF RemediationSpec

(* A rollback always has the data of an execution that succeeded, however     *)
(* many requests work on the action.                                          *)
THEOREM RollbackHasData == RemediationSpec => []RolledBackWithData
<1>1. RemediationInv => RolledBackWithData
  BY DEF RemediationInv, DataKept, RolledBackWithData
<1> QED
  BY <1>1, RemediationAlways, PTL

-----------------------------------------------------------------------------
(* The services together: each of them behaves as it does alone. *)
LEMMA EachService ==
  ASSUME [ServicesNext]_services
  PROVE  /\ [MissionNext]_allVars
         /\ [ExecNext]_execVars
         /\ [CommandNext]_commandVars
         /\ [ReflexNext]_reflexVars
         /\ [RemediationNext]_remediationVars
<1>1. CASE UNCHANGED services
  BY <1>1 DEF services
<1>2. CASE ServicesNext
  BY <1>2 DEF ServicesNext, MissionsMove, ExecMoves, CommandsMove, ReflexesMove,
              RemediationMoves
<1> QED
  BY <1>1, <1>2

LEMMA ServicesAlways ==
  ServicesSpec => /\ []MissionInv
                  /\ ExecSpec /\ CommandSpec /\ ReflexSpec /\ RemediationSpec
<1>1. ServicesInit => /\ MissionInv /\ ExecInit /\ CommandInit /\ ReflexInit
                      /\ RemediationInit
  BY MissionInitially DEF ServicesInit
<1>2. MissionInv /\ [ServicesNext]_services => MissionInv'
  BY EachService, MissionStep
<1>3. [ServicesNext]_services =>
        /\ [ExecNext]_execVars
        /\ [CommandNext]_commandVars
        /\ [ReflexNext]_reflexVars
        /\ [RemediationNext]_remediationVars
  BY EachService
<1> QED
  BY <1>1, <1>2, <1>3, PTL
     DEF ServicesSpec, ExecSpec, CommandSpec, ReflexSpec, RemediationSpec

(* The rows of every service keep their types, also when they run together.   *)
THEOREM ServicesTypeCorrect == ServicesSpec => []ServicesTypeOK
<1>1. MissionInv /\ ExecInv /\ CommandInv /\ ReflexInv /\ RemediationInv
        => ServicesTypeOK
  BY DEF MissionInv, ExecInv, CommandInv, ReflexInv, RemediationInv, ServicesTypeOK
<1> QED
  BY <1>1, ServicesAlways, ExecAlways, CommandAlways, ReflexAlways,
     RemediationAlways, PTL

(* What is proved of each service alone holds of all of them together.        *)
THEOREM ServicesKeepTheirs ==
  ServicesSpec => /\ [](RunsOnlyApproved /\ VerdictOnAll /\ CancelSticks)
                  /\ [](ObservedAtRest /\ EffectOnce /\ RolledBackWithData)
                  /\ ExecConsent /\ CommandConsent
<1>1. MissionInv => /\ RunsOnlyApproved /\ VerdictOnAll /\ CancelSticks
                    /\ ObservedAtRest
  BY DEF MissionInv, SwarmInv, DroppedKept, CancelSticks, JobOver, ObservedAtRest
<1> QED
  BY <1>1, ServicesAlways, EffectBegunOnce, RollbackHasData, ExecImplementsGate,
     CommandImplementsGate, PTL
=============================================================================
