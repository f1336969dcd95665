------------------------------ MODULE Reflexes ------------------------------
(* Reflexes (core/marcellus/reflexes.py): an event that a reflex listens to   *)
(* is evaluated, perhaps by several requests at once; it is executed when     *)
(* policy allows it, or held until somebody other than the requester approves *)
(* the execution.  The table has one execution per reflex and event, by a     *)
(* unique constraint; the effect is a Plexus message, outside this module.    *)
(*                                                                            *)
(* The model follows one reflex.  Time is in no variable: whether the hourly  *)
(* budget, the cooldown or the expiry limits an event is nondeterministic.    *)
EXTENDS Naturals

CONSTANTS
  Events,   \* the events that may be delivered
  Users,    \* who delivers events and approves executions
  Firings,  \* requests to the API
  NoEvent, NoUser

ASSUME ReflexAssumption == NoEvent \notin Events /\ NoUser \notin Users

VARIABLES
  execution,  \* the table of executions, by event
  firing,     \* what each request is doing
  effects     \* history: how often the effect of each event was begun

reflexVars == <<execution, firing, effects>>

-----------------------------------------------------------------------------
Unclaimed == [status |-> "none", requestedBy |-> NoUser, approvedBy |-> NoUser, held |-> FALSE]
Execution == [status : {"none", "rate_limited", "running", "requires_approval", "blocked",
                        "completed", "failed"},
              requestedBy : Users \cup {NoUser}, approvedBy : Users \cup {NoUser},
              held : BOOLEAN]

Spent == [pc |-> "none", of |-> NoEvent, by |-> NoUser]
Firing == [pc : {"none", "deciding", "executing", "effecting", "approving"},
           of : Events \cup {NoEvent}, by : Users \cup {NoUser}]

ReflexInit ==
  /\ execution = [e \in Events |-> Unclaimed]
  /\ firing = [f \in Firings |-> Spent]
  /\ effects = [e \in Events |-> 0]

Fires(f, pc)    == firing[f].pc = pc
Fire(f, pc)     == firing' = [firing EXCEPT ![f].pc = pc]
EndFiring(f)    == firing' = [firing EXCEPT ![f] = Spent]

(* A second execution of the event is refused by the constraint, and the      *)
(* request fails with it.                                                     *)
Insert(f, status) ==
  /\ execution[firing[f].of] = Unclaimed
  /\ execution' = [execution EXCEPT ![firing[f].of] =
       [status |-> status, requestedBy |-> firing[f].by, approvedBy |-> NoUser,
        held |-> status = "requires_approval"]]

Clash(f) ==
  /\ execution[firing[f].of] # Unclaimed
  /\ EndFiring(f)
  /\ UNCHANGED execution

-----------------------------------------------------------------------------
(* An event that has an execution is answered with it. *)
Deliver(f, e, u) ==
  /\ Fires(f, "none")
  /\ execution[e] = Unclaimed
  /\ firing' = [firing EXCEPT ![f] = [pc |-> "deciding", of |-> e, by |-> u]]
  /\ UNCHANGED <<execution, effects>>

(* The budget refuses the event, or policy decides on it: after the check of  *)
(* the table, and the record of either is inserted.                           *)
Limit(f) ==
  /\ Fires(f, "deciding")
  /\ \/ Insert(f, "rate_limited") /\ EndFiring(f)
     \/ Clash(f)
  /\ UNCHANGED effects

Evaluate(f) ==
  /\ Fires(f, "deciding")
  /\ \/ Insert(f, "running") /\ Fire(f, "executing")
     \/ \E status \in {"requires_approval", "blocked"} : Insert(f, status) /\ EndFiring(f)
     \/ Clash(f)
  /\ UNCHANGED effects

(* _perform_effect() *)
Begin(f) ==
  /\ Fires(f, "executing")
  /\ effects' = [effects EXCEPT ![firing[f].of] = @ + 1]
  /\ Fire(f, "effecting")
  /\ UNCHANGED execution

End(f) ==
  /\ Fires(f, "effecting")
  /\ \E status \in {"completed", "failed"} :
       execution' = [execution EXCEPT ![firing[f].of].status = status]
  /\ EndFiring(f)
  /\ UNCHANGED effects

-----------------------------------------------------------------------------
(* approve_reflex_execution() *)
ConsiderRead(f, e, u) ==
  /\ Fires(f, "none")
  /\ execution[e].status = "requires_approval" /\ execution[e].requestedBy # u
  /\ firing' = [firing EXCEPT ![f] = [pc |-> "approving", of |-> e, by |-> u]]
  /\ UNCHANGED <<execution, effects>>

(* Mutant of Claimable: the execution is claimed on the status read before. *)
ClaimableAsRead(e) == execution[e].status # "none"

(* The condition of the UPDATE that claims the execution. *)
Claimable(e) == execution[e].status = "requires_approval"

(* The reflex is found inactive, policy denies, another approver was faster.  *)
ClaimFails(f) ==
  /\ Fires(f, "approving")
  /\ EndFiring(f)
  /\ UNCHANGED <<execution, effects>>

ClaimExecution(f) ==
  /\ Fires(f, "approving") /\ Claimable(firing[f].of)
  /\ execution' = [execution EXCEPT ![firing[f].of].status = "running",
                                    ![firing[f].of].approvedBy = firing[f].by]
  /\ Fire(f, "executing")
  /\ UNCHANGED effects

(* The process dies: a running execution stays running for ever. *)
DropFiring(f) ==
  /\ ~Fires(f, "none")
  /\ EndFiring(f)
  /\ UNCHANGED <<execution, effects>>

ReflexNext ==
  \E f \in Firings :
    \/ \E e \in Events, u \in Users : Deliver(f, e, u) \/ ConsiderRead(f, e, u)
    \/ Limit(f) \/ Evaluate(f) \/ Begin(f) \/ End(f)
    \/ ClaimFails(f) \/ ClaimExecution(f) \/ DropFiring(f)

ReflexSpec == ReflexInit /\ [][ReflexNext]_reflexVars

-----------------------------------------------------------------------------
ReflexTypeOK ==
  /\ execution \in [Events -> Execution]
  /\ firing \in [Firings -> Firing]
  /\ effects \in [Events -> Nat]

(* However often an event is delivered and however many approve at once, its  *)
(* effect is begun at most once, and after the row says so; an effect that    *)
(* was held is begun only when somebody other than the requester approved it. *)
EffectOnce ==
  \A e \in Events : effects[e] > 0 =>
    /\ effects[e] = 1
    /\ execution[e].status \in {"running", "completed", "failed"}
    /\ execution[e].held =>
         execution[e].approvedBy \notin {NoUser, execution[e].requestedBy}
=============================================================================
