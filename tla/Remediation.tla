----------------------------- MODULE Remediation -----------------------------
(* Remediation actions (services/remediation/engine.py): an action of low     *)
(* risk is executed by the request that creates it, another one waits for an  *)
(* approval, which executes it.  A completed action can be rolled back with   *)
(* the data its execution stored.  Every step is a commit on a copy of the    *)
(* row, and none is conditional on what the row says by then.                 *)
(*                                                                            *)
(* The model follows one action from its insertion.                           *)
EXTENDS Naturals

CONSTANT Workers  \* requests and scans that work on the action

VARIABLES
  action,     \* the row: its status, and whether it holds rollback data
  worker,     \* what each of them is doing
  succeeded   \* history: an execution of the action succeeded

remediationVars == <<action, worker, succeeded>>

-----------------------------------------------------------------------------
ActionStatuses == {"pending_approval", "approved", "executing", "completed", "failed",
                   "rejected", "timed_out", "rolled_back"}
WorkStages == {"none", "deciding", "starting", "executing", "rejecting", "rolling"}

(* execute_remediation(): an action of low risk is inserted approved, and its *)
(* creator executes it.                                                       *)
RemediationInit ==
  /\ \/ /\ action = [status |-> "pending_approval", data |-> FALSE]
        /\ worker = [w \in Workers |-> "none"]
     \/ /\ action = [status |-> "approved", data |-> FALSE]
        /\ \E creator \in Workers :
             worker = [w \in Workers |-> IF w = creator THEN "starting" ELSE "none"]
  /\ succeeded = FALSE

Does(w, stage)     == worker[w] = stage
Turn(w, stage)     == worker' = [worker EXCEPT ![w] = stage]
Mark(status)       == action' = [action EXCEPT !.status = status]

-----------------------------------------------------------------------------
(* The route reads the action; the engine's own select returns that copy.     *)
PermitRead(w) ==
  /\ Does(w, "none") /\ action.status = "pending_approval"
  /\ Turn(w, "deciding")
  /\ UNCHANGED <<action, succeeded>>

(* Policy allows the approval, and its window is open. *)
Permit(w) ==
  /\ Does(w, "deciding")
  /\ Mark("approved") /\ Turn(w, "starting")
  /\ UNCHANGED succeeded

Expire(w) ==
  /\ Does(w, "deciding")
  /\ Mark("timed_out") /\ Turn(w, "none")
  /\ UNCHANGED succeeded

(* _execute_action() *)
StartAction(w) ==
  /\ Does(w, "starting")
  /\ Mark("executing") /\ Turn(w, "executing")
  /\ UNCHANGED succeeded

Succeed(w) ==
  /\ Does(w, "executing")
  /\ action' = [status |-> "completed", data |-> TRUE] /\ Turn(w, "none")
  /\ succeeded' = TRUE

(* There is no module for the provider, the module reports an error, or it    *)
(* raises.                                                                    *)
FailAction(w) ==
  /\ Does(w, "executing")
  /\ Mark("failed") /\ Turn(w, "none")
  /\ UNCHANGED succeeded

-----------------------------------------------------------------------------
RejectRead(w) ==
  /\ Does(w, "none") /\ action.status = "pending_approval"
  /\ Turn(w, "rejecting")
  /\ UNCHANGED <<action, succeeded>>

RejectAction(w) ==
  /\ Does(w, "rejecting")
  /\ Mark("rejected") /\ Turn(w, "none")
  /\ UNCHANGED succeeded

(* Mutant of RollBackActionRead: what may have begun can be rolled back. *)
RollBackBegun(w) ==
  /\ Does(w, "none") /\ action.status \in {"executing", "completed"}
  /\ Turn(w, "rolling")
  /\ UNCHANGED <<action, succeeded>>

RollBackActionRead(w) ==
  /\ Does(w, "none") /\ action.status = "completed"
  /\ Turn(w, "rolling")
  /\ UNCHANGED <<action, succeeded>>

(* A rollback that fails leaves the status. *)
RollBackAction(w) ==
  /\ Does(w, "rolling")
  /\ Mark("rolled_back") \/ UNCHANGED action
  /\ Turn(w, "none")
  /\ UNCHANGED succeeded

(* Policy or the database refuses, or the process dies. *)
DropWork(w) ==
  /\ ~Does(w, "none")
  /\ Turn(w, "none")
  /\ UNCHANGED <<action, succeeded>>

RemediationNext ==
  \E w \in Workers :
    \/ PermitRead(w) \/ Permit(w) \/ Expire(w)
    \/ StartAction(w) \/ Succeed(w) \/ FailAction(w)
    \/ RejectRead(w) \/ RejectAction(w)
    \/ RollBackActionRead(w) \/ RollBackAction(w) \/ DropWork(w)

RemediationSpec == RemediationInit /\ [][RemediationNext]_remediationVars

-----------------------------------------------------------------------------
RemediationTypeOK ==
  /\ action \in [status : ActionStatuses, data : BOOLEAN]
  /\ worker \in [Workers -> WorkStages]
  /\ succeeded \in BOOLEAN

(* Approvals, rejections and executions that overlap overwrite each other's   *)
(* status, but an action is rolled back only after an execution succeeded,    *)
(* and with the rollback data that one stored.                                *)
RolledBackWithData ==
  \A w \in Workers :
    Does(w, "rolling") \/ action.status = "rolled_back" => succeeded /\ action.data
=============================================================================
