---------------------------- MODULE Regeneration ----------------------------
(* The regeneration of one capability node (core/marcellus/regeneration): a   *)
(* run is requested, approved by somebody else when policy asks for it, and   *)
(* then restores the node's runtime from a checkpoint in six stages, each of  *)
(* them a commit of the request that performs it.                             *)
(*                                                                            *)
(* A request works on the copies it read (sessions keep them over commits)    *)
(* and writes the columns it changed.  Nothing resumes a run whose request is *)
(* gone.                                                                      *)
EXTENDS Naturals, Sequences, SequencesExt

CONSTANTS
  Runs,      \* bound: the runs that may ever be created
  People,    \* who requests and approves
  Requests,  \* sessions
  Nobody,
  NoRun,     \* the runtime has not been restored by a run of the model
  Overlap    \* whether two requests to start a run may be in flight at once

ASSUME RegenerationAssumption ==
  /\ Overlap \in BOOLEAN
  /\ Nobody \notin People /\ NoRun \notin Runs

VARIABLES
  run,      \* the table of runs
  runtime,  \* the node's runtime row
  request   \* what each session is at, with its copies

regenerationVars == <<run, runtime, request>>

-----------------------------------------------------------------------------
(* The stages as they are performed, and as the registry and the architecture *)
(* document list them.                                                        *)
Sequence   == <<"contain", "checkpoint", "recreate", "rehydrate", "verify", "rejoin">>
Documented == <<"contain", "checkpoint", "recreate", "verify", "rehydrate", "rejoin">>

(* The check for a run under way names quarantined too, which no run ever is. *)
Active   == {"requires_approval", "running"}
Statuses == Active \cup {"blocked", "completed", "failed"}

(* held: the policy outcome was requires_approval. *)
Rows == [status : Statuses, requester : People, approver : People \cup {Nobody},
         held : BOOLEAN, stages : Seq({"failed"} \cup {Sequence[i] : i \in 1..6})]
NoRow == [status |-> "none"]

(* by: the run that created this instance; status none: there is no row yet. *)
Runtimes == [status : {"none", "contained", "quarantined", "active"},
             by : Runs \cup {NoRun}, generation : Nat]
NewRuntime == [status |-> "none", by |-> NoRun, generation |-> 0]

Performing == {Sequence[i] : i \in 1..6}
Idle == [pc |-> "idle", of |-> NoRun, who |-> Nobody, stages |-> <<>>,
         runtime |-> NewRuntime]

Stored == {r \in Runs : run[r] # NoRow}

RegenerationInit ==
  /\ run = [r \in Runs |-> NoRow]
  /\ runtime = NewRuntime
  /\ request = [q \in Requests |-> Idle]

-----------------------------------------------------------------------------
(* start_regeneration(): no run of the node is under way, then enforce().     *)
StartsAlone == Overlap \/ \A q \in Requests : request[q].pc # "starting"

(* Mutant of StartCheck: a run that is under way does not matter. *)
StartUnchecked(q) ==
  /\ request[q] = Idle /\ StartsAlone
  /\ \E p \in People :
       request' = [request EXCEPT ![q] = [Idle EXCEPT !.pc = "starting", !.who = p]]
  /\ UNCHANGED <<run, runtime>>

StartCheck(q) ==
  /\ request[q] = Idle /\ StartsAlone
  /\ \A r \in Stored : run[r].status \notin Active
  /\ \E p \in People :
       request' = [request EXCEPT ![q] = [Idle EXCEPT !.pc = "starting", !.who = p]]
  /\ UNCHANGED <<run, runtime>>

StartStore(q) ==
  /\ request[q].pc = "starting"
  /\ \E r \in Runs \ Stored, status \in Active \cup {"blocked"} :
       /\ run' = [run EXCEPT ![r] =
            [status |-> status, requester |-> request[q].who, approver |-> Nobody,
             held |-> (status = "requires_approval"), stages |-> <<>>]]
       /\ request' = [request EXCEPT ![q] =
            IF status = "running" THEN [Idle EXCEPT !.pc = "contain", !.of = r]
            ELSE Idle]
  /\ UNCHANGED runtime

(* Mutant of MayApprove: whoever asked for the run may approve it. *)
MayApproveOwn(p, r) == run[r].status = "requires_approval"

MayApprove(p, r) ==
  run[r].requester # p /\ run[r].status = "requires_approval"

(* approve_regeneration() up to enforce(), which commits. *)
ApproveRead(q) ==
  /\ request[q] = Idle
  /\ \E p \in People, r \in Stored :
       /\ MayApprove(p, r)
       /\ request' = [request EXCEPT ![q] =
            [Idle EXCEPT !.pc = "approving", !.who = p, !.of = r]]
  /\ UNCHANGED <<run, runtime>>

Granted(q) ==
  LET r == request[q].of IN
  /\ run' = [run EXCEPT ![r].status = "running", ![r].approver = request[q].who]
  /\ request' = [request EXCEPT ![q] =
       [Idle EXCEPT !.pc = "contain", !.of = r, !.stages = run[r].stages]]
  /\ UNCHANGED runtime

(* Mutant of Approve: the status that was read is taken for granted. *)
ApproveStale(q) == request[q].pc = "approving" /\ Granted(q)

Approve(q) ==
  /\ request[q].pc = "approving"
  /\ run[request[q].of].status = "requires_approval"
  /\ Granted(q)

-----------------------------------------------------------------------------
(* _perform_regeneration().  _record_stage() commits the stage with whatever  *)
(* the request changed before it: the status of the run and its runtime copy. *)
Next6(stage) == IF stage = "rejoin" THEN "idle"
                ELSE Sequence[(CHOOSE i \in 1..5 : Sequence[i] = stage) + 1]

Recorded(q, stage, status, new) ==
  LET r == request[q].of
      old == request[q].runtime
      stages == Append(request[q].stages, stage) IN
  /\ run' = [run EXCEPT ![r].stages = stages, ![r].status = status]
  /\ runtime' = [c \in DOMAIN runtime |->
                   IF new[c] = old[c] THEN runtime[c] ELSE new[c]]
  /\ request' = [request EXCEPT ![q] =
       IF status = "running"
       THEN [@ EXCEPT !.pc = Next6(stage), !.stages = stages, !.runtime = new]
       ELSE Idle]

Same(q) == request[q].runtime

(* Mutant of Contain: the runtime is only read. *)
ContainNothing(q) ==
  /\ request[q].pc = "contain"
  /\ run' = [run EXCEPT ![request[q].of].stages = Append(request[q].stages, "contain")]
  /\ request' = [request EXCEPT ![q].pc = "checkpoint", ![q].runtime = runtime,
                                ![q].stages = Append(@, "contain")]
  /\ UNCHANGED runtime

(* The runtime row is read here, and only here. *)
Contain(q) ==
  LET new == IF runtime.status = "none" THEN runtime
             ELSE [runtime EXCEPT !.status = "contained"] IN
  /\ request[q].pc = "contain"
  /\ run' = [run EXCEPT ![request[q].of].stages = Append(request[q].stages, "contain")]
  /\ request' = [request EXCEPT ![q].pc = "checkpoint", ![q].runtime = new,
                                ![q].stages = Append(@, "contain")]
  /\ runtime' = new

(* verify_checkpoint() finds the checkpoint sound or not. *)
Checkpoint(q) ==
  /\ request[q].pc = "checkpoint"
  /\ \/ Recorded(q, "checkpoint", "running", Same(q))
     \/ Recorded(q, "failed", "failed", Same(q))

(* A row that another run inserted meanwhile breaks the session: the handler  *)
(* cannot even mark the run failed, and the run stays running for ever.       *)
Recreate(q) ==
  LET old == request[q].runtime IN
  /\ request[q].pc = "recreate"
  /\ IF old.status = "none" /\ runtime.status # "none"
     THEN /\ request' = [request EXCEPT ![q] = Idle]
          /\ UNCHANGED <<run, runtime>>
     ELSE Recorded(q, "recreate", "running",
                   [status |-> "quarantined", by |-> request[q].of,
                    generation |-> old.generation + 1])

Rehydrate(q) ==
  /\ request[q].pc = "rehydrate"
  /\ Recorded(q, "rehydrate", "running", Same(q))

(* The health checks repeat what verify_checkpoint() has found sound. *)
Verify(q) ==
  /\ request[q].pc = "verify"
  /\ Recorded(q, "verify", "running", Same(q))

(* Mutant of Rejoin: the run is over, the runtime is not put in service. *)
RejoinUnnamed(q) ==
  /\ request[q].pc = "rejoin"
  /\ Recorded(q, "rejoin", "completed", [Same(q) EXCEPT !.status = "completed"])

Rejoin(q) ==
  /\ request[q].pc = "rejoin"
  /\ Recorded(q, "rejoin", "completed", [Same(q) EXCEPT !.status = "active"])

(* The request ends: policy denied it, the status had changed, its process    *)
(* died or its database failed.                                               *)
Abort(q) ==
  /\ request[q] # Idle
  /\ request' = [request EXCEPT ![q] = Idle]
  /\ UNCHANGED <<run, runtime>>

RegenerationNext ==
  \E q \in Requests :
    \/ StartCheck(q) \/ StartStore(q) \/ ApproveRead(q) \/ Approve(q)
    \/ Contain(q) \/ Checkpoint(q) \/ Recreate(q) \/ Rehydrate(q) \/ Verify(q)
    \/ Rejoin(q) \/ Abort(q)

RegenerationSpec == RegenerationInit /\ [][RegenerationNext]_regenerationVars

-----------------------------------------------------------------------------
RegenerationTypeOK ==
  /\ run \in [Runs -> Rows \cup {NoRow}]
  /\ runtime \in Runtimes
  /\ request \in [Requests ->
       [pc : {"idle", "starting", "approving"} \cup Performing,
        of : Runs \cup {NoRun}, who : People \cup {Nobody},
        stages : Seq(Performing), runtime : Runtimes]]

(* A run the policy held begins only after somebody other than its requester  *)
(* approved it, whatever requests are in flight.                              *)
GateHeld ==
  \A r \in Stored :
    /\ run[r].held /\ run[r].stages # <<>> => run[r].approver # Nobody
    /\ run[r].approver # run[r].requester

(* Whatever requests race or die, a run records each of its stages once, in   *)
(* an order that is known (it contains the node and checks its checkpoint     *)
(* before it recreates the instance, and rejoins last), is completed with all *)
(* of them only, and fails only at its checkpoint.                            *)
StagesInOrder ==
  \A r \in Stored :
    IF run[r].status = "failed" THEN run[r].stages = <<"contain", "failed">>
    ELSE \E order \in {Sequence, Documented} :
           /\ IsPrefix(run[r].stages, order)
           /\ run[r].status = "completed" <=> run[r].stages = order

(* The order the documents give: the new instance is verified before it is    *)
(* rehydrated ("contain -> checkpoint -> recreate -> verify -> rehydrate ->   *)
(* rejoin", docs/marcellus-architecture.md).                                  *)
StagesAsDocumented ==
  \A r \in Stored :
    run[r].status # "failed" => IsPrefix(run[r].stages, Documented)

(* A runtime in service was put there by the run that created this instance   *)
(* and that came to its end ("a regenerated node remains quarantined until    *)
(* health and policy checks pass").                                           *)
ActiveMeansChecked ==
  runtime.status = "active" => run[runtime.by].status = "completed"

(* The instance of a runtime in service is never replaced: it is contained    *)
(* first, and a new instance has a higher generation.                         *)
ContainedFirst ==
  [][runtime'.by # runtime.by =>
       /\ runtime.status # "active"
       /\ runtime'.generation > runtime.generation]_regenerationVars

(* The failure of a run leaves the node out of service ("Regeneration failed  *)
(* verification and remains contained").                                      *)
FailedRemainsContained ==
  [][\A r \in Stored : run[r].status = "running" /\ run'[r].status = "failed"
       => runtime'.status # "active"]_regenerationVars
=============================================================================
