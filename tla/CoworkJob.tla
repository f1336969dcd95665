------------------------------ MODULE CoworkJob ------------------------------
(* One durable Cowork job: the row in marcellus_cowork_jobs, the runners      *)
(* that drive it out of band (cowork_jobs.spawn, cowork_runner.run_job) and   *)
(* the requests that reach it from outside (post, cancel, retry, resume, and  *)
(* the recovery every process performs when it starts).                       *)
(*                                                                            *)
(* A runner works on its own session, opened with expire_on_commit=False: it  *)
(* reads the row once, when it claims the job, and from then on sees only its *)
(* own copy.  A commit writes the columns in which the copy was changed and   *)
(* no other (Flush).  One action is what happens between two commits.         *)
EXTENDS Naturals, Sequences, FiniteSets, CoworkStates

CONSTANTS
  Workers,      \* processes of the backend, each with one task slot for the job
  Inline,       \* _INLINE: spawn awaits the runner instead of backgrounding it
  Env,          \* what may happen around the job, a subset of EnvKinds
  PlanLists,    \* command kinds detect_commands may return, as sequences
  MaxAttempts,  \* MAX_VERIFY_ATTEMPTS
  MaxClaims,    \* bound: no request restarts a job claimed this often
  MaxCrashes    \* bound: how many times a process dies or is stopped

EnvKinds ==
  {"fault",          \* any step of a runner may raise
   "cancel",         \* a job nobody drives may be cancelled
   "cancel_live",    \* so may a job that a runner is driving
   "retry",          \* a job nobody drives may be retried
   "retry_live",     \* so may a job that a runner is driving
   "lease_lapse"}    \* a run may outlast LEASE_SECONDS

CommandKinds == {"test", "other"}

ASSUME JobAssumption ==
  /\ Workers # {}
  /\ Inline \in BOOLEAN
  /\ Env \subseteq EnvKinds
  /\ PlanLists \subseteq Seq(CommandKinds)
  /\ MaxAttempts \in Nat /\ MaxClaims \in Nat /\ MaxCrashes \in Nat

VARIABLES
  job,      \* the row
  run,      \* the task slot of each worker
  exec,     \* the execution record of each worker's latest command
  canc,     \* the row as read by the cancel request in flight at each worker
  up,       \* which processes are alive
  crashes   \* processes that died or were stopped so far

vars == <<job, run, exec, canc, up, crashes>>

-----------------------------------------------------------------------------
(* The row.  lease: no expiry set, in the future, or past.  planned: the job *)
(* has a retryable step.  project: inspect_workspace and a project.          *)
Statuses == {"passed", "failed", "denied", "unavailable"}
Results  == [kind : {"none", "awaiting", "done"}, seen : SUBSET Statuses]
NoResult == [kind |-> "none", seen |-> {}]

Rows == [state : AllStates, outcome : FinalOutcomes \cup {"none"},
         result : Results, cancel : BOOLEAN,
         lease : {"free", "held", "lapsed"}, attempt : Nat,
         planned : BOOLEAN, project : BOOLEAN]

NewRow(project) ==
  [state |-> "queued", outcome |-> "none", result |-> NoResult,
   cancel |-> FALSE, lease |-> "free", attempt |-> 0, planned |-> FALSE,
   project |-> project]

NoRow == [state |-> "none"]

(* The UPDATE of a session that read old and holds new: changed columns only. *)
Column(old, new, db) == IF new = old THEN db ELSE new

Flush(old, new) ==
  [state   |-> Column(old.state, new.state, job.state),
   outcome |-> Column(old.outcome, new.outcome, job.outcome),
   result  |-> Column(old.result, new.result, job.result),
   cancel  |-> Column(old.cancel, new.cancel, job.cancel),
   lease   |-> Column(old.lease, new.lease, job.lease),
   attempt |-> job.attempt,
   planned |-> Column(old.planned, new.planned, job.planned),
   project |-> job.project]

(* Mutant of Legal: transition() does not consult the table. *)
AnyMove(from, to) == TRUE

(* transition(): the same state is no change, a terminal one frees the lease. *)
Legal(from, to) == from = to \/ CanTransition(from, to)

Moved(row, to) ==
  [row EXCEPT !.state = to,
              !.lease = IF to \in TerminalStates /\ row.state # to
                        THEN "free" ELSE @]

-----------------------------------------------------------------------------
(* The task slots. *)
DrivingPcs == {"claimed", "planned", "inspected", "asking", "answered",
               "checking", "executing", "debugging", "verified"}
Turns == {"text", "applied", "skipped", "proposed"}

Slots == [pc : DrivingPcs \cup {"idle", "spawned"}, row : Rows \cup {NoRow},
          turn : Turns, plans : Seq(CommandKinds), tries : Nat,
          seen : SUBSET Statuses]

Slot(pc) == [pc |-> pc, row |-> NoRow, turn |-> "text", plans |-> <<>>,
             tries |-> 0, seen |-> {}]

Driving(w) == run[w].pc \in DrivingPcs
Undriven   == \A w \in Workers : ~Driving(w)

Init ==
  /\ \E project \in BOOLEAN : job = NewRow(project)
  /\ \E w \in Workers :
       run = [v \in Workers |-> Slot(IF v = w THEN "spawned" ELSE "idle")]
  /\ exec = [w \in Workers |-> "none"]
  /\ canc = [w \in Workers |-> NoRow]
  /\ up = [w \in Workers |-> TRUE]
  /\ crashes = 0

(* spawn() returns at once while _RUNNING holds a live task of the job.  With *)
(* _INLINE the slot is the request itself, so a second request has another.   *)
Serves(w) == up[w] /\ (Inline => run[w].pc = "idle")

Spawn(w) ==
  run' = IF run[w].pc = "idle" THEN [run EXCEPT ![w] = Slot("spawned")]
         ELSE run

(* Mutant of Claim: the UPDATE does not test the lease. *)
ClaimWithoutLease(w) ==
  /\ run[w].pc = "spawned" /\ Inline
  /\ job' = [job EXCEPT !.lease = "held", !.attempt = @ + 1]
  /\ run' = [run EXCEPT ![w].pc = "claimed", ![w].row = job']
  /\ UNCHANGED <<exec, canc, up, crashes>>

(* claim(): the first test looks the job up in _RUNNING, where spawn() has    *)
(* just put the very task that is asking; only with _INLINE is the map empty. *)
(* The UPDATE that follows tests the lease and not the state.                 *)
Claim(w) ==
  /\ run[w].pc = "spawned"
  /\ IF Inline /\ job.lease # "held"
     THEN /\ job' = [job EXCEPT !.lease = "held", !.attempt = @ + 1]
          /\ run' = [run EXCEPT ![w].pc = "claimed", ![w].row = job']
     ELSE /\ run' = [run EXCEPT ![w] = Slot("idle")]
          /\ UNCHANGED job
  /\ UNCHANGED <<exec, canc, up, crashes>>

-----------------------------------------------------------------------------
(* run_job().  What a runner is about to move its copy of the job to; a step  *)
(* is taken only if the table allows the move, otherwise transition() raises. *)
Running(kind) == IF kind = "test" THEN "running_tests" ELSE "running_command"

Target(w) ==
  LET r == run[w] IN
  CASE r.pc = "claimed" -> "planning"
    [] r.pc = "planned" /\ job.project -> "inspecting_workspace"
    [] r.pc = "planned" /\ ~job.project -> "context_compiling"
    [] r.pc = "inspected" -> "context_compiling"
    [] r.pc = "answered" -> "brain_streaming"
    [] r.pc = "checking" /\ r.plans # <<>> -> Running(Head(r.plans))
    [] r.pc = "debugging" -> Running(Head(r.plans))
    [] r.pc = "checking" /\ r.plans = <<>> -> "verifying"
    [] r.pc = "verified" -> "completed"
    [] OTHER -> r.row.state

Steps(w, pc) ==
  /\ up[w] /\ run[w].pc = pc
  /\ Legal(run[w].row.state, Target(w))

(* Commit the copy as new and leave the slot as slot. *)
Commit(w, new, slot) ==
  /\ job' = Flush(run[w].row, new)
  /\ run' = [run EXCEPT ![w] = [slot EXCEPT !.row = new]]

(* Commit the copy as new; run_job() has returned. *)
Return(w, new) ==
  /\ job' = Flush(run[w].row, new)
  /\ run' = [run EXCEPT ![w] = Slot("idle")]

(* The plan step.  cancel_requested is looked at in the copy, here and once   *)
(* more after the inspection, where the copy still says the same.             *)
Plan(w) ==
  /\ Steps(w, "claimed")
  /\ LET new == [Moved(run[w].row, "planning") EXCEPT !.planned = TRUE]
     IN IF new.cancel THEN Return(w, new)
        ELSE Commit(w, new, [run[w] EXCEPT !.pc = "planned"])
  /\ UNCHANGED <<exec, canc, up, crashes>>

Inspect(w) ==
  /\ Steps(w, "planned") /\ job.project
  /\ Commit(w, Moved(run[w].row, "inspecting_workspace"),
            [run[w] EXCEPT !.pc = "inspected"])
  /\ UNCHANGED <<exec, canc, up, crashes>>

(* context_compiling is passed through without a commit. *)
Ask(w) ==
  /\ Steps(w, IF job.project THEN "inspected" ELSE "planned")
  /\ Commit(w, Moved(run[w].row, "waiting_for_brain"),
            [run[w] EXCEPT !.pc = "asking"])
  /\ UNCHANGED <<exec, canc, up, crashes>>

(* execute_turn() returns: files were applied, all of them were skipped, they *)
(* became proposals for the operator, or there were none.                     *)
BrainAnswers(w) ==
  /\ Steps(w, "asking")
  /\ \E turn \in Turns :
       run' = [run EXCEPT ![w].pc = "answered", ![w].turn = turn]
  /\ UNCHANGED <<job, exec, canc, up, crashes>>

(* Mutant of AwaitApproval: the return after the commit is missing. *)
AwaitAndGoOn(w) ==
  /\ Steps(w, "answered") /\ run[w].turn = "proposed"
  /\ Commit(w, Moved(run[w].row, "awaiting_approval"),
            [run[w] EXCEPT !.pc = "verified"])
  /\ UNCHANGED <<exec, canc, up, crashes>>

AwaitApproval(w) ==
  /\ Steps(w, "answered") /\ run[w].turn = "proposed"
  /\ Return(w, [Moved(run[w].row, "awaiting_approval") EXCEPT
                  !.result = [kind |-> "awaiting", seen |-> {}]])
  /\ UNCHANGED <<exec, canc, up, crashes>>

(* Mutant of Finished: the state is stored as the outcome. *)
FinishedAsState(row, seen) ==
  [Moved(row, "completed") EXCEPT
     !.outcome = "completed", !.result = [kind |-> "done", seen |-> seen]]

Finished(row, seen) ==
  [Moved(row, "completed") EXCEPT
     !.outcome = CompletionOutcome("passed" \in seen, "failed" \in seen),
     !.result = [kind |-> "done", seen |-> seen]]

Checks(w) == run[w].turn = "applied" /\ job.project

(* Nothing was applied, or nothing was inspected: no command is looked for. *)
FinishUnchecked(w) ==
  /\ Steps(w, "answered") /\ run[w].turn # "proposed" /\ ~Checks(w)
  /\ Return(w, Finished(run[w].row, {}))
  /\ UNCHANGED <<exec, canc, up, crashes>>

(* _verify_after_write(): commands are detected and an executor is resolved.  *)
(* With both, the copy stands at writing_files, not yet committed.            *)
StartChecks(w) ==
  /\ Steps(w, "answered") /\ Checks(w)
  /\ \E plans \in PlanLists, executor \in BOOLEAN :
       IF plans # <<>> /\ executor
       THEN /\ run' = [run EXCEPT ![w].pc = "checking", ![w].plans = plans,
                                  ![w].row.state = "writing_files"]
            /\ UNCHANGED job
       ELSE Commit(w, Moved(run[w].row, "verifying"),
                   [run[w] EXCEPT !.pc = "verified"])
  /\ UNCHANGED <<exec, canc, up, crashes>>

(* The step of the next command: authorize_command() commits the new state;   *)
(* a denied command is only noted, an allowed one is recorded and started.    *)
RunCheck(w) ==
  /\ Steps(w, "checking") /\ run[w].plans # <<>>
  /\ LET new == Moved(run[w].row, Running(Head(run[w].plans)))
     IN \/ /\ Commit(w, new, [run[w] EXCEPT !.plans = Tail(@),
                                           !.seen = @ \cup {"denied"}])
           /\ UNCHANGED exec
        \/ /\ Commit(w, new, [run[w] EXCEPT !.pc = "executing", !.tries = 1])
           /\ exec' = [exec EXCEPT ![w] = "running"]
  /\ UNCHANGED <<canc, up, crashes>>

(* The command ended with status.  A failure is handed to the Brain while     *)
(* attempts are left; the first commit of that turn makes debugging visible.  *)
CommandEnds(w) ==
  /\ Steps(w, "executing")
  /\ \E status \in Statuses \ {"denied"} :
       IF status = "failed" /\ run[w].tries < MaxAttempts /\ ~run[w].row.cancel
       THEN Commit(w, Moved(run[w].row, "debugging"),
                   [run[w] EXCEPT !.pc = "debugging"])
       ELSE /\ run' = [run EXCEPT ![w].pc = "checking", ![w].plans = Tail(@),
                                  ![w].seen = @ \cup {status}]
            /\ UNCHANGED job
  /\ exec' = [exec EXCEPT ![w] = "none"]
  /\ UNCHANGED <<canc, up, crashes>>

(* The Brain's fix is applied and the same command starts again. *)
Rerun(w) ==
  /\ Steps(w, "debugging")
  /\ Commit(w, Moved(run[w].row, Running(Head(run[w].plans))),
            [run[w] EXCEPT !.pc = "executing", !.tries = @ + 1])
  /\ exec' = [exec EXCEPT ![w] = "running"]
  /\ UNCHANGED <<canc, up, crashes>>

(* Mutant of Summarize: the outcome is stored with the state verifying. *)
SummarizeWithOutcome(w) ==
  /\ Steps(w, "checking") /\ run[w].plans = <<>>
  /\ Commit(w, [Moved(run[w].row, "verifying") EXCEPT
                  !.outcome = "completed_unverified"],
            [run[w] EXCEPT !.pc = "verified"])
  /\ UNCHANGED <<exec, canc, up, crashes>>

Summarize(w) ==
  /\ Steps(w, "checking") /\ run[w].plans = <<>>
  /\ Commit(w, Moved(run[w].row, "verifying"), [run[w] EXCEPT !.pc = "verified"])
  /\ UNCHANGED <<exec, canc, up, crashes>>

Complete(w) ==
  /\ Steps(w, "verified")
  /\ Return(w, Finished(run[w].row, run[w].seen))
  /\ UNCHANGED <<exec, canc, up, crashes>>

(* Mutant of Raise: the job is failed whatever it is by now. *)
RaiseOverTerminal(w) ==
  /\ up[w] /\ Driving(w)
  /\ "fault" \in Env \/ ~Legal(run[w].row.state, Target(w))
  /\ job' = Moved(job, "failed")
  /\ run' = [run EXCEPT ![w] = Slot("idle")]
  /\ UNCHANGED <<exec, canc, up, crashes>>

(* An exception leaves run_job(): the session is rolled back, the row is read *)
(* again, and the job is failed unless it is terminal by now.                 *)
Raise(w) ==
  /\ up[w] /\ Driving(w)
  /\ \/ "fault" \in Env
     \/ ~Legal(run[w].row.state, Target(w))
  /\ job' = IF job.state \in TerminalStates THEN job ELSE Moved(job, "failed")
  /\ run' = [run EXCEPT ![w] = Slot("idle")]
  /\ UNCHANGED <<exec, canc, up, crashes>>

-----------------------------------------------------------------------------
(* Requests. *)

(* A second POST with the same idempotency key finds the job and spawns it    *)
(* again if it reads it queued.                                               *)
PostAgain(w) ==
  /\ Serves(w) /\ job.state = "queued"
  /\ Spawn(w)
  /\ UNCHANGED <<job, exec, canc, up, crashes>>

(* Without cancel_live one cancel at a time is in flight, and nobody touches  *)
(* the job meanwhile: if somebody does, the cancel comes to nothing.          *)
MayCancel(row) == \/ "cancel_live" \in Env
                  \/ "cancel" \in Env /\ Undriven /\ job = row
MayRetry  == "retry_live" \in Env \/ ("retry" \in Env /\ Undriven)

(* request_cancel() reads the row, stops the job's commands and commits; a    *)
(* runner's commit may fall between its read and its first flush.             *)
CancelRead(w) ==
  /\ up[w] /\ canc[w] = NoRow /\ MayCancel(job)
  /\ "cancel_live" \in Env \/ \A v \in Workers : canc[v] = NoRow
  /\ job.state \notin TerminalStates
  /\ canc' = [canc EXCEPT ![w] = job]
  /\ UNCHANGED <<job, run, exec, up, crashes>>

CancelCommit(w) ==
  /\ up[w] /\ canc[w] # NoRow /\ MayCancel(canc[w])
  /\ job' = Flush(canc[w], [Moved(canc[w], "cancelled") EXCEPT !.cancel = TRUE])
  /\ exec' = [v \in Workers |-> IF exec[v] = "running" THEN "cancelled"
                                ELSE exec[v]]
  /\ run' = IF ~Inline THEN [run EXCEPT ![w] = Slot("idle")] ELSE run
  /\ canc' = [canc EXCEPT ![w] = NoRow]
  /\ UNCHANGED <<up, crashes>>

(* Any retryable step may be named, whatever state the job is in. *)
Retry(w) ==
  /\ Serves(w) /\ MayRetry /\ job.planned /\ job.attempt < MaxClaims
  /\ job' = [job EXCEPT !.state = "queued", !.cancel = FALSE, !.lease = "free"]
  /\ Spawn(w)
  /\ UNCHANGED <<exec, canc, up, crashes>>

Resume(w) ==
  /\ Serves(w) /\ job.attempt < MaxClaims
  /\ job.state \notin TerminalStates /\ job.lease # "held"
  /\ Spawn(w)
  /\ UNCHANGED <<job, exec, canc, up, crashes>>

-----------------------------------------------------------------------------
(* Processes and time. *)
Crash(w) ==
  /\ up[w] /\ crashes < MaxCrashes
  /\ up' = [up EXCEPT ![w] = FALSE]
  /\ run' = [run EXCEPT ![w] = Slot("idle")]
  /\ canc' = [canc EXCEPT ![w] = NoRow]
  /\ crashes' = crashes + 1
  /\ UNCHANGED <<job, exec>>

(* The orderly end of a process: shutdown().  Requests were drained before    *)
(* it, inline runs with them; a background run is cancelled, and its handler  *)
(* cancels the job unless it is terminal by now.                              *)
Shutdown(w) ==
  /\ up[w] /\ crashes < MaxCrashes
  /\ canc[w] = NoRow /\ (Inline => run[w].pc = "idle")
  /\ job' = IF Driving(w) /\ job.state \notin TerminalStates
            THEN Moved(job, "cancelled") ELSE job
  /\ up' = [up EXCEPT ![w] = FALSE]
  /\ run' = [run EXCEPT ![w] = Slot("idle")]
  /\ crashes' = crashes + 1
  /\ UNCHANGED <<exec, canc>>

(* Mutant of Start: the process does not look for orphans. *)
StartWithoutRecovery(w) ==
  /\ ~up[w]
  /\ up' = [up EXCEPT ![w] = TRUE]
  /\ UNCHANGED <<job, run, exec, canc, crashes>>

(* The start of a process, which may come while the lease of a dead run is    *)
(* still held: recover_orphaned_jobs() passes over such a job.                *)
Start(w) ==
  /\ ~up[w]
  /\ up' = [up EXCEPT ![w] = TRUE]
  /\ IF job.state \in ActiveStates /\ job.lease # "held" THEN Spawn(w)
     ELSE UNCHANGED run
  /\ UNCHANGED <<job, exec, canc, crashes>>

(* LEASE_SECONDS is far longer than a scheduled task waits for its turn. *)
LeaseLapses ==
  /\ job.lease = "held" /\ ("lease_lapse" \in Env \/ Undriven)
  /\ \A w \in Workers : run[w].pc # "spawned"
  /\ job' = [job EXCEPT !.lease = "lapsed"]
  /\ UNCHANGED <<run, exec, canc, up, crashes>>

-----------------------------------------------------------------------------
RunnerStep(w) ==
  \/ Plan(w) \/ Inspect(w) \/ Ask(w) \/ BrainAnswers(w) \/ AwaitApproval(w)
  \/ FinishUnchecked(w) \/ StartChecks(w) \/ RunCheck(w) \/ CommandEnds(w)
  \/ Rerun(w) \/ Summarize(w) \/ Complete(w) \/ Raise(w)

Request(w) ==
  PostAgain(w) \/ CancelRead(w) \/ CancelCommit(w) \/ Retry(w) \/ Resume(w)

Next ==
  \/ \E w \in Workers : Claim(w) \/ RunnerStep(w) \/ Request(w) \/ Crash(w)
                         \/ Shutdown(w) \/ Start(w)
  \/ LeaseLapses

Spec == Init /\ [][Next]_vars

(* A task that can proceed is scheduled, a process that died is started       *)
(* again, and time passes: strongly fair, since repeated POSTs may keep a     *)
(* claim pending again and again.  Nobody has to send a request.              *)
FairSpec ==
  /\ Spec
  /\ \A w \in Workers : /\ WF_vars(Claim(w)) /\ WF_vars(RunnerStep(w))
                        /\ WF_vars(Start(w))
  /\ SF_vars(LeaseLapses)

-----------------------------------------------------------------------------
(* Properties. *)

TypeOK ==
  /\ job \in Rows
  /\ run \in [Workers -> Slots]
  /\ exec \in [Workers -> {"none", "running", "cancelled"}]
  /\ canc \in [Workers -> Rows \cup {NoRow}]
  /\ up \in [Workers -> BOOLEAN]
  /\ crashes \in Nat

(* No two runners ever drive the job at the same time (claim: "two processes  *)
(* resuming the same job cannot both win, so a job is never run twice").      *)
OneDriver == \A v, w \in Workers : Driving(v) /\ Driving(w) => v = w

(* A terminal job is never moved again, except back to queued by a retry      *)
(* (cowork_states: "a job in a terminal state is never advanced again; only   *)
(* retry/resume may move it").                                                *)
TerminalIsFinal ==
  [][job.state \in TerminalStates /\ job'.state # job.state
       => job'.state = "queued"]_vars

(* No runner of a live job ever asks transition() for a move the table        *)
(* refuses ("an illegal transition is a programming error").  A runner that   *)
(* claims a job which has become terminal is refused, and that is harmless.   *)
NoIllegalMove ==
  \A w \in Workers : Driving(w) /\ run[w].row.state \notin TerminalStates
                      => Legal(run[w].row.state, Target(w))

(* A cancelled job stays cancelled until it is retried (test_cowork_lifecycle *)
(* test_cancel_is_durable_and_terminal: "the result is terminal and recorded  *)
(* durably").                                                                 *)
CancelIsFinal ==
  [][job.state = "cancelled" => job'.state \in {"cancelled", "queued"}]_vars

(* A command that was stopped because its job was cancelled does not count as *)
(* a failure to be debugged: no Brain is asked to change files for it.        *)
NoFixAfterCancel ==
  [][\A w \in Workers : exec[w] = "cancelled" => run'[w].pc # "debugging"]_vars

(* The outcome of a completed job is the one its own stored report supports:  *)
(* verified means that a command passed and none was left failing.            *)
OutcomeFollowsReport ==
  job.state = "completed" =>
    /\ job.result.kind = "done"
    /\ job.outcome = "completed_verified" <=>
         "passed" \in job.result.seen /\ "failed" \notin job.result.seen
    /\ job.outcome = "completed_with_failures" <=> "failed" \in job.result.seen

(* An outcome is stored by the commit that completes the job and by no other, *)
(* also when the job carries the outcome of an earlier run that was retried.  *)
OutcomeAtCompletion ==
  [][job'.outcome # job.outcome => job'.state = "completed"]_vars

(* A job that waits for the operator's decision is never carried on: no       *)
(* recovery, resume, timeout or late commit makes it work or complete.  What  *)
(* ends the wait is a cancel, a retry, or the failure of whoever took it up.  *)
ApprovalIsKept ==
  [][job.state = "awaiting_approval"
       => job'.state \in {"awaiting_approval", "cancelled", "queued", "failed"}]_vars

(* The same as cowork_runner.run_job puts it ("it stays durable until the     *)
(* operator decides"): nothing but a cancel or a retry ends the wait.         *)
WaitsForOperator ==
  [][job.state = "awaiting_approval"
       => job'.state \in {"awaiting_approval", "cancelled", "queued"}]_vars

(* Whatever dies on the way, a job that is in flight comes to rest: terminal, *)
(* or waiting for a human ("continues instead of hanging forever").           *)
Settles == job.state \in ActiveStates ~> job.state \notin ActiveStates

(* What the code does achieve of it: a job in flight comes to rest if it is   *)
(* driven, or if its lease is over while a runner is about to claim it or a   *)
(* process has yet to start, unless another process dies.                     *)
InHand ==
  \/ ~Undriven
  \/ job.lease # "held" /\ \E w \in Workers : ~up[w] \/ run[w].pc = "spawned"

InHandSettles ==
  \A n \in 0..MaxCrashes :
    job.state \in ActiveStates /\ InHand /\ crashes = n
      ~> job.state \notin ActiveStates \/ crashes > n

(* While jobs are cancelled and retried only when nobody drives them, the row *)
(* and its runners behave as the lifecycle a client relies on.                *)
Lifecycle == INSTANCE CoworkLifecycle
               WITH state <- job.state, outcome <- job.outcome,
                    driven <- ~Undriven
LifecycleKept == Lifecycle!Spec
=============================================================================
