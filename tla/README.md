# Enkstein: a verification project

TLA+ models, TLC configurations and TLAPS proofs for the Enkstein backend
(`backend/app`, above all `core/marcellus`). Paths below are relative to
`backend/app/` unless they say otherwise; `cowork_jobs.py:419` means
`core/marcellus/cowork_jobs.py`, line 419.

The backend is an asyncio web application over one SQL database. Most of its
state is rows, and most of its hazards come from three facts:

* a request, and a background task, works on a **copy** of the rows it read.
  Sessions are opened with `expire_on_commit=False` (`core/database.py:15`), so a
  copy survives commits; a commit writes the columns in which the copy was
  changed, and nothing else;
* almost every handler **commits in the middle** (the Trust Fabric's `enforce()`
  does so on behalf of its caller), so a check and the write it guards are two
  transactions;
* what runs in a process **dies with it**; what is in the row does not.

Each module cuts the handlers of one component at exactly those commits.

## Inventory

| Component | State | Operations | Hard parts | Correct when | Module |
|---|---|---|---|---|---|
| Cowork lifecycle (`cowork_states`) | none: vocabulary, table of moves, outcome of a completed job | `can_transition`, `completion_outcome` | the table must list every order the runner can produce | the runner never asks for a move that is not listed | `CoworkStates`, `CoworkLifecycle` |
| Cowork job (`cowork_jobs`, `cowork_runner`, `cowork_routes`) | job row (state, outcome, result, cancel flag, lease, attempt); `_RUNNING`; live executions | post, claim, run (plan, inspect, ask, write, verify, debug, complete), cancel, retry, resume, recover, shut down | several processes, stale copies, crash between commits, restart within the lease, cancel racing the runner | one driver; terminal is final; a job in somebody's hands comes to rest; the outcome follows the report and comes with the completion; a waiting job is not carried on | `CoworkJob` |
| Cowork timeline (`append_event`, `list_events`, stream) | numbered events; stream cursors | append, list, stream, reconnect | numbers computed as max+1 by each session; lost connections; two reads per poll | events become visible in order, without gaps; a client misses and repeats none | `CoworkTimeline` |
| Cowork browser task (`cowork_browser`) | task row: state, response | acknowledge, progress, complete | repeated and overlapping deliveries | the first response is kept | `CoworkBrowser` |
| Cowork commands and executors | execution rows, local bridge, Codex app server | detect, authorize, run, cancel | outcomes of every kind; cancel from another process | only a real pass counts as verified | inside `CoworkJob` |
| Plexus (`plexus`) | message rows | send, get, list, approve, acknowledge | check, commit, write; expiry at any time; one key sent twice | held messages pass the gate once; closed stays closed; one message per key | `Plexus` |
| Regeneration (`regeneration`) | run rows, runtime row, checkpoint rows | checkpoint, verify, start, approve, six stages | two runs of one node; request dies between stages | in service only after its own run's end | `Regeneration` |
| Swarm (`core/swarm`) | job rows, task rows, background and in-request runs | create, gate, approve, run tasks under a semaphore, refresh, judge, cancel | runs, cancels and approvals over stale copies; tasks that raise; crashes | nobody starts before the approval; a verdict covers every task; a cancel of a background run is kept | `Swarm` |
| Change proposals (`workspace.review_change_proposal`) | proposal and artifact rows, the local folder | propose, approve, reject, update | snapshot checked, then written, then committed | applied once, on the content that was reviewed | not modelled, see below |
| Missions (`missions`) | mission and observation rows | scheduler cycle, launch, report, review, pause, resume | the scheduler's lock ends with its first commit; the run ends long after; reviews and updates on copies | a due mission is served; every run is reported, at rest | `Missions` (composed with `Swarm`) |
| Reflexes (`reflexes`) | definitions, executions | evaluate, approve, effect | one event delivered twice, approvers racing, effect outside the transaction | the effect is begun at most once, and after an approval if it was held | `Reflexes` |
| Task graph (`modelclaw/task_graph`) | results of one request | validate, gather layer by layer, ask sources, skip, conclude | bounded seats, fallbacks, a node that raises while its siblings run on | nobody is asked without evidence; the request ends | `TaskGraph` |
| Exec channels (`api/routes/exec_channels`) | request rows, production gates | approve, reject, execute, roll back | approvals counted from copies | open only after two other people's approvals | `ExecChannels`, implements `ConsentGate` |
| Remote commands (`api/routes/remote_control`) | event rows with approvals in a JSON document | approve, reject, change of policy, bulk review | the whole document is written back from a copy | allowed only after as many approvals as the most lenient policy so far | `RemoteCommands`, implements `ConsentGate` |
| Remediation (`services/remediation/engine`) | action rows | approve, expire, execute, reject, roll back | unconditional writes of the status; crash while executing | rolled back only with the data of a success | `Remediation` |
| Circuit breaker (`services/sre_policy`) | window of outcomes, open time; Redis copy | check, record, reset, restart | stale or unreachable Redis; successes that reopen | closes for good when failures stop | `Breaker` |
| Agent and workflow runs, triggers, schedules, governed memory | run rows, proposals | run, step, approve, schedule | retries, overlapping schedules | gates held, steps once | not modelled, see below |
| Trust Fabric (`trust_fabric`) | audit, containment, anomaly counters | enforce, contain | commits inside its callers; counters | containment is not lost | decision and commit only |
| Context compiler, inspection, research, office, token hygiene | none | text and document processing | budgets | - | not modelled |
| Model gateway (`core/modelclaw`), native workspace, Codex bridge | external | calls | slow, failing, lost | - | nondeterministic answers |
| Claws, REST routes, dashboards | rows | import and read | - | - | not modelled |
| `enkstein-core` (pure functions), `frontend`, `browser-extension`, `cli`, `mcp-server`, `packaging` | - | - | - | - | appear only as clients, or not |

How they interact: the routes create a job and spawn a runner; the runner, the
cancel and retry requests, the recovery at start-up and the Companion's requests
all write the job's row or its timeline, each over its own session; clients only
read, by polling or over the stream. Plexus and Regeneration share no state with
Cowork; each asks `enforce()` for a decision, which commits. The mission scheduler
and the routes of missions, presets, triggers and schedules create swarm jobs;
a mission's run is a swarm job in the background, whose end it reports. Reflexes
act by sending Plexus messages. The remaining services share no state.

## Modules

* **`CoworkStates`** is the vocabulary and the table `_FORWARD`, with
  `CanTransition` and `CompletionOutcome`.
* **`CoworkLifecycle`** is the abstract specification: a job with a state and an
  outcome, driven by at most one runner, which moves only along the table.
  It knows no row, lease, session, process or crash bookkeeping. One durable step
  may pass through up to two stages that are never committed (for example
  `brain_streaming` and `writing_files`), which `Passes` allows.
* **`CoworkJob`** is one job as the code runs it. `job` is the row; `run[w]` is
  the task slot of process `w` with its program counter and its *copy* of the row;
  `exec[w]` the execution record of its latest command; `canc[w]` the copy a cancel
  request holds between its read and its flush; `up` and `crashes` the
  processes. `Flush(old, new)` writes the changed columns. Each action is what
  the code does between two commits: `Claim`, `Plan`, `Inspect`, `Ask`,
  `BrainAnswers`, `AwaitApproval`, `FinishUnchecked`, `StartChecks`, `RunCheck`,
  `CommandEnds`, `Rerun`, `Summarize`, `Complete`, `Raise`; and the requests
  `PostAgain`, `CancelRead`/`CancelCommit`, `Retry`, `Resume`; and `Crash`,
  `Shutdown` (the orderly end of a process), `Start` (recovery, at any time after either)
  and `LeaseLapses`. `Steps` refuses a move that the table
  refuses; `Raise` is then the only thing the runner can do.
  `Inline` is `_INLINE`, `Env` names what else may happen, so that one module
  serves the calm environment of the proofs and the rough one of the findings.
* **`CoworkTimeline`** is the sequence numbers and the stream: `Allocate` and
  `Insert` are the two round trips of `append_event`, with the unique index making
  the second of two equal numbers wait and then fail; `ReadJob`, `ListEvents`,
  `Send`, `EndPage` are one poll of the stream, `Drop` and `Connect` the client.
* **`CoworkBrowser`** extends it with the browser task: a request reads the task,
  decides, appends its event through the timeline's actions, and commits both.
* **`Plexus`** is the mailbox, each handler a step that reads and a step that
  writes; only the approval's write is conditional on the status.
* **`Regeneration`** is one node's runs and its runtime row. A request that
  performs a run keeps copies of the run's stages and of the runtime;
  `Recorded` is `_record_stage` with the changes it commits.
* **`Swarm`** is the tables of swarm jobs and tasks and a set of sessions
  (`slot`): requests and background runs. A session's `todo`, `busy`, `good`, `bad`
  are the tasks of `_run_bounded_parallel_tasks`. `Create`/`AddTasks` are the two
  commits of `create_swarm_job`; `ReadJob`, `Start`, `ListTasks`, `BeginTask`,
  `EndTask`, `Settle` (with the refresh), `Fail`, `Judge` a run; `CancelRead`/`CancelTasks`/`CancelWrite`
  and `ApproveRead`/`Approve`/`Finalize` the requests. `approved`, `dropped` and
  `crashed` are history.
* **`Missions`** extends `Swarm`: `flight` is what the missions code does in a slot
  around the swarm's steps (`SwarmWork`). `Pick`, `Admit`, `Deny`, `Record` are the
  scheduler's cycle and `launch_mission`; `Report`, `Observe` are `run_mission_job` after
  `run_swarm_job` returned; `ReviewRead`/`ReviewWrite` and `UpdateRead`/`UpdateWrite`
  the operator's requests; `Die` a crash of the slot with both parts.
* **`TaskGraph`** is one request: a nondeterministic acyclic graph, nodes that move
  from `listed` over `seated` and `asking` to a result; `layer` is the gather under way
  and `results` what the request has from earlier ones. A raising node fails the
  request while its siblings run on.
* **`ConsentGate`** is the second abstract specification: a quorum, the people who
  consented, and whether the thing is open. It knows no row, copy or request.
* **`ExecChannels`** and **`RemoteCommands`** implement it (`ExecConsent`,
  `CommandConsent`). Each follows one row; a call reads, decides on its copy and writes the
  columns it changed. A request counts its approvers in two columns, a gate in a
  list, a command in a document that is written back whole. `signed` and
  `endorsed`, the history of committed approvals, are what the quorum counts,
  because the rows forget. The requester of either is a text from the body of the request that
  created it (`exec_channels.py:278`, `:429`, `remote_control.py:202`), while an approver is the
  caller: the promise is about the name in the row, whoever wrote it, and the name
  may belong to nobody. The runs take the stricter case, the name of one of the staff.
* **`Reflexes`** is the executions of one reflex, `Insert` with its unique constraint,
  `ClaimExecution` with its conditional UPDATE, `Begin`/`End` the effect.
* **`Remediation`** is one action and whoever works on it; no write is conditional.
* **`Breaker`** is one module's circuit: counts of the two halves of the window, the
  open flag, the copy in Redis, the requests between check and record.
* The theorems are in **`CoworkJobProofs`**, **`CoworkBrowserProofs`** (the timeline too),
  **`PlexusProofs`**, **`RegenerationProofs`**, **`SwarmProofs`** (`Swarm` and `Missions`),
  **`TaskGraphProofs`** (`TaskGraph`, `Breaker` and their composition `MCProgress`),
  **`ConsentProofs`** (`ExecChannels` and `RemoteCommands`) and **`ServiceProofs`**
  (`Reflexes`, `Remediation` and the composition `MCServices`).
* **`MCCommits`**, **`MCServices`** and **`MCProgress`** hold several components that share no state.
  `part` picks one of them; only that one moves, so the states are the sum and
  not the product of the parts.
* `MC*` modules give TLC values for the constants. Operators introduced as
  "Mutant of ..." are bugs that could plausibly be made at that place; each is
  used only to show that a property notices it.

## Runs

| Run | Shows |
|---|---|
| `MCCoworkJob_calm` | two processes, one crash or shutdown at any point and the restart at any time after it, a fault at any step, repeated posts, a job resumed or retried once, cancel and retry of jobs nobody drives: types, one driver, terminal is final, the outcome follows the stored report and is written only by the commit that completes the job, a job awaiting approval is never carried on, a job in somebody's hands comes to rest (`InHandSettles`, under fairness), and **the refinement** `LifecycleKept` |
| `MCCommits_commits` | two sessions append while a client follows, drops and reconnects, and the Companion delivers: numbers without gaps, replay is exact, `job_finished` comes after the event that ended the job, the first response is kept; three runs of a node, three requests: gate, stages once and in the code's order, in service only after its own run ended, containment before replacement |
| `MCPlexus_mailbox` | two messages, three requests, three people: the approval gate, one message per key, one approval, closed stays closed |
| `MCServices_services` | a mission and its job over three sessions, two tasks: no task before the approval, verdicts on all tasks, cancels kept, observations of jobs at rest; exec channels and commands **implement `ConsentGate`**; a reflex's effect happens once; a rollback has data |
| `MCProgress_progress` | under fairness: due missions are served, every run of a mission is reported, a task graph ends, the breaker recovers; no specialist is asked without evidence |
| `MCCoworkJob_inprocess` | finding 1 |
| `MCCoworkJob_npm` | finding 2 |
| `MCCoworkJob_recover` | finding 3 |
| `MCCoworkJob_cancel` | finding 4 |
| `MCRegeneration_overlap` | finding 5 |
| `MCCoworkJob_hangs` | finding 6 |
| `MCRegeneration_documented` | finding 7 |

### Bounds

`MaxClaims` bounds how often requests restart a job (2: a run and one more, by a retry or
a resume), `MaxCrashes` how often a process dies or is stopped (1), `MaxAttempts` is the
code's own 2. Two processes are enough for every race on one row and one lease. A job has
no command or two in a row that the table allows; what other orders do is finding 2, and
beyond the last state the loop over the commands remembers only the set of statuses seen. `MaxEvents` = 3 with
`PageLimit` = 2 makes a timeline longer than a page, as 500 is to real timelines.
Plexus has two messages so that one key can clash and so that `list` can
expire one while the other is approved; three requests allow two approvals and
an expiry in flight. Regeneration has three runs, so that one can fail after
another has put the runtime in service. Sets are symmetric and used only through
equality, so the symmetry reduction is sound; no liveness is checked under it, so `calm`
has none.

In `services` one job with two tasks and three sessions puts the scheduler's cycle and
two requests in flight together: its run with a cancel, a cancel with an approval, two
approvals. Jobs do not share state, so a second one only adds its own copies. `OneUpdate` in
`MCServices` lets one session at a time be about to change the mission itself; neither
`progress` nor the theorems have that bound. `Parallelism` = 1 makes one task wait for
the other. Four people and two calls let two overlapping approvals be
counted from one copy and the third and fourth person sign afterwards; three calls of a
reflex or of a remediation are a delivery and two approvals, or an approval, a
rejection and a rollback. In `progress`, three nodes give every acyclic graph with two
layers and a node that waits for two; two seats and two sources make a node wait and
fall back; `MaxSamples` = 4 is twice `MinSamples`, the least at which a success can
reopen the circuit.

`CHECK_DEADLOCK FALSE` is set because jobs, messages and runs legitimately end.

### What the runs assume

* `Inline = TRUE` in the runs of a job other than `inprocess`. With background runners the
  code as it is claims nothing (finding 1), so that every property of a running job would
  hold because none ever runs. It is the mode of the tests, and what the runner would
  be with the finding repaired, since the lease and not `_RUNNING` separates processes.
  For the same reason no background runner is ever there for `Shutdown` to cancel.
* `cancel` and `retry` in run `calm` come when nobody drives the job, one cancel at a
  time is in flight and nobody touches the job meanwhile. With a live runner they break properties (finding 4 and the list below); the environment
  kinds `cancel_live`, `retry_live` and `lease_lapse` in `CoworkJob` are there to show it.
* Nothing is assumed of when a process comes back: `Start` may come while the lease of the
  run that died is held, and then adopts nothing (finding 6).
* `Overlapping = FALSE` in `commits`: the Companion sends one request at a time, though
  no line of the backend enforces it. `Overlap = FALSE` there: one request to start a
  regeneration at a time; `overlap` drops it.
* A scheduler's cycle takes one mission at a time. Missions have a cadence other than
  `manual`, whose missions are never due; an archived mission counts as paused.
  A database error in a handler is a crash of its session.
* Budget and cooldown of a reflex are nondeterministic refusals, provider modules
  and sources of a task graph nondeterministic answers.
* The breaker's clock is coarse: a tick is half a window (15 minutes), longer
  than the open time (2 minutes), so a circuit that is not opened again is closed
  within a tick.
* A commit is atomic, and the unique constraints hold: the database's promise.

### Fairness

`FairSpec` asks for weak fairness of a runner's steps and of its claim (the event
loop schedules a ready task), weak fairness of `Start` (the supervisor of the
container or desktop application restarts a process that died), and strong
fairness of `LeaseLapses` (time passes; strong because repeated posts may keep a
claim pending and each of them disables the action). No request is assumed
to be sent. `Start` is fair but may come too early: that is why `Settles` fails, and why
`InHandSettles` speaks only of a job that somebody drives, or whose lease is over while
somebody is about to claim it or a process has yet to start. Steps of the Brain and of commands end because the code gives each a
timeout, whose expiry is one of their outcomes.

`MissionFairness` asks for weak fairness of what a session has begun (the event loop)
and of the scheduler's `Pick`: `mission_scheduler_loop` catches what a cycle raises and
starts the next one a minute later, oldest due mission first. A scheduler waits for
the runs it launched; that is in the model, and the runs end because tasks and
judge do. After a crash nothing is promised, because the code resumes nothing:
`DueIsServed` and `EveryRunReported` end at `crashed`. `GraphFairness` is weak fairness
of the request's and each node's coroutine; each ask has a timeout.
`BreakerFairness` is that time passes.

## What is proved

Every invariant, action property and refinement that a passing run checks is also
a theorem, for all values of the constants that satisfy the named assumptions. The
five liveness properties are not.

| Properties | Theorems | Under |
|---|---|---|
| `TypeOK` of `CoworkJob` | `TypeCorrect` | |
| `OneDriver`, `TerminalIsFinal`, `OutcomeFollowsReport`, `LifecycleKept` | `OneRunner`, `TerminalKept`, `OutcomeReported`, `ImplementsLifecycle` | `Undisturbed` |
| `OutcomeAtCompletion`, `ApprovalIsKept` | `OutcomeStoredAtEnd`, `ApprovalKept` | `Undisturbed` |
| `CancelIsFinal`, `NoIllegalMove` (the runs `cancel`, `npm` and `recover` violate them) | `CancelKept`, `MovesAllowed` | `Undisturbed`; the second also `NeverRestarted`, `NeverCrashes`, `TestsLast` |
| `NoGaps`, `ExactReplay`, `FinishedMeansComplete`, `BrowserTypeOK` | `NumbersWithoutGaps`, `ReplaysExactly`, `FinishedHasAll`, `BrowserTypeCorrect` | |
| `FirstResponseKept` | `FirstResponseStays` | `~Overlapping` |
| all five of `Plexus` | `TypeCorrect`, `GateAlwaysHeld`, `KeysAreUnique`, `ApprovalCountsOnce`, `ClosedStaysClosed` | |
| `RegenerationTypeOK`, `GateHeld`, `StagesInOrder` | `RegenerationTypeCorrect`, `RegenerationGate`, `RegenerationInOrder` | |
| `ActiveMeansChecked`, `ContainedFirst`, `FailedRemainsContained` | `ActiveIsChecked`, `ReplacedWhenContained`, `FailureKeepsContained` | `~Overlap` |
| `RunsOnlyApproved`, `VerdictOnAll`, `CancelSticks`, `ObservedAtRest` | `ApprovalBeforeTasks`, `VerdictOnEveryTask`, `CancelIsKept`, `ObservationsAtRest`, `MissionsKeepSwarm` | |
| `ExecConsent`, `CommandConsent` | `ExecImplementsGate`, `CommandImplementsGate` | |
| `EffectOnce`, `RolledBackWithData` | `EffectBegunOnce`, `RollbackHasData` | |
| `ServicesTypeOK` and the others of `services`, all parts together | `ServicesTypeCorrect`, `ServicesKeepTheirs` | |
| `AskedOnEvidence`, `ProgressTypeOK` | `EvidenceFirst`, `ProgressTypeCorrect` | |

The hypotheses are those of the run that checks the property (or weaker ones), and
each run satisfies its own. Where one is needed, a run or the list of findings shows
the behaviour it excludes.

### The Cowork job

`CoworkJobProofs`, for every set of processes, every number of crashes and claims
and every list of commands:

* `TypeCorrect`: not immediate, since the row is a mixture of
  columns flushed from several copies. The strengthening `Typed` adds that a
  runner that drives holds a row, and that one that executes or debugs has a
  command in hand.
* `OneRunner` and `TerminalKept`, both assuming `Undisturbed`: nobody
  cancels or retries a job that is being driven, and no run outlasts its lease.
  Faults, crashes, shutdowns, restarts at any time, repeated posts and resumes are all allowed.
  `CancelKept` is the same for a cancelled job: the run `cancel` finds its
  counterexample by cancelling a job that is driven, and only there can there be one.

The inductive invariant is `IInv == Typed /\ OneDriver /\ Leased /\ Fresh`.
`OneDriver` alone is not inductive: a second claim is refused only because the
lease is held, so `Leased` says that whoever drives holds the lease in the row. It also
says that whoever drives is an inline runner: a background runner gives way to itself
(finding 1), so no shutdown finds one whose job it would cancel.
Whether the lease stays there depends on what the copies flush: a copy that has
become terminal would free it, and a commit would overwrite a terminal row, so
`Fresh` says that the row and the copies of all drivers and cancel requests are
live, and that a runner fresh from its claim sees the row's state. `Typed` is
needed for the slots to be functions at all. Each action has a lemma for
what it does to slots, lease and copies; the theorems follow in a few steps.

* `OutcomeReported` and `ImplementsLifecycle` rest on `JobInv`, which adds to `IInv` the
  place of the runner: `InStage` says which durable states go with each `pc`, and that
  the copy agrees with the row in state, outcome and result, except between the end
  of the turn and the first command, where the copy says `writing_files` and the row
  still `waiting_for_brain`. Then a flush of changed columns writes the
  copy (`StoredNow`), and each step is a step of `CoworkLifecycle`, or none: `Passages` lists the moves
  that skip states which are never committed. The refinement mapping
  keeps the row's state and outcome, and whether somebody drives.
* `OutcomeStoredAtEnd` follows from the refinement, since only `Finish` of the lifecycle
  writes an outcome. It holds with retries, which keep the outcome of the run before.
* `ApprovalKept` is about a job that may be resumed, recovered, posted and retried at will. A runner
  that claims a waiting job asks for the move to `planning`, which the table refuses;
  `InStage` says that a driver of a waiting job is just past its claim, so the
  only thing it can do to the row is to fail the job (`WaitingRaises`).
* `MovesAllowed` is the counterpart of findings 2 and 3: when no command of another kind
  follows a test, no process dies and the job is not restarted, no runner asks for
  a refused move, whatever the commands return and however often the Brain repairs.
  `PlanInv` relates the copy's state to the commands that are left, `OnceInv` says that a
  job is claimed only when queued or over: otherwise its lease is held, or no task is left to claim it.

The only assumption on the constants is `JobAssumption`, which TLC evaluates in
every run of `MCCoworkJob`.

### The timeline and the browser task

`CoworkBrowserProofs`, for any number of sessions, clients and events and any page limit.
`NoGaps` is not inductive: a session computes a number from the log it sees and commits
it later. `TimelineInv` says that one session at most holds uncommitted numbers
(`OneHolder`: the unique index makes the others wait), and that it holds the interval right
above the log, so a commit extends the log by an interval. Of a stream `StreamKept`
says that its cursor is what the client has, that the page it is sending continues
there, and that a page read after the job was seen to have ended contains the
event that ended it, if one page can. `FirstResponseStays` needs requests that do not
overlap; then the copy a request holds is the row (`ServedAlone`), and what it will write
keeps a response that is in. Overlapping deliveries replace it.

### Plexus

`PlexusProofs`, for every set of messages, keys, people and requests in flight. The
invariant is `TypeOK /\ Aimed /\ GateHeld /\ Unapproved /\ OneMessagePerKey`.
`GateHeld` is not inductive because a request writes what it decided at an earlier
commit: `Aimed` says what stays true of the messages a request is about to write,
whatever other requests did since it read them (they are stored, the approver did
not create them, an acknowledged one has passed the gate). `Unapproved` says that a
message that waits has no approver yet, which is why the write of a second
approval, guarded by the status, cannot replace the first. Its assumption is
`PlexusAssumption`: the absent key and the absent person are not real ones.

### Regeneration

`RegenerationProofs`, for any number of runs, requests and people. `RunsInv` says of each
run which stages go with its status, and of each request that performs one that
its copy of the stages is the row's, that it is the only one to perform this run
(`OnePerformer`), and that the gate was passed if there was one; whoever
is about to approve is not the requester. This needs no assumption:
a new run is performed by the request that stored it, and of two approvals in flight the
conditional UPDATE (`regeneration.py:424`) lets one through. The three properties of the runtime need
`~Overlap`, since with two runs of one node the copy of the first puts the instance
of the second in service (finding 5). `SerialInv` adds that one run at most is under
way (`Active1`), that a request about to start one sees none (`StartKept`), and
that the performer's copy of the runtime is the row (`CopyKept`).

### Swarm and missions

`SwarmProofs`, for any number of jobs, participants and sessions and any parallelism. What a session is about to write was decided on an old read, so the
invariant `SwarmInv` says for each slot what still holds of its job (`KeptSlot`): a run
of a gated job has its approval, a working run has no pending task outside
`todo`, a verdict comes only when no task is pending. `Alone` says that the creator of a
job and its background run share it with cancels only; without it an approval could
complete a job whose cancel `DroppedKept` promises to keep.

Missions run these jobs in their own slots. `MissionInv` adds to `SwarmInv` what a flight may
rely on: a mission's job is driven by its own slot and no other until it is
over, and a job that is over (`JobOver`) rests, and whoever read it before has
nothing left but to cancel or finalize, so no stale request starts it again. That is why
an observation stays an observation of a job at rest. Each step of `Missions` is a step of
`Swarm` on the job or leaves the job alone, so `MissionsKeepSwarm` reuses the lemmas of
`SwarmInv` action by action.

### The other services

`TaskGraphProofs`, for every acyclic graph, any number of sources and seats, any window
of the breaker and any number of requests through it:
`GraphTypeCorrect`, `EvidenceFirst` (`AskedOnEvidence`), `LayerIsNeverEmpty`
(`NeverStuck`: acyclicity gives a ready node among the pending ones) and `SeatsSuffice`
(`WithinSeats`, by cardinalities). `BreakerCalmsDown` is the part of `Recovers` that is not
about time (`QuietThenClean`): while no decision fails, two half windows make the window
in memory and the one in Redis clean, and what is loaded, saved or lost later keeps them so; then no
success opens the circuit again. It needs `MinSamples` to be at least 1
(`BreakerAssumption`): with 0 an empty window would open it.

`ConsentProofs`, for any finite staff and any number of overlapping calls:
`ExecImplementsGate` and `CommandImplementsGate`, the two refinements of `ConsentGate`, and
as their consequence `ItemOpenByTwo` and `AllowedByQuorum`. The rows lose approvals, so
the invariants relate them, and the copies in flight, to the history: what a copy
counts was signed (`RowOnSigned`, `CopiesOnSigned`), and whoever is past the guard of an
open item, or about to execute it, has two signatures behind it (`SignedByTwo`).

`ServiceProofs`: `EffectBegunOnce`, for any number of events, deliveries and approvers (a
request that may begin an effect is the only one that owns its row, `OneOwner`), and
`RollbackHasData`, for any number of workers.

Assumptions are the named `ASSUME`s of the modules, evaluated by the runs. `Cardinality`
of an instance of `ConsentGate` is proved equal to that of the module around it.

### What is only model-checked

* The liveness properties `InHandSettles`, `DueIsServed`, `EveryRunReported`, `GraphEnds` and `Recovers`:
  fairness and `ENABLED` are out of the prover's reach. Proved of them is safety they
  rest on: `LayerIsNeverEmpty` for `GraphEnds`, `BreakerCalmsDown` for `Recovers`.
* The violations of the seven runs that expect one; a counterexample is its own proof.

For these the bounds of the runs are as argued under Bounds. The theorems have no bounds
other than those their statements name.

## What the models found

1. **No job runs outside the inline mode** (run `inprocess`). `spawn()` puts its
   task into `_RUNNING` (`cowork_jobs.py:544`); the task's `claim()` finds a live
   task of this job there (`:419`), itself, and gives up. The tests configure
   `inline=True` and never see it.
2. **npm test then lint fails the job** (run `npm`). The table has no move from
   `running_tests` to `running_command` (`cowork_states.py:76`), which
   `detect_commands` produces for a `package.json` with both scripts.
3. **A recovered job fails instead of continuing** (run `recover`). Recovery
   spawns the runner without re-queueing the job, and the runner's first move,
   to `planning`, is refused from most states.
4. **A cancelled job is overwritten** by the process that drives it (run
   `cancel`): its copy still says that nothing was cancelled.
5. **Two regenerations of one node** (run `overlap`): the rejoin of the first puts
   the unchecked instance of the second in service.
6. **A job hangs after a quick restart** (run `hangs`). `recover_orphaned_jobs` runs once,
   when a process starts, and passes over a job whose lease is held
   (`cowork_jobs.py:575`). The lease lasts 1200 seconds and a process that died does not give it back, so a
   supervisor that restarts at once leaves the job where it was, until a request or a
   later start finds it. `backend/main.py:155-157` promises that such a job is not "stranded in a
   non-terminal state".
7. **Regeneration verifies last** (run `documented`).
   `docs/marcellus-architecture.md:230` and `recovery_sequence` (`registry.py:484`) put verify before
   rehydrate; the code rehydrates first (`regeneration.py:356`), and so does its test. `StagesInOrder`
   is about the code's order, done once per run.

Seen while modelling, and not asserted by a run because nothing in the code
promises the contrary, or because the root is the same:

* a retry of a live job admits a second runner (`cowork_routes.py:418`), and so
  does a run of more than 1200 seconds, since `heartbeat()` has no caller;
* a retry keeps the outcome and the result of the previous run;
* a job that awaits approval is never advanced by the approval, and a resume of it, once its
  lease is over, fails it: the runner claims it and asks for a move that is refused.
  `cowork_runner.py:254-255` says that it "stays durable until the operator decides"; a resume
  is an operator's request too, so `ApprovalIsKept` allows this end, and `WaitsForOperator`
  states the words literally (TLC refutes it with the constants of `calm`);
* the orderly end of a process marks the jobs of its background runners cancelled
  (`cowork_jobs.py:510-517`), after which only a retry moves them, while `shutdown()` says that
  "durable state stays recoverable via resume" (`:548`); finding 1 leaves it nothing to cancel;
* a command killed by a cancel counts as a failure, and the Brain is asked for a
  fix (`NoFixAfterCancel`);
* a browser task delivered as `download_detected` or `disconnected` can be
  acknowledged again (`NotReopened`), and overlapping deliveries replace the first
  response;
* a client that opens the stream of a finished job with more than 500 events gets
  500 of them and `job_finished`;
* the "retry once" of `append_event` follows a rollback that expires the job it
  needs, so it raises;
* two sends with one idempotency key: the second fails with an unhandled
  constraint violation, the table stays correct;
* a regeneration whose request dies stays `running` and blocks its node;
* swarm: two approvals that race run every task twice, and one of them may revive a job
  cancelled meanwhile (`swarm/routes.py:374`); a cancel of an in-request run, or one that
  comes while a background run is judged, is overwritten by the verdict
  (`orchestrator.py:188`); tasks cancelled after they were listed run all the same
  (`dispatcher.py:208`); a handler that raises leaves its task running in a finished
  job; a crash leaves the job running, or pending without tasks, for ever;
* missions: the scheduler's `FOR UPDATE SKIP LOCKED` ends with the first commit of
  `launch_mission`, so two schedulers can launch a due mission twice
  (`missions.py:625`; `docs/marcellus-architecture.md:246` says only that it claims
  due missions); an exception in a cycle orphans the jobs it has launched; a pause and a resume on
  stale copies can leave an active mission without a next time; a later review
  replaces an earlier one; a job of an earlier run may write `latest_status` last;
* exec channels: a rejection is overwritten by an approval in flight, an item can be
  executed twice, or rejected after it was completed, and `expires_at` is never read;
* remote commands: a document written back from a stale copy loses approvals, an
  approval in flight revives a rejected command, a policy lowered to the recorded number
  leaves the command pending, and two bulk reviews in opposite order can deadlock in
  PostgreSQL (`remote_control.py:989`);
* reflexes: parallel events exceed budget and cooldown (`reflexes.py:255`), approvals
  bypass them, a crash leaves an execution running, a clash of the constraint aborts
  the event's remaining reflexes;
* remediation: two approvals execute an action twice (`engine.py:319`), an approval and
  a rejection in flight execute a rejected one, a crash leaves it executing;
* breaker: a success recorded while the window is bad opens the circuit again
  (`sre_policy.py:147`), denials count as failures (`trust_fabric.py:244`), and after a
  failed save a restarted process loads an old state;
* triggers: two ingests that overlap both pass the cooldown check and both fire
  (`trigger_engine.py:291`, against the promise of lines 10-11);
* findings: two scans that overlap insert one finding twice, and every later scan then
  fails on it (`finding_pipeline.py:417`); a flush that fails leaves the session unusable,
  since the handler of `ingest_findings` counts the error without a rollback, and the
  rest of the batch is lost;
* agent runs: two approvals on stale copies of `actions_pending` can leave an action both
  executed and pending (`agent_runner.py:443`);

## Plan

1. **Checkpoints** of Regeneration, the notices of the stream, the creation of missions,
   the definitions of reflexes, the nightly brief.
2. **Change proposals**: see below for what has to be decided first.
3. **Executors**: the execution record against the local bridge, cancel included.
4. **Plexus and Regeneration** against `ConsentGate`: their gates have a quorum of one
   other person.
5. **Findings and triggers**: ingestion by overlapping scans, the triggers they fire and
   the cooldown.
6. **Proofs**: `ExecConsent` and `CommandConsent` gave their two consequences as theorems; the
   same for the lifecycle; what of `MovesAllowed`
   holds with crashes (a recovered job whose state may go to `planning`); theorems for the modules
   of 1 to 5 as they come.

No module that is proved about uses a RECURSIVE operator.

### Not modelled

* **Change proposals** (`workspace.py:1458-2036`): reviewing one checks status and
  snapshot digest, writes the folder through the bridge or a mirror, and commits. The
  races are known (an approval and an update leave two active artifacts of one path; an
  approval and a rejection overwrite each other; the folder may be written and the
  commit lost; a second approval revives a superseded proposal), but every property worth
  stating fails in one of them and nothing in the code promises it; a faithful
  module needs the rest of `workspace.py`, with the gateway and the bridge.
* **Agent and workflow runs** (`agent_runner.py`, `workflow_runner.py`): one request runs
  the steps of one row in a loop; what could be wrong in them is in the tools they
  call, and in approvals that overlap, where every property worth stating fails and
  nothing in the code promises it.
* **Triggers**: what they start is `Launch` of `Swarm`; their own cooldown and the ingestion
  of findings that fires them are left to the module of the plan.
* **Schedules, channel gateway, device codes**: reads and writes of single rows
  that start swarm jobs or ask a gate that is modelled.
* **Governed memory, containment, anomaly scoring**: counters and proposals without a
  life cycle that spans requests.
* **Context compiler, inspection, research, office, token hygiene, claws, the shared
  core library**: text and document processing, vendor mappings; no state.
* **Seeds, dashboards, clients, packaging**: data, reads, and users of the interface.

Most of the repository's lines are in these last two groups.

## Running

```
tlc -workers 2 -config MCCoworkJob_calm.cfg MCCoworkJob
tlc -workers 2 -config MCCommits_commits.cfg MCCommits
tlc -workers 2 -config MCPlexus_mailbox.cfg MCPlexus
tlapm CoworkJobProofs.tla
tlapm CoworkBrowserProofs.tla
tlapm PlexusProofs.tla
tlapm RegenerationProofs.tla
tlapm SwarmProofs.tla
tlapm TaskGraphProofs.tla
tlapm ConsentProofs.tla
tlapm ServiceProofs.tla
tlc -workers 2 -config MCServices_services.cfg MCServices
tlc -workers 2 -config MCProgress_progress.cfg MCProgress
```
