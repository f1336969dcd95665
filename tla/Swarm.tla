------------------------------- MODULE Swarm -------------------------------
(* Swarm jobs (core/swarm): a job fans out into one task per participant, is  *)
(* run in the background with bounded parallelism or inside the request that  *)
(* approved or created it, is judged, and may wait for a human before it runs *)
(* and after it was judged.                                                   *)
(*                                                                            *)
(* Every slot of Slots is a session: a request or a background run.  Sessions *)
(* keep what they read over commits, so a step that writes acts on what an    *)
(* earlier step of the same slot read.  Only the background run refreshes its *)
(* job, once, after the last task.                                            *)
EXTENDS Naturals, FiniteSets

CONSTANTS
  Jobs,         \* bound: the swarm jobs that may ever be created
  Tasks,        \* the participants of a job
  Slots,        \* sessions
  Parallelism,  \* of a job in the background
  NoJob

ASSUME SwarmAssumption == Parallelism \in Nat \ {0} /\ NoJob \notin Jobs

VARIABLES
  job,       \* the table swarm_jobs
  task,      \* the table swarm_tasks: the status of each participant's task
  slot,      \* what each session is doing
  approved,  \* history: the jobs somebody approved
  dropped,   \* history: the jobs cancelled while a background run had tasks to run
  crashed    \* history: a session died

swarmVars == <<job, task, slot, approved, dropped, crashed>>

-----------------------------------------------------------------------------
(* The code also knows a job that is "blocked", which nothing sets. *)
Resting   == {"completed", "failed", "cancelled", "requires_approval"}
Statuses  == {"pending", "running"} \cup Resting
TaskStats == {"none", "pending", "running", "completed", "blocked", "cancelled"}
Modes     == {"inline", "background"}

NoRow == [status |-> "none", gated |-> FALSE, started |-> FALSE]
Row   == [status : Statuses, gated : BOOLEAN, started : BOOLEAN]

(* todo, busy, good and bad: the tasks that are yet to run, that execute now, *)
(* that returned an output and that raised.  A cancel keeps in todo the tasks *)
(* it saw pending or running.                                                 *)
Idle == [pc |-> "idle", of |-> NoJob, mode |-> "inline",
         todo |-> {}, busy |-> {}, good |-> {}, bad |-> {}]
Activities == {"idle", "creating", "gating", "queued", "starting", "listing", "working",
               "judging", "failing", "cancelling", "sweeping", "approving", "finalizing"}
Activity == [pc : Activities, of : Jobs \cup {NoJob}, mode : Modes,
             todo : SUBSET Tasks, busy : SUBSET Tasks,
             good : SUBSET Tasks, bad : SUBSET Tasks]

Stored == {j \in Jobs : job[j] # NoRow}

SwarmInit ==
  /\ job = [j \in Jobs |-> NoRow]
  /\ task = [j \in Jobs |-> [t \in Tasks |-> "none"]]
  /\ slot = [s \in Slots |-> Idle]
  /\ approved = {} /\ dropped = {} /\ crashed = FALSE

At(s, pc) == slot[s].pc = pc
Go(s, pc) == slot' = [slot EXCEPT ![s].pc = pc]
Rest(s)   == slot' = [slot EXCEPT ![s] = Idle]

SetStatus(j, status) == job' = [job EXCEPT ![j].status = status]

-----------------------------------------------------------------------------
(* create_swarm_job(): the job and its tasks are two commits. *)
Create(s, j, gated, mode) ==
  /\ slot[s] = Idle /\ j \in Jobs \ Stored
  /\ job' = [job EXCEPT ![j] = [status |-> "pending", gated |-> gated, started |-> FALSE]]
  /\ slot' = [slot EXCEPT ![s] = [Idle EXCEPT !.pc = "creating", !.of = j, !.mode = mode]]
  /\ UNCHANGED <<task, approved, dropped, crashed>>

AddTasks(s) ==
  LET j == slot[s].of IN
  /\ At(s, "creating")
  /\ task' = [task EXCEPT ![j] = [t \in Tasks |-> "pending"]]
  /\ Go(s, CASE job[j].gated -> "gating"
             [] ~job[j].gated /\ slot[s].mode = "inline" -> "starting"
             [] OTHER -> "queued")
  /\ UNCHANGED <<job, approved, dropped, crashed>>

(* Mutant of Gate: a gated job is handed to the background all the same. *)
GateAndQueue(s) ==
  /\ At(s, "gating")
  /\ SetStatus(slot[s].of, "requires_approval")
  /\ slot' = [slot EXCEPT ![s].pc = "queued", ![s].mode = "background"]
  /\ UNCHANGED <<task, approved, dropped, crashed>>

(* The presets, triggers and schedules hold the job for approval. *)
Gate(s) ==
  /\ At(s, "gating")
  /\ SetStatus(slot[s].of, "requires_approval")
  /\ Rest(s)
  /\ UNCHANGED <<task, approved, dropped, crashed>>

(* run_swarm_job() reads the job on a session of its own. *)
ReadJob(s) ==
  /\ At(s, "queued")
  /\ IF job[slot[s].of].status \in {"cancelled", "completed"} THEN Rest(s)
     ELSE Go(s, "starting")
  /\ UNCHANGED <<job, task, approved, dropped, crashed>>

(* The run takes the job over, whatever its row says by now. *)
Start(s) ==
  /\ At(s, "starting")
  /\ job' = [job EXCEPT ![slot[s].of].status = "running", ![slot[s].of].started = TRUE]
  /\ Go(s, "listing")
  /\ UNCHANGED <<task, approved, dropped, crashed>>

(* The background run leaves out the tasks that are cancelled by now. *)
ListTasks(s) ==
  LET j == slot[s].of IN
  /\ At(s, "listing")
  /\ slot' = [slot EXCEPT ![s].pc = "working",
                ![s].todo = {t \in Tasks : slot[s].mode = "inline" \/ task[j][t] # "cancelled"}]
  /\ UNCHANGED <<job, task, approved, dropped, crashed>>

-----------------------------------------------------------------------------
(* _run_bounded_parallel_tasks() holds the semaphore over a task; the inline  *)
(* run awaits each task.                                                      *)
Room(s) ==
  IF slot[s].mode = "inline" THEN slot[s].busy = {}
  ELSE Cardinality(slot[s].busy) < Parallelism

(* execute_task() does not look at the status of its task. *)
BeginTask(s, t) ==
  /\ At(s, "working") /\ t \in slot[s].todo /\ Room(s)
  /\ task' = [task EXCEPT ![slot[s].of][t] = "running"]
  /\ slot' = [slot EXCEPT ![s].todo = @ \ {t}, ![s].busy = @ \cup {t}]
  /\ UNCHANGED <<job, approved, dropped, crashed>>

(* The task returns an output (completed, or blocked for want of evidence) or *)
(* raises: with the task blocked when its context does not verify, with the   *)
(* row left running when the capability node's handler raises.                *)
EndTask(s, t) ==
  LET j == slot[s].of IN
  /\ At(s, "working") /\ t \in slot[s].busy
  /\ \/ /\ \E status \in {"completed", "blocked"} : task' = [task EXCEPT ![j][t] = status]
        /\ slot' = [slot EXCEPT ![s].busy = @ \ {t}, ![s].good = @ \cup {t}]
     \/ /\ task' = [task EXCEPT ![j][t] = "blocked"] \/ UNCHANGED task
        /\ slot' = [slot EXCEPT ![s].busy = @ \ {t}, ![s].bad = @ \cup {t}]
  /\ UNCHANGED <<job, approved, dropped, crashed>>

(* Mutant of AllDone: the gather does not wait for the tasks in the queue. *)
NoneBusy(s) == At(s, "working") /\ slot[s].busy = {}

AllDone(s) == At(s, "working") /\ slot[s].busy = {} /\ slot[s].todo = {}

(* Mutant of Refreshed: the background run trusts its copy, too. *)
NotRefreshed(s) == FALSE

(* The refresh shows a cancel to the background run; the inline run looks at  *)
(* its own copy, which says running.                                          *)
Refreshed(s) == slot[s].mode = "background" /\ job[slot[s].of].status = "cancelled"

Settle(s) ==
  /\ AllDone(s)
  /\ IF Refreshed(s) THEN Rest(s)
     ELSE Go(s, IF slot[s].good = {} /\ slot[s].bad # {} THEN "failing" ELSE "judging")
  /\ UNCHANGED <<job, task, approved, dropped, crashed>>

(* No task produced an output: the job failed. *)
Fail(s) ==
  /\ At(s, "failing")
  /\ SetStatus(slot[s].of, "failed")
  /\ Rest(s)
  /\ UNCHANGED <<task, approved, dropped, crashed>>

(* The judge asks the model gateway and may raise; its verdict on no output   *)
(* at all is harmless.                                                        *)
Judge(s) ==
  /\ At(s, "judging")
  /\ \E status \in {"completed", "failed", "requires_approval"} :
       /\ status = "requires_approval" => slot[s].good # {}
       /\ SetStatus(slot[s].of, status)
  /\ Rest(s)
  /\ UNCHANGED <<task, approved, dropped, crashed>>

-----------------------------------------------------------------------------
(* cancel_job() reads the job, then its tasks, then writes both. *)
CancelRead(s) ==
  /\ slot[s] = Idle
  /\ \E j \in Stored :
       /\ job[j].status \in {"pending", "running", "requires_approval"}
       /\ slot' = [slot EXCEPT ![s] = [Idle EXCEPT !.pc = "cancelling", !.of = j]]
  /\ UNCHANGED <<job, task, approved, dropped, crashed>>

CancelTasks(s) ==
  /\ At(s, "cancelling")
  /\ slot' = [slot EXCEPT ![s].pc = "sweeping",
                ![s].todo = {t \in Tasks : task[slot[s].of][t] \in {"pending", "running"}}]
  /\ UNCHANGED <<job, task, approved, dropped, crashed>>

Working(s) == slot[s].mode = "background" /\ slot[s].pc \in {"listing", "working"}

CancelWrite(s) ==
  LET j == slot[s].of IN
  /\ At(s, "sweeping")
  /\ SetStatus(j, "cancelled")
  /\ task' = [task EXCEPT ![j] =
                [t \in Tasks |-> IF t \in slot[s].todo THEN "cancelled" ELSE @[t]]]
  /\ dropped' = IF \E q \in Slots : Working(q) /\ slot[q].of = j
                THEN dropped \cup {j} ELSE dropped
  /\ Rest(s)
  /\ UNCHANGED <<approved, crashed>>

(* approve_job(): before the run the approval starts it, inside the request;  *)
(* after the verdict it completes the job.                                    *)
ApproveRead(s) ==
  /\ slot[s] = Idle
  /\ \E j \in Stored :
       /\ job[j].status = "requires_approval"
       /\ slot' = [slot EXCEPT ![s] = [Idle EXCEPT !.of = j,
                     !.pc = IF job[j].started THEN "finalizing" ELSE "approving"]]
  /\ UNCHANGED <<job, task, approved, dropped, crashed>>

Approve(s) ==
  /\ At(s, "approving")
  /\ SetStatus(slot[s].of, "pending")
  /\ approved' = approved \cup {slot[s].of}
  /\ Go(s, "starting")
  /\ UNCHANGED <<task, dropped, crashed>>

Finalize(s) ==
  /\ At(s, "finalizing")
  /\ SetStatus(slot[s].of, "completed")
  /\ Rest(s)
  /\ UNCHANGED <<task, approved, dropped, crashed>>

(* The process dies, the client of an inline run goes away, or the session    *)
(* fails.  Nothing resumes a swarm job.                                       *)
Crash(s) ==
  /\ slot[s] # Idle
  /\ Rest(s)
  /\ crashed' = TRUE
  /\ UNCHANGED <<job, task, approved, dropped>>

-----------------------------------------------------------------------------
Launch(s) == \E j \in Jobs, gated \in BOOLEAN, mode \in Modes : Create(s, j, gated, mode)

Run(s) ==
  \/ Start(s) \/ ListTasks(s) \/ Settle(s) \/ Fail(s) \/ Judge(s)
  \/ \E t \in Tasks : BeginTask(s, t) \/ EndTask(s, t)

Intervene(s) ==
  \/ CancelRead(s) \/ CancelTasks(s) \/ CancelWrite(s)
  \/ ApproveRead(s) \/ Approve(s) \/ Finalize(s)

SwarmNext ==
  \E s \in Slots : \/ Launch(s) \/ AddTasks(s) \/ Gate(s) \/ ReadJob(s)
                   \/ Run(s) \/ Intervene(s) \/ Crash(s)

SwarmSpec == SwarmInit /\ [][SwarmNext]_swarmVars

-----------------------------------------------------------------------------
SwarmTypeOK ==
  /\ job \in [Jobs -> Row \cup {NoRow}]
  /\ task \in [Jobs -> [Tasks -> TaskStats]]
  /\ slot \in [Slots -> Activity]
  /\ approved \subseteq Jobs /\ dropped \subseteq Jobs /\ crashed \in BOOLEAN

(* No participant of a job that is held for approval starts before somebody   *)
(* approved the job, whatever is cancelled, approved or lost meanwhile.       *)
RunsOnlyApproved ==
  \A j \in Stored : job[j].gated /\ j \notin approved =>
    \A t \in Tasks : task[j][t] \in {"none", "pending", "cancelled"}

(* A verdict is given on every participant: a job that ran and is completed,  *)
(* failed or waits for the approval of its result has no task left to start.  *)
VerdictOnAll ==
  \A j \in Stored : job[j].started /\ job[j].status \in Resting \ {"cancelled"}
                      => \A t \in Tasks : task[j][t] # "pending"

(* A cancel that arrives while a background run has tasks to run is kept: the *)
(* run's verdict does not replace it.                                         *)
CancelSticks == \A j \in dropped : job[j].status = "cancelled"
=============================================================================
