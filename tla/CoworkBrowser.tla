---------------------------- MODULE CoworkBrowser ----------------------------
(* The durable browser task of a Cowork job (core/marcellus/cowork_browser):  *)
(* the Companion acknowledges it, reports progress and delivers the response, *)
(* over HTTP requests that may be repeated and may overlap.  Every handler    *)
(* reads the task, changes its own copy and appends an event to the timeline  *)
(* of the job; its commit writes the columns it changed.                      *)
EXTENDS CoworkTimeline

CONSTANTS
  Deliveries,   \* the responses the Companion may try to deliver
  Overlapping   \* whether two requests for the task may be in flight at once

ASSUME BrowserAssumption == Overlapping \in BOOLEAN

VARIABLES
  task,     \* the row in marcellus_cowork_browser_tasks
  serving   \* the request each session serves, with the copy it works on

browser     == <<task, serving>>
browserVars == <<timeline, browser>>

Delivered == {"received", "incomplete", "download_detected", "disconnected"}
TaskStates == {"submitted", "acknowledged", "composing", "streaming"} \cup Delivered

Tasks == [state : TaskStates, completed : BOOLEAN,
          response : Deliveries \cup {"none"}]

NewTask   == [state |-> "submitted", completed |-> FALSE, response |-> "none"]
NoRequest == [old |-> NewTask, new |-> NewTask, active |-> FALSE]

BrowserInit ==
  /\ TimelineInit
  /\ task = NewTask
  /\ serving = [s \in Sessions |-> NoRequest]

-----------------------------------------------------------------------------
(* What each handler makes of the task it read; the same task when it returns *)
(* without a change.                                                          *)
Acknowledged(t) ==
  IF t.state \in {"received", "incomplete"} THEN t
  ELSE [t EXCEPT !.state = "acknowledged"]

Progressed(t, state) == IF t.completed THEN t ELSE [t EXCEPT !.state = state]

(* Mutants of Completed: a second delivery is taken, or the state is made up. *)
CompletedAgain(t, delivery, state) ==
  [state |-> state, completed |-> TRUE, response |-> delivery]

CompletedPlain(t, delivery, state) ==
  IF t.completed THEN t
  ELSE [state |-> "completed", completed |-> TRUE, response |-> delivery]

(* The reply is a failure, was truncated, has attachments, or is plain text. *)
Completed(t, delivery, state) ==
  IF t.completed THEN t
  ELSE [state |-> state, completed |-> TRUE, response |-> delivery]

(* A handler starts: it reads the task and decides. *)
Receive(s) ==
  /\ txn[s] = NoTxn /\ ~serving[s].active
  /\ Overlapping \/ \A t \in Sessions : ~serving[t].active
  /\ \E new \in {Acknowledged(task)}
            \cup {Progressed(task, p) : p \in {"acknowledged", "composing", "streaming"}}
            \cup UNION {{Completed(task, d, p) : p \in Delivered} : d \in Deliveries} :
       /\ new # task
       /\ serving' = [serving EXCEPT ![s] = [old |-> task, new |-> new,
                                             active |-> TRUE]]
  /\ UNCHANGED <<timeline, task>>

Column(old, new, db) == IF new = old THEN db ELSE new

(* The handler commits its one event and, with it, the columns it changed. *)
Answer(s) ==
  LET r == serving[s] IN
  /\ r.active /\ ~txn[s].ends /\ Cardinality(txn[s].mine) = 1
  /\ CommitEvents(s)
  /\ task' = [state |-> Column(r.old.state, r.new.state, task.state),
              completed |-> Column(r.old.completed, r.new.completed, task.completed),
              response |-> Column(r.old.response, r.new.response, task.response)]
  /\ serving' = [serving EXCEPT ![s] = NoRequest]

(* The handler's append clashed, or its session was lost: nothing is written. *)
Refuse(s) ==
  /\ serving[s].active
  /\ Abandon(s) \/ (Insert(s) /\ txn'[s] = NoTxn)
  /\ serving' = [serving EXCEPT ![s] = NoRequest]
  /\ UNCHANGED task

Append1(s) ==
  /\ Allocate(s) \/ (Insert(s) /\ txn'[s] # NoTxn)
  /\ serving[s].active => Cardinality(txn[s].mine) = 0 /\ ~txn'[s].ends
  /\ UNCHANGED browser

(* A session of anything else, the job's runner above all. *)
OtherSession(s) ==
  /\ ~serving[s].active
  /\ CommitEvents(s) \/ Abandon(s) \/ (Insert(s) /\ txn'[s] = NoTxn)
  /\ UNCHANGED browser

Client(c) ==
  /\ \/ Connect(c) \/ ReadJob(c) \/ ListEvents(c) \/ Send(c) \/ EndPage(c)
     \/ Drop(c)
  /\ UNCHANGED browser

BrowserNext ==
  \/ \E s \in Sessions : Receive(s) \/ Answer(s) \/ Refuse(s) \/ Append1(s)
                         \/ OtherSession(s)
  \/ \E c \in Clients : Client(c)

BrowserSpec == BrowserInit /\ [][BrowserNext]_browserVars

-----------------------------------------------------------------------------
BrowserTypeOK ==
  /\ TimelineTypeOK
  /\ task \in Tasks
  /\ serving \in [Sessions -> [old : Tasks, new : Tasks, active : BOOLEAN]]

(* A delivered response is never replaced ("a late duplicate delivery: keep   *)
(* the first authoritative response").                                        *)
FirstResponseKept ==
  [][task.response # "none" => task'.response = task.response]_browserVars

(* A task whose response is in is never shown as waiting for it again         *)
(* ("acknowledging again must not reopen or re-prompt it").                   *)
NotReopened == task.completed => task.state \in Delivered
=============================================================================
