----------------------------- MODULE SwarmProofs -----------------------------
(* Proofs about Swarm, for any number of jobs, tasks and sessions and any     *)
(* parallelism: approval before the first task, verdicts on every task, and   *)
(* the cancel of a background run.  The last part is about Missions, which    *)
(* composes Swarm: observations are about runs that are over.                 *)
EXTENDS Missions, TLAPS

RunStages == {"queued", "starting", "listing", "working", "judging", "failing"}
NoVerdict == {"pending", "running", "cancelled"}

(* The request that creates a job and its background run have the job to      *)
(* themselves, but for requests that cancel it.                               *)
Sole(x) ==
  \/ x.pc \in {"creating", "gating"}
  \/ x.mode = "background" /\ x.pc \in RunStages

(* What a session may rely on, whatever the others wrote since it read.       *)
KeptSlot(x) ==
  /\ x.pc # "idle" => x.of \in Stored
  /\ x.pc \in RunStages /\ job[x.of].gated => x.of \in approved
  /\ x.pc = "approving" => x.mode = "inline"
  /\ x.pc \in {"creating", "gating"} => ~job[x.of].started
  /\ Sole(x) => job[x.of].status \in NoVerdict
  /\ x.pc = "working" => \A t \in Tasks \ x.todo : task[x.of][t] # "pending"
  /\ x.pc \in {"judging", "failing", "finalizing"} =>
       \A t \in Tasks : task[x.of][t] # "pending"

Others(s, j) == {q \in Slots \ {s} : slot[q].pc # "idle" /\ slot[q].of = j}

Alone ==
  \A s \in Slots : Sole(slot[s]) =>
    \A q \in Others(s, slot[s].of) : slot[q].pc \in {"cancelling", "sweeping"}

(* A job in dropped has nobody left who writes a verdict. *)
Dropping(x) ==
  \/ x.pc \in {"cancelling", "sweeping"}
  \/ x.mode = "background" /\ x.pc \in {"listing", "working"}

DroppedKept ==
  \A j \in dropped :
    /\ job[j].status = "cancelled"
    /\ \A q \in Slots : slot[q].pc # "idle" /\ slot[q].of = j => Dropping(slot[q])

UnstoredEmpty == \A j \in Jobs \ Stored : \A t \in Tasks : task[j][t] = "none"

SwarmInv ==
  /\ SwarmTypeOK
  /\ \A s \in Slots : KeptSlot(slot[s])
  /\ Alone /\ DroppedKept /\ UnstoredEmpty
  /\ RunsOnlyApproved /\ VerdictOnAll

-----------------------------------------------------------------------------
LEMMA RowIsStored == NoRow \notin Row
BY DEF NoRow, Row, Statuses, Resting

LEMMA IdleType == Idle \in Activity /\ Idle.pc = "idle"
BY DEF Idle, Activity, Activities, Modes

LEMMA SwarmInitially == SwarmInit => SwarmInv
<1> SUFFICES ASSUME SwarmInit PROVE SwarmInv
  OBVIOUS
<1>1. SwarmTypeOK
  BY IdleType DEF SwarmInit, SwarmTypeOK, TaskStats
<1>2. Stored = {} /\ \A s \in Slots : slot[s].pc = "idle"
  BY IdleType DEF SwarmInit, Stored
<1>3. \A s \in Slots : KeptSlot(slot[s]) /\ ~Sole(slot[s])
  BY <1>2 DEF KeptSlot, Sole, RunStages
<1> QED
  BY <1>1, <1>2, <1>3
  DEF SwarmInv, SwarmInit, Alone, DroppedKept, UnstoredEmpty, RunsOnlyApproved, VerdictOnAll

(* A session moves and no row changes. *)
LEMMA SlotMoves ==
  ASSUME SwarmInv, NEW s \in Slots, NEW to \in Activity,
         slot' = [slot EXCEPT ![s] = to],
         UNCHANGED <<job, task, approved, dropped>>, crashed' \in BOOLEAN,
         KeptSlot(to),
         to.pc # "idle" /\ Sole(to) =>
           \A q \in Others(s, to.of) : slot[q].pc \in {"cancelling", "sweeping"},
         to.pc \notin {"idle", "cancelling", "sweeping"} =>
           \A q \in Others(s, to.of) : ~Sole(slot[q]),
         to.pc # "idle" /\ to.of \in dropped => Dropping(to)
  PROVE  SwarmInv'
<1>1. \A q \in Slots : slot'[q] = IF q = s THEN to ELSE slot[q]
  BY DEF SwarmInv, SwarmTypeOK
<1>2. SwarmTypeOK'
  BY DEF SwarmInv, SwarmTypeOK
<1>3. UNCHANGED Stored
  BY DEF Stored
<1>4. ASSUME NEW q \in Slots PROVE KeptSlot(slot[q])'
  <2>1. KeptSlot(slot'[q])
    BY <1>1 DEF SwarmInv
  <2> QED
    BY <1>3, <2>1 DEF KeptSlot, Sole
<1>5. Alone'
  <2> SUFFICES ASSUME NEW q \in Slots, Sole(slot'[q]), NEW r \in Slots, r # q,
                      slot'[r].pc # "idle", slot'[r].of = slot'[q].of
               PROVE  slot'[r].pc \in {"cancelling", "sweeping"}
    BY DEF Alone, Others, Sole
  <2>1. CASE q = s
    <3>1. to.pc # "idle" /\ Sole(to) /\ r \in Others(s, to.of) /\ slot'[r] = slot[r]
      BY <1>1, <2>1 DEF Others, Sole, RunStages
    <3> QED
      BY <3>1
  <2>2. CASE r = s
    BY <1>1, <2>2 DEF Others, Sole, RunStages
  <2>3. CASE q # s /\ r # s
    BY <1>1, <2>3 DEF SwarmInv, Alone, Others
  <2> QED
    BY <2>1, <2>2, <2>3
<1>6. DroppedKept'
  BY <1>1 DEF SwarmInv, DroppedKept, Dropping
<1>7. UnstoredEmpty' /\ RunsOnlyApproved' /\ VerdictOnAll'
  BY <1>3 DEF SwarmInv, UnstoredEmpty, RunsOnlyApproved, VerdictOnAll
<1> QED
  BY <1>2, <1>4, <1>5, <1>6, <1>7 DEF SwarmInv

(* A session that is not cancelling writes the status of its job. *)
LEMMA StatusWritten ==
  ASSUME SwarmInv, NEW s \in Slots, NEW row \in Row, NEW to \in Activity,
         slot[s].pc \notin {"idle", "cancelling", "sweeping", "listing", "working"},
         job' = [job EXCEPT ![slot[s].of] = row],
         slot' = [slot EXCEPT ![s] = to],
         UNCHANGED <<task, dropped, crashed>>,
         approved' \in {approved, approved \cup {slot[s].of}},
         row.gated = job[slot[s].of].gated,
         row.started /\ row.status \in Resting \ {"cancelled"} =>
           \A t \in Tasks : task[slot[s].of][t] # "pending",
         \/ to.pc = "idle"
         \/ /\ to.of = slot[s].of /\ to.pc \in {"starting", "listing"}
            /\ row.gated => slot[s].of \in approved'
            /\ row.status \in NoVerdict
            /\ Sole(to) => Sole(slot[s])
  PROVE  SwarmInv'
<1> DEFINE j == slot[s].of
<1>1. /\ j \in Stored /\ KeptSlot(slot[s])
      /\ slot[s] \in Activity
  BY DEF SwarmInv, KeptSlot, SwarmTypeOK
<1>2. \A q \in Others(s, j) : ~Sole(slot[q])
  BY DEF SwarmInv, Alone, Others
<1>3. j \notin dropped
  BY DEF SwarmInv, DroppedKept, Dropping
<1>4. \A q \in Slots : slot'[q] = IF q = s THEN to ELSE slot[q]
  BY DEF SwarmInv, SwarmTypeOK
<1>5. j \in Jobs /\ \A i \in Jobs : job'[i] = IF i = j THEN row ELSE job[i]
  BY <1>1 DEF SwarmInv, SwarmTypeOK, Stored
<1>6. UNCHANGED Stored
  BY <1>1, <1>5, RowIsStored DEF Stored
<1>7. SwarmTypeOK'
  BY <1>5 DEF SwarmInv, SwarmTypeOK
<1>8. approved \subseteq approved'
  OBVIOUS
<1> HIDE DEF j
<1>9. ASSUME NEW q \in Slots PROVE KeptSlot(slot[q])'
  <2>1. CASE q = s /\ to.pc = "idle"
    BY <1>4, <2>1 DEF KeptSlot, Sole, RunStages
  <2>2. CASE q = s /\ to.pc # "idle"
    <3>1. to.of = j /\ to.pc \in {"starting", "listing"} /\ job'[j] = row
          /\ (row.gated => j \in approved') /\ row.status \in NoVerdict
      BY <1>5, <2>2 DEF j
    <3> QED
      BY <1>1, <1>4, <1>6, <2>2, <3>1 DEF KeptSlot, Sole, RunStages
  <2>3. CASE q # s /\ slot[q].pc = "idle"
    BY <1>4, <2>3 DEF KeptSlot, Sole, RunStages
  <2>4. CASE q # s /\ slot[q].pc # "idle" /\ slot[q].of = j
    <3>1. ~Sole(slot[q]) /\ KeptSlot(slot[q]) /\ slot'[q] = slot[q]
      BY <1>2, <1>4, <2>4 DEF Others, SwarmInv
    <3>2. job'[j].gated = job[j].gated
      BY <1>5 DEF j
    <3> QED
      BY <1>6, <1>8, <2>4, <3>1, <3>2 DEF KeptSlot, Sole
  <2>5. CASE q # s /\ slot[q].pc # "idle" /\ slot[q].of # j
    <3>1. KeptSlot(slot[q]) /\ slot'[q] = slot[q] /\ slot[q].of \in Jobs
      BY <1>4, <2>5 DEF SwarmInv, KeptSlot, Stored
    <3>2. job'[slot[q].of] = job[slot[q].of]
      BY <1>5, <2>5, <3>1
    <3> QED
      BY <1>6, <1>8, <3>1, <3>2 DEF KeptSlot, Sole
  <2> QED
    BY <2>1, <2>2, <2>3, <2>4, <2>5
<1>10. Alone'
  <2> SUFFICES ASSUME NEW q \in Slots, Sole(slot'[q]), NEW r \in Slots, r # q,
                      slot'[r].pc # "idle", slot'[r].of = slot'[q].of
               PROVE  slot'[r].pc \in {"cancelling", "sweeping"}
    BY DEF Alone, Others, Sole
  <2>1. CASE q = s
    <3>1. to.pc # "idle"
      BY <1>4, <2>1 DEF Sole, RunStages
    <3> QED
      BY <1>4, <2>1, <3>1 DEF SwarmInv, Alone, Others
  <2>2. CASE r = s
    BY <1>2, <1>4, <2>2 DEF Others, Sole, RunStages, SwarmInv, KeptSlot, j
  <2>3. CASE q # s /\ r # s
    BY <1>4, <2>3 DEF SwarmInv, Alone, Others
  <2> QED
    BY <2>1, <2>2, <2>3
<1>11. DroppedKept'
  <2> SUFFICES ASSUME NEW i \in dropped
               PROVE  /\ job'[i].status = "cancelled"
                      /\ \A q \in Slots : slot'[q].pc # "idle" /\ slot'[q].of = i
                                            => Dropping(slot'[q])
    BY DEF DroppedKept, Dropping
  <2>1. i # j /\ i \in Jobs
    BY <1>3 DEF SwarmInv, SwarmTypeOK
  <2> QED
    BY <1>4, <1>5, <2>1 DEF SwarmInv, DroppedKept, j
<1>12. UnstoredEmpty'
  BY <1>6 DEF SwarmInv, UnstoredEmpty
<1>13. RunsOnlyApproved'
  <2>1. \A i \in Jobs : job'[i].gated = job[i].gated
    BY <1>5 DEF j
  <2> QED
    BY <1>6, <1>8, <2>1 DEF SwarmInv, RunsOnlyApproved, Stored
<1>14. VerdictOnAll'
  <2> SUFFICES ASSUME NEW i \in Stored, job'[i].started,
                      job'[i].status \in Resting \ {"cancelled"}
               PROVE  \A t \in Tasks : task[i][t] # "pending"
    BY <1>6 DEF VerdictOnAll
  <2> QED
    BY <1>5 DEF SwarmInv, VerdictOnAll, Stored, j
<1> QED
  BY <1>7, <1>9, <1>10, <1>11, <1>12, <1>13, <1>14 DEF SwarmInv

(* A task of the job that a session works on begins or ends. *)
LEMMA TaskWritten ==
  ASSUME SwarmInv, NEW s \in Slots, NEW t \in Tasks, BeginTask(s, t) \/ EndTask(s, t)
  PROVE  SwarmInv'
<1> DEFINE j == slot[s].of
<1>1. /\ slot[s].pc = "working" /\ slot[s] \in Activity /\ KeptSlot(slot[s])
      /\ UNCHANGED <<job, approved, dropped, crashed>> /\ UNCHANGED Stored
  BY DEF BeginTask, EndTask, At, SwarmInv, SwarmTypeOK, Stored
<1>2. j \in Stored /\ j \in Jobs
  BY <1>1 DEF KeptSlot, Stored
<1>3. /\ task' \in [Jobs -> [Tasks -> TaskStats]]
      /\ \A i \in Jobs \ {j} : task'[i] = task[i]
      /\ \A u \in Tasks \ {t} : task'[j][u] = task[j][u]
      /\ task'[j][t] # "pending" \/ task'[j][t] = task[j][t]
  <2>1. CASE UNCHANGED task
    BY <2>1 DEF SwarmInv, SwarmTypeOK
  <2>2. CASE \E status \in {"running", "completed", "blocked"} :
               task' = [task EXCEPT ![j][t] = status]
    BY <1>2, <2>2 DEF SwarmInv, SwarmTypeOK, TaskStats
  <2> QED
    BY <2>1, <2>2 DEF BeginTask, EndTask
<1>4. /\ slot' \in [Slots -> Activity]
      /\ \A q \in Slots \ {s} : slot'[q] = slot[q]
      /\ slot'[s].pc = "working" /\ slot'[s].of = j /\ slot'[s].mode = slot[s].mode
      /\ \/ BeginTask(s, t) /\ slot'[s].todo = slot[s].todo \ {t}
         \/ slot'[s].todo = slot[s].todo
  <2> USE <1>1 DEF SwarmInv, SwarmTypeOK, Activity
  <2>1. CASE BeginTask(s, t)
    BY <2>1 DEF BeginTask
  <2>2. CASE slot' = [slot EXCEPT ![s].busy = @ \ {t}, ![s].good = @ \cup {t}]
    BY <2>2
  <2>3. CASE slot' = [slot EXCEPT ![s].busy = @ \ {t}, ![s].bad = @ \cup {t}]
    BY <2>3
  <2> QED
    BY <2>1, <2>2, <2>3 DEF EndTask
<1>6. BeginTask(s, t) => task'[j][t] # "pending"
  BY <1>2 DEF BeginTask, SwarmInv, SwarmTypeOK
<1>7. SwarmTypeOK'
  BY <1>1, <1>3, <1>4 DEF SwarmInv, SwarmTypeOK
<1>8. \A i \in Jobs, u \in Tasks : task'[i][u] = "pending" => task[i][u] = "pending"
  BY <1>3
<1> HIDE DEF j
<1>9. ASSUME NEW q \in Slots PROVE KeptSlot(slot[q])'
  <2>1. CASE q = s
    <3>1. \A u \in Tasks \ slot'[s].todo : task'[j][u] # "pending"
      <4>1. \A u \in Tasks \ slot[s].todo : task[j][u] # "pending"
        BY <1>1 DEF KeptSlot, j
      <4> QED
        BY <1>2, <1>4, <1>6, <1>8, <4>1
    <3> QED
      BY <1>1, <1>2, <1>4, <2>1, <3>1 DEF KeptSlot, Sole, RunStages, j
  <2>2. CASE q # s
    <3>1. KeptSlot(slot[q]) /\ slot'[q] = slot[q]
      BY <1>4, <2>2 DEF SwarmInv
    <3>2. slot[q].pc # "idle" => slot[q].of \in Jobs
      BY <3>1 DEF KeptSlot, Stored
    <3> QED
      BY <1>1, <1>8, <3>1, <3>2 DEF KeptSlot, Sole
  <2> QED
    BY <2>1, <2>2
<1>10. Alone'
  <2>1. \A q \in Slots : /\ slot'[q].pc = slot[q].pc /\ slot'[q].of = slot[q].of
                         /\ slot'[q].mode = slot[q].mode
    BY <1>1, <1>4 DEF j
  <2> QED
    BY <2>1 DEF SwarmInv, Alone, Others, Sole
<1>11. DroppedKept'
  BY <1>1, <1>4 DEF SwarmInv, DroppedKept, Dropping, j
<1>12. UnstoredEmpty'
  BY <1>1, <1>2, <1>3 DEF SwarmInv, UnstoredEmpty
<1>13. RunsOnlyApproved'
  <2>1. job[j].gated => j \in approved
    BY <1>1 DEF KeptSlot, RunStages, j
  <2> QED
    BY <1>1, <1>3, <2>1 DEF SwarmInv, RunsOnlyApproved, Stored
<1>14. VerdictOnAll'
  BY <1>1, <1>8 DEF SwarmInv, VerdictOnAll, Stored
<1> QED
  BY <1>7, <1>9, <1>10, <1>11, <1>12, <1>13, <1>14 DEF SwarmInv

LEMMA CancelPreserves ==
  ASSUME SwarmInv, NEW s \in Slots, CancelWrite(s)
  PROVE  SwarmInv'
<1> DEFINE j == slot[s].of
<1>1. slot[s].pc = "sweeping" /\ j \in Stored /\ j \in Jobs /\ job[j] \in Row
  BY DEF CancelWrite, At, SwarmInv, SwarmTypeOK, KeptSlot, Stored
<1>2. \A q \in Slots : slot'[q] = IF q = s THEN Idle ELSE slot[q]
  BY DEF CancelWrite, Rest, SwarmInv, SwarmTypeOK
<1>3. /\ \A i \in Jobs \ {j} : job'[i] = job[i] /\ task'[i] = task[i]
      /\ job'[j] \in Row /\ job'[j].status = "cancelled"
      /\ job'[j].gated = job[j].gated /\ job'[j].started = job[j].started
      /\ \A t \in Tasks : task'[j][t] \in {task[j][t], "cancelled"}
      /\ task' \in [Jobs -> [Tasks -> TaskStats]]
      /\ job' \in [Jobs -> Row \cup {NoRow}]
  <2>1. "cancelled" \in Statuses /\ "cancelled" \in TaskStats
    BY DEF Statuses, Resting, TaskStats
  <2>2. job' = [job EXCEPT ![j].status = "cancelled"]
    BY DEF CancelWrite, SetStatus
  <2>3. /\ job'[j] \in Row /\ job'[j].status = "cancelled"
        /\ job'[j].gated = job[j].gated /\ job'[j].started = job[j].started
        /\ job' \in [Jobs -> Row \cup {NoRow}] /\ \A i \in Jobs \ {j} : job'[i] = job[i]
    BY <1>1, <2>1, <2>2 DEF SwarmInv, SwarmTypeOK, Row
  <2>4. /\ \A i \in Jobs \ {j} : task'[i] = task[i]
        /\ \A t \in Tasks : task'[j][t] \in {task[j][t], "cancelled"}
        /\ task' \in [Jobs -> [Tasks -> TaskStats]]
    BY <1>1, <2>1 DEF CancelWrite, SwarmInv, SwarmTypeOK
  <2> QED
    BY <2>3, <2>4
<1>4. UNCHANGED <<Stored, approved, crashed>>
  BY <1>1, <1>3, RowIsStored DEF CancelWrite, Stored
<1>5. /\ dropped \subseteq dropped' /\ dropped' \subseteq dropped \cup {j}
      /\ j \in dropped' =>
           j \in dropped \/ \E q \in Slots : Working(q) /\ slot[q].of = j
  BY DEF CancelWrite
<1>6. SwarmTypeOK'
  BY <1>1, <1>3, <1>4, <1>5, IdleType DEF CancelWrite, Rest, SwarmInv, SwarmTypeOK
<1> HIDE DEF j
<1>7. ASSUME NEW q \in Slots PROVE KeptSlot(slot[q])'
  <2>1. CASE slot'[q].pc = "idle"
    BY <2>1 DEF KeptSlot, Sole, RunStages
  <2>2. CASE slot'[q].pc # "idle"
    <3>1. KeptSlot(slot[q]) /\ slot'[q] = slot[q] /\ slot[q].of \in Jobs
      BY <1>2, <2>2, IdleType DEF SwarmInv, KeptSlot, Stored
    <3>2. CASE slot[q].of = j
      BY <1>3, <1>4, <3>1, <3>2 DEF KeptSlot, Sole, NoVerdict
    <3>3. CASE slot[q].of # j
      BY <1>3, <1>4, <3>1, <3>3 DEF KeptSlot, Sole
    <3> QED
      BY <3>2, <3>3
  <2> QED
    BY <2>1, <2>2
<1>8. Alone'
  BY <1>2, IdleType DEF SwarmInv, Alone, Others, Sole, RunStages
<1>9. DroppedKept'
  <2> SUFFICES ASSUME NEW i \in dropped'
               PROVE  /\ job'[i].status = "cancelled"
                      /\ \A q \in Slots : slot'[q].pc # "idle" /\ slot'[q].of = i
                                            => Dropping(slot'[q])
    BY DEF DroppedKept, Dropping
  <2>1. CASE i \in dropped
    BY <1>2, <1>3, <2>1, IdleType DEF SwarmInv, SwarmTypeOK, DroppedKept
  <2>2. CASE i \notin dropped
    <3>1. i = j
      BY <1>5, <2>2
    <3>2. PICK q \in Slots : Working(q) /\ slot[q].of = j
      BY <1>5, <2>2, <3>1
    <3>3. Sole(slot[q]) /\ Dropping(slot[q])
      BY <3>2 DEF Working, Sole, RunStages, Dropping
    <3>4. \A r \in Slots : slot[r].pc # "idle" /\ slot[r].of = j => Dropping(slot[r])
      BY <3>2, <3>3 DEF SwarmInv, Alone, Others, Dropping
    <3> QED
      BY <1>2, <1>3, <3>1, <3>4, IdleType
  <2> QED
    BY <2>1, <2>2
<1>10. UnstoredEmpty'
  BY <1>1, <1>3, <1>4 DEF SwarmInv, UnstoredEmpty
<1>11. RunsOnlyApproved'
  BY <1>3, <1>4 DEF SwarmInv, RunsOnlyApproved, Stored
<1>12. VerdictOnAll'
  BY <1>3, <1>4 DEF SwarmInv, VerdictOnAll, Stored
<1> QED
  BY <1>6, <1>7, <1>8, <1>9, <1>10, <1>11, <1>12 DEF SwarmInv

(* No session and no history knows a job that is not stored yet. *)
LEMMA CreatePreserves ==
  ASSUME SwarmInv, NEW s \in Slots, NEW j \in Jobs, NEW gated \in BOOLEAN,
         NEW mode \in Modes, Create(s, j, gated, mode)
  PROVE  SwarmInv'
<1> DEFINE row == [status |-> "pending", gated |-> gated, started |-> FALSE]
           to  == [Idle EXCEPT !.pc = "creating", !.of = j, !.mode = mode]
<1>1. row \in Row /\ row.status = "pending" /\ ~row.started
  BY DEF Row, Statuses
<1>2. to \in Activity /\ to.pc = "creating" /\ to.of = j
  BY DEF Idle, Activity, Activities
<1>3. /\ j \notin Stored /\ job[j] = NoRow
      /\ \A i \in Jobs : job'[i] = IF i = j THEN row ELSE job[i]
      /\ job' \in [Jobs -> Row \cup {NoRow}]
  BY <1>1 DEF Create, Stored, SwarmInv, SwarmTypeOK
<1>4. /\ \A q \in Slots : slot'[q] = IF q = s THEN to ELSE slot[q]
      /\ slot' \in [Slots -> Activity]
  BY <1>2 DEF Create, SwarmInv, SwarmTypeOK
<1>5. UNCHANGED <<task, approved, dropped, crashed>>
  BY DEF Create
<1> HIDE DEF row, to
<1>6. Stored' = Stored \cup {j}
  BY <1>1, <1>3, RowIsStored DEF Stored
<1>7. SwarmTypeOK'
  BY <1>3, <1>4, <1>5 DEF SwarmInv, SwarmTypeOK
<1>8. \A q \in Slots : slot[q].pc # "idle" => slot[q].of # j /\ slot[q].of \in Jobs
  BY <1>3 DEF SwarmInv, KeptSlot, Stored
<1>9. ASSUME NEW q \in Slots PROVE KeptSlot(slot[q])'
  <2>1. CASE q = s
    BY <1>1, <1>2, <1>3, <1>4, <1>6, <2>1 DEF KeptSlot, Sole, RunStages, NoVerdict
  <2>2. CASE q # s /\ slot[q].pc = "idle"
    BY <1>4, <2>2 DEF KeptSlot, Sole, RunStages
  <2>3. CASE q # s /\ slot[q].pc # "idle"
    <3>1. KeptSlot(slot[q]) /\ slot'[q] = slot[q]
      BY <1>4, <2>3 DEF SwarmInv
    <3>2. job'[slot[q].of] = job[slot[q].of]
      BY <1>3, <1>8, <2>3
    <3> QED
      BY <1>5, <1>6, <3>1, <3>2 DEF KeptSlot, Sole
  <2> QED
    BY <2>1, <2>2, <2>3
<1>10. Alone'
  <2> SUFFICES ASSUME NEW q \in Slots, Sole(slot'[q]), NEW r \in Slots, r # q,
                      slot'[r].pc # "idle", slot'[r].of = slot'[q].of
               PROVE  slot'[r].pc \in {"cancelling", "sweeping"}
    BY DEF Alone, Others, Sole
  <2>1. q # s /\ r # s
    BY <1>2, <1>4, <1>8 DEF Sole, RunStages
  <2> QED
    BY <1>4, <2>1 DEF SwarmInv, Alone, Others
<1>11. DroppedKept'
  <2> SUFFICES ASSUME NEW i \in dropped
               PROVE  /\ job'[i].status = "cancelled"
                      /\ \A q \in Slots : slot'[q].pc # "idle" /\ slot'[q].of = i
                                            => Dropping(slot'[q])
    BY <1>5 DEF DroppedKept, Dropping
  <2>1. i # j /\ i \in Jobs
    BY <1>3 DEF SwarmInv, SwarmTypeOK, DroppedKept, NoRow
  <2> QED
    BY <1>2, <1>3, <1>4, <2>1 DEF SwarmInv, DroppedKept
<1>12. UnstoredEmpty'
  BY <1>5, <1>6 DEF SwarmInv, UnstoredEmpty
<1>13. RunsOnlyApproved'
  BY <1>3, <1>5, <1>6 DEF SwarmInv, RunsOnlyApproved, UnstoredEmpty, Stored
<1>14. VerdictOnAll'
  BY <1>1, <1>3, <1>5, <1>6 DEF SwarmInv, VerdictOnAll, Stored
<1> QED
  BY <1>7, <1>9, <1>10, <1>11, <1>12, <1>13, <1>14 DEF SwarmInv

(* The tasks are added before anybody but a cancel could know the job. *)
LEMMA AddTasksPreserves ==
  ASSUME SwarmInv, NEW s \in Slots, AddTasks(s)
  PROVE  SwarmInv'
<1> DEFINE j == slot[s].of
<1>1. /\ slot[s].pc = "creating" /\ j \in Stored /\ j \in Jobs /\ job[j] \in Row
      /\ slot[s] \in Activity
      /\ ~job[j].started /\ job[j].status \in NoVerdict /\ Sole(slot[s])
  BY DEF AddTasks, At, SwarmInv, SwarmTypeOK, KeptSlot, Stored, Sole
<1>2. \A q \in Others(s, j) : slot[q].pc \in {"cancelling", "sweeping"}
  BY <1>1 DEF SwarmInv, Alone
<1>3. /\ \A i \in Jobs \ {j} : task'[i] = task[i]
      /\ \A t \in Tasks : task'[j][t] = "pending"
      /\ task' \in [Jobs -> [Tasks -> TaskStats]]
  BY <1>1 DEF AddTasks, SwarmInv, SwarmTypeOK, TaskStats
<1>4. UNCHANGED <<job, Stored, approved, dropped, crashed>>
  BY DEF AddTasks, Stored
<1>5. PICK pc \in {"gating", "starting", "queued"} :
        /\ slot' = [slot EXCEPT ![s].pc = pc]
        /\ pc \in {"starting", "queued"} => ~job[j].gated
  BY DEF AddTasks, Go
<1>6. /\ slot' \in [Slots -> Activity]
      /\ \A q \in Slots \ {s} : slot'[q] = slot[q]
      /\ slot'[s].pc = pc /\ slot'[s].of = j
  BY <1>1, <1>5 DEF SwarmInv, SwarmTypeOK, Activity, Activities
<1>7. SwarmTypeOK'
  BY <1>3, <1>4, <1>6 DEF SwarmInv, SwarmTypeOK
<1>8. j \notin dropped
  BY <1>1 DEF SwarmInv, DroppedKept, Dropping
<1> HIDE DEF j
<1>9. ASSUME NEW q \in Slots PROVE KeptSlot(slot[q])'
  <2>1. CASE q = s
    BY <1>1, <1>4, <1>5, <1>6, <2>1 DEF KeptSlot, Sole, RunStages
  <2>2. CASE q # s
    <3>1. KeptSlot(slot[q]) /\ slot'[q] = slot[q]
      BY <1>6, <2>2 DEF SwarmInv
    <3>2. CASE slot[q].pc = "idle"
      BY <3>1, <3>2 DEF KeptSlot, Sole, RunStages
    <3>3. CASE slot[q].pc # "idle" /\ slot[q].of = j
      BY <1>2, <1>4, <2>2, <3>1, <3>3 DEF KeptSlot, Sole, Others, RunStages
    <3>4. CASE slot[q].pc # "idle" /\ slot[q].of # j
      <4>1. slot[q].of \in Jobs
        BY <3>1, <3>4 DEF KeptSlot, Stored
      <4> QED
        BY <1>3, <1>4, <3>1, <3>4, <4>1 DEF KeptSlot, Sole
    <3> QED
      BY <3>2, <3>3, <3>4
  <2> QED
    BY <2>1, <2>2
<1>10. Alone'
  <2> SUFFICES ASSUME NEW q \in Slots, Sole(slot'[q]), NEW r \in Slots, r # q,
                      slot'[r].pc # "idle", slot'[r].of = slot'[q].of
               PROVE  slot'[r].pc \in {"cancelling", "sweeping"}
    BY DEF Alone, Others, Sole
  <2>1. CASE q = s
    BY <1>2, <1>6, <2>1 DEF Others
  <2>2. CASE r = s
    <3>1. s \in Others(q, slot[q].of) /\ Sole(slot[q])
      BY <1>1, <1>6, <2>2 DEF Others, j
    <3> QED
      BY <1>1, <3>1 DEF SwarmInv, Alone
  <2>3. CASE q # s /\ r # s
    BY <1>6, <2>3 DEF SwarmInv, Alone, Others
  <2> QED
    BY <2>1, <2>2, <2>3
<1>11. DroppedKept'
  BY <1>4, <1>6, <1>8 DEF SwarmInv, DroppedKept, Dropping
<1>12. UnstoredEmpty'
  BY <1>1, <1>3, <1>4 DEF SwarmInv, UnstoredEmpty
<1>13. RunsOnlyApproved'
  BY <1>3, <1>4 DEF SwarmInv, RunsOnlyApproved, Stored
<1>14. VerdictOnAll'
  BY <1>1, <1>3, <1>4 DEF SwarmInv, VerdictOnAll, Stored
<1> QED
  BY <1>7, <1>9, <1>10, <1>11, <1>12, <1>13, <1>14 DEF SwarmInv

-----------------------------------------------------------------------------
(* A run goes on to a later stage of the same job. *)
LEMMA RunGoesOn ==
  ASSUME SwarmInv, NEW s \in Slots, slot[s].pc \in {"queued", "listing", "working"},
         UNCHANGED <<job, task, approved, dropped, crashed>>,
         NEW to \in Activity, slot' = [slot EXCEPT ![s] = to],
         to.of = slot[s].of, to.mode = slot[s].mode,
         to.pc \in {"starting", "working", "judging", "failing"},
         to.pc = "working" =>
           \A t \in Tasks \ to.todo : task[slot[s].of][t] # "pending",
         to.pc \in {"judging", "failing"} =>
           \A t \in Tasks : task[slot[s].of][t] # "pending",
         slot[s].of \in dropped => Dropping(to)
  PROVE  SwarmInv'
<1>1. KeptSlot(slot[s]) /\ crashed' \in BOOLEAN
  BY DEF SwarmInv, SwarmTypeOK
<1>2. Sole(to) => Sole(slot[s])
  BY DEF Sole, RunStages
<1>3. KeptSlot(to)
  BY <1>1, <1>2 DEF KeptSlot, RunStages
<1>4. Sole(to) => \A q \in Others(s, to.of) : slot[q].pc \in {"cancelling", "sweeping"}
  BY <1>2 DEF SwarmInv, Alone
<1>5. \A q \in Others(s, to.of) : ~Sole(slot[q])
  BY DEF SwarmInv, Alone, Others
<1> QED
  BY <1>1, <1>3, <1>4, <1>5, SlotMoves

LEMMA SlotRests ==
  ASSUME SwarmInv, NEW s \in Slots, slot' = [slot EXCEPT ![s] = Idle],
         UNCHANGED <<job, task, approved, dropped>>, crashed' \in BOOLEAN
  PROVE  SwarmInv'
<1>1. KeptSlot(Idle)
  BY IdleType DEF KeptSlot, Sole, RunStages
<1> QED
  BY <1>1, IdleType, SlotMoves

LEMMA RunMoves ==
  ASSUME SwarmInv, NEW s \in Slots, ReadJob(s) \/ ListTasks(s) \/ Settle(s)
  PROVE  SwarmInv'
<1> DEFINE j == slot[s].of
<1>1. /\ slot[s] \in Activity /\ slot \in [Slots -> Activity] /\ KeptSlot(slot[s])
      /\ UNCHANGED <<job, task, approved, dropped, crashed>> /\ crashed' \in BOOLEAN
  BY DEF ReadJob, ListTasks, Settle, SwarmInv, SwarmTypeOK
<1>2. j \in dropped =>
        /\ job[j].status = "cancelled" /\ slot[s].mode = "background"
        /\ slot[s].pc \notin {"queued", "idle"}
      \/ slot[s].pc \in {"idle", "cancelling", "sweeping"}
  BY DEF SwarmInv, DroppedKept, Dropping
<1>3. CASE ReadJob(s)
  <2> DEFINE to == [slot[s] EXCEPT !.pc = "starting"]
  <2>1. to \in Activity /\ to.pc = "starting" /\ to.of = j /\ to.mode = slot[s].mode
    BY <1>1 DEF Activity, Activities
  <2>2. slot[s].pc = "queued"
        /\ (slot' = [slot EXCEPT ![s] = Idle] \/ slot' = [slot EXCEPT ![s] = to])
    BY <1>1, <1>3 DEF ReadJob, At, Rest, Go
  <2>3. slot[s].of \notin dropped
    BY <1>2, <2>2
  <2> HIDE DEF to
  <2> QED
    BY <1>1, <2>1, <2>2, <2>3, SlotRests, RunGoesOn
<1>4. CASE ListTasks(s)
  <2> DEFINE todo == {t \in Tasks : slot[s].mode = "inline" \/ task[j][t] # "cancelled"}
             to   == [slot[s] EXCEPT !.pc = "working", !.todo = todo]
  <2>1. slot' = [slot EXCEPT ![s] = to] /\ slot[s].pc = "listing"
    BY <1>1, <1>4 DEF ListTasks, At
  <2>2. todo \in SUBSET Tasks /\ \A t \in Tasks \ todo : task[j][t] # "pending"
    OBVIOUS
  <2> HIDE DEF todo
  <2>3. to \in Activity /\ to.pc = "working" /\ to.of = j /\ to.mode = slot[s].mode
        /\ to.todo = todo
    BY <1>1, <2>2 DEF Activity, Activities
  <2>4. slot[s].of \in dropped => Dropping(to)
    BY <1>2, <2>1, <2>3 DEF Dropping
  <2> HIDE DEF to
  <2> QED
    BY <1>1, <2>1, <2>2, <2>3, <2>4, RunGoesOn
<1>5. CASE Settle(s) /\ Refreshed(s)
  BY <1>1, <1>5, SlotRests DEF Settle, Rest
<1>6. CASE Settle(s) /\ ~Refreshed(s)
  <2>1. PICK pc \in {"failing", "judging"} : slot' = [slot EXCEPT ![s].pc = pc]
    BY <1>6 DEF Settle, Go
  <2> DEFINE to == [slot[s] EXCEPT !.pc = pc]
  <2>2. to \in Activity /\ to.pc = pc /\ to.of = j /\ to.mode = slot[s].mode
    BY <1>1 DEF Activity, Activities
  <2>3. slot[s].pc = "working" /\ slot[s].todo = {}
    BY <1>6 DEF Settle, AllDone, At
  <2>4. \A t \in Tasks : task[j][t] # "pending"
    BY <1>1, <2>3 DEF KeptSlot
  <2>5. slot[s].of \notin dropped
    BY <1>2, <1>6, <2>3 DEF Refreshed
  <2>6. slot' = [slot EXCEPT ![s] = to]
    BY <1>1, <2>1
  <2> HIDE DEF to
  <2> QED
    BY <1>1, <2>2, <2>3, <2>4, <2>5, <2>6, RunGoesOn
<1> QED
  BY <1>3, <1>4, <1>5, <1>6

(* A request takes up a job that is stored, on the status it reads.           *)
LEMMA ReadsPreserve ==
  ASSUME SwarmInv, NEW s \in Slots, CancelRead(s) \/ CancelTasks(s) \/ ApproveRead(s)
  PROVE  SwarmInv'
<1>1. UNCHANGED <<job, task, approved, dropped, crashed>> /\ crashed' \in BOOLEAN
  BY DEF CancelRead, CancelTasks, ApproveRead, SwarmInv, SwarmTypeOK
<1>2. CASE CancelRead(s)
  <2>1. PICK j \in Stored :
          slot' = [slot EXCEPT ![s] = [Idle EXCEPT !.pc = "cancelling", !.of = j]]
    BY <1>2 DEF CancelRead
  <2> DEFINE to == [Idle EXCEPT !.pc = "cancelling", !.of = j]
  <2>2. to \in Activity /\ to.pc = "cancelling" /\ to.of = j
    BY DEF Idle, Activity, Activities, Modes, Stored
  <2>3. slot' = [slot EXCEPT ![s] = to]
    BY <2>1
  <2> HIDE DEF to
  <2>4. KeptSlot(to) /\ ~Sole(to) /\ Dropping(to)
    BY <2>2 DEF KeptSlot, Sole, RunStages, Dropping
  <2> QED
    BY <1>1, <2>2, <2>3, <2>4, SlotMoves
<1>4. CASE CancelTasks(s)
  <2> DEFINE j    == slot[s].of
             todo == {t \in Tasks : task[j][t] \in {"pending", "running"}}
             to   == [slot[s] EXCEPT !.pc = "sweeping", !.todo = todo]
  <2>1. /\ slot[s] \in Activity /\ slot \in [Slots -> Activity] /\ KeptSlot(slot[s])
        /\ slot[s].pc = "cancelling" /\ slot' = [slot EXCEPT ![s] = to]
    BY <1>4 DEF CancelTasks, At, SwarmInv, SwarmTypeOK
  <2>2. todo \in SUBSET Tasks
    OBVIOUS
  <2> HIDE DEF todo
  <2>3. to \in Activity /\ to.pc = "sweeping" /\ to.of = slot[s].of
    BY <2>1, <2>2 DEF Activity, Activities
  <2> HIDE DEF to
  <2>4. KeptSlot(to) /\ ~Sole(to) /\ Dropping(to)
    BY <2>1, <2>3 DEF KeptSlot, Sole, RunStages, Dropping
  <2> QED
    BY <1>1, <2>1, <2>3, <2>4, SlotMoves
<1>3. CASE ApproveRead(s)
  <2>1. PICK j \in Stored, pc \in {"finalizing", "approving"} :
          /\ job[j].status = "requires_approval"
          /\ pc = "finalizing" => job[j].started
          /\ slot' = [slot EXCEPT ![s] = [Idle EXCEPT !.of = j, !.pc = pc]]
    BY <1>3 DEF ApproveRead
  <2> DEFINE to == [Idle EXCEPT !.of = j, !.pc = pc]
  <2>2. to \in Activity /\ to.pc = pc /\ to.of = j /\ to.mode = "inline"
    BY DEF Idle, Activity, Activities, Modes, Stored
  <2>3. pc = "finalizing" => \A t \in Tasks : task[j][t] # "pending"
    BY <2>1 DEF SwarmInv, VerdictOnAll, Resting
  <2>4. slot' = [slot EXCEPT ![s] = to]
    BY <2>1
  <2> HIDE DEF to
  <2>5. KeptSlot(to) /\ ~Sole(to)
    BY <2>2, <2>3 DEF KeptSlot, Sole, RunStages
  <2>6. \A q \in Others(s, j) : ~Sole(slot[q])
    BY <2>1 DEF SwarmInv, KeptSlot, Others, NoVerdict
  <2>7. j \notin dropped
    BY <2>1 DEF SwarmInv, DroppedKept
  <2> QED
    BY <1>1, <2>2, <2>4, <2>5, <2>6, <2>7, SlotMoves
<1> QED
  BY <1>2, <1>3, <1>4

LEMMA WritesPreserve ==
  ASSUME SwarmInv, NEW s \in Slots,
         Gate(s) \/ Start(s) \/ Fail(s) \/ Judge(s) \/ Approve(s) \/ Finalize(s)
  PROVE  SwarmInv'
<1> DEFINE j == slot[s].of
<1>1. /\ slot[s].pc \in {"gating", "starting", "failing", "judging", "approving", "finalizing"}
      /\ slot[s] \in Activity /\ slot \in [Slots -> Activity] /\ KeptSlot(slot[s])
      /\ UNCHANGED <<task, dropped, crashed>>
  BY DEF Gate, Start, Fail, Judge, Approve, Finalize, At, SwarmInv, SwarmTypeOK
<1>2. j \in Jobs /\ job[j] \in Row /\ job \in [Jobs -> Row \cup {NoRow}]
  BY <1>1 DEF KeptSlot, Stored, SwarmInv, SwarmTypeOK
<1>3. ASSUME NEW status \in Statuses, SetStatus(j, status)
      PROVE  \E row \in Row : /\ job' = [job EXCEPT ![j] = row]
                              /\ row.gated = job[j].gated /\ row.started = job[j].started
                              /\ row.status = status
  <2> DEFINE row == [job[j] EXCEPT !.status = status]
  <2>1. row \in Row /\ row.gated = job[j].gated /\ row.started = job[j].started
        /\ row.status = status
    BY <1>2 DEF Row
  <2>2. job' = [job EXCEPT ![j] = row]
    BY <1>2, <1>3 DEF SetStatus
  <2> HIDE DEF row
  <2> QED
    BY <2>1, <2>2
<1>4. CASE Gate(s) \/ Fail(s) \/ Judge(s) \/ Finalize(s)
  <2>1. PICK status \in Statuses : SetStatus(j, status)
    BY <1>4 DEF Gate, Fail, Judge, Finalize, Statuses, Resting
  <2>2. PICK row \in Row : /\ job' = [job EXCEPT ![j] = row]
                           /\ row.gated = job[j].gated /\ row.started = job[j].started
                           /\ row.status = status
    BY <1>3, <2>1
  <2>3. row.started => \A t \in Tasks : task[j][t] # "pending"
    BY <1>1, <1>4, <2>2 DEF Gate, Fail, Judge, Finalize, At, KeptSlot
  <2>4. slot' = [slot EXCEPT ![s] = Idle] /\ UNCHANGED approved
    BY <1>4 DEF Gate, Fail, Judge, Finalize, Rest
  <2> QED
    BY <1>1, <2>2, <2>3, <2>4, IdleType, StatusWritten
<1>5. CASE Start(s)
  <2> DEFINE row == [job[j] EXCEPT !.status = "running", !.started = TRUE]
             to  == [slot[s] EXCEPT !.pc = "listing"]
  <2>1. row \in Row /\ row.gated = job[j].gated /\ row.status = "running"
    BY <1>2 DEF Row, Statuses
  <2>2. to \in Activity /\ to.pc = "listing" /\ to.of = j /\ to.mode = slot[s].mode
    BY <1>1 DEF Activity, Activities
  <2>3. slot[s].pc = "starting" /\ UNCHANGED approved
        /\ job' = [job EXCEPT ![j] = row] /\ slot' = [slot EXCEPT ![s] = to]
    BY <1>1, <1>2, <1>5 DEF Start, At, Go
  <2> HIDE DEF row, to
  <2>4. (row.gated => j \in approved) /\ (Sole(to) => Sole(slot[s]))
    BY <1>1, <2>1, <2>2, <2>3 DEF KeptSlot, Sole, RunStages
  <2>5. row.status \in NoVerdict /\ row.status \notin Resting \ {"cancelled"}
    BY <2>1 DEF NoVerdict, Resting
  <2> QED
    BY <1>1, <2>1, <2>2, <2>3, <2>4, <2>5, StatusWritten
<1>6. CASE Approve(s)
  <2> DEFINE to == [slot[s] EXCEPT !.pc = "starting"]
  <2>1. "pending" \in Statuses /\ SetStatus(j, "pending")
    BY <1>6 DEF Approve, Statuses
  <2>2. PICK row \in Row : /\ job' = [job EXCEPT ![j] = row]
                           /\ row.gated = job[j].gated /\ row.started = job[j].started
                           /\ row.status = "pending"
    BY <1>3, <2>1
  <2>3. to \in Activity /\ to.pc = "starting" /\ to.of = j /\ to.mode = slot[s].mode
    BY <1>1 DEF Activity, Activities
  <2>4. slot[s].pc = "approving" /\ approved' = approved \cup {j}
        /\ slot' = [slot EXCEPT ![s] = to]
    BY <1>1, <1>6 DEF Approve, At, Go
  <2> HIDE DEF to
  <2>5. ~Sole(to)
    BY <1>1, <2>3, <2>4 DEF KeptSlot, Sole
  <2>6. row.status \in NoVerdict /\ row.status \notin Resting \ {"cancelled"}
    BY <2>2 DEF NoVerdict, Resting
  <2> QED
    BY <1>1, <2>2, <2>3, <2>4, <2>5, <2>6, StatusWritten
<1> QED
  BY <1>4, <1>5, <1>6

-----------------------------------------------------------------------------
LEMMA SwarmAlways == SwarmSpec => []SwarmInv
<1>1. ASSUME SwarmInv, NEW s \in Slots, Crash(s) PROVE SwarmInv'
  BY <1>1, SlotRests DEF Crash, Rest
<1>2. ASSUME SwarmInv, NEW s \in Slots, Launch(s) PROVE SwarmInv'
  BY <1>2, CreatePreserves DEF Launch
<1>3. ASSUME SwarmInv, NEW s \in Slots, Run(s) PROVE SwarmInv'
  BY <1>3, RunMoves, WritesPreserve, TaskWritten DEF Run
<1>4. ASSUME SwarmInv, NEW s \in Slots, Intervene(s) PROVE SwarmInv'
  BY <1>4, ReadsPreserve, WritesPreserve, CancelPreserves DEF Intervene
<1>5. ASSUME SwarmInv, UNCHANGED swarmVars PROVE SwarmInv'
  BY <1>5
  DEF swarmVars, SwarmInv, SwarmTypeOK, Stored, KeptSlot, Sole, Others, Alone, DroppedKept,
      Dropping, UnstoredEmpty, RunsOnlyApproved, VerdictOnAll
<1>6. SwarmInv /\ [SwarmNext]_swarmVars => SwarmInv'
  BY <1>1, <1>2, <1>3, <1>4, <1>5, AddTasksPreserves, WritesPreserve, RunMoves DEF SwarmNext
<1> QED
  BY <1>6, SwarmInitially, PTL DEF SwarmSpec

(* The tables and the sessions keep their types, for any jobs and sessions.   *)
THEOREM SwarmTypeCorrect == SwarmSpec => []SwarmTypeOK
<1>1. SwarmInv => SwarmTypeOK
  BY DEF SwarmInv
<1> QED
  BY <1>1, SwarmAlways, PTL

(* A job that is held for approval runs no task before it is approved, for    *)
(* any number of requests that create, approve and cancel jobs at once.       *)
THEOREM ApprovalBeforeTasks == SwarmSpec => []RunsOnlyApproved
<1>1. SwarmInv => RunsOnlyApproved
  BY DEF SwarmInv
<1> QED
  BY <1>1, SwarmAlways, PTL

(* No verdict leaves a task that was never begun, whatever approves, cancels  *)
(* and runs of the job overlap.                                               *)
THEOREM VerdictOnEveryTask == SwarmSpec => []VerdictOnAll
<1>1. SwarmInv => VerdictOnAll
  BY DEF SwarmInv
<1> QED
  BY <1>1, SwarmAlways, PTL

(* The refresh after the last task keeps the cancel of a background run, for  *)
(* any number of tasks, sessions and cancels.                                 *)
THEOREM CancelIsKept == SwarmSpec => []CancelSticks
<1>1. SwarmInv => CancelSticks
  BY DEF SwarmInv, DroppedKept, CancelSticks
<1> QED
  BY <1>1, SwarmAlways, PTL

-----------------------------------------------------------------------------
(* Missions: what a flight may rely on while others cancel and approve. *)
(* A job that is over: nobody runs it any more, and what is left of requests  *)
(* that read it earlier cannot start it again.                                *)
JobOver(j) ==
  /\ job[j].status \in Resting
  /\ job[j].status = "requires_approval" => job[j].started
  /\ \A q \in Slots : slot[q].pc # "idle" /\ slot[q].of = j
                        => slot[q].pc \in {"cancelling", "sweeping", "finalizing"}

StartedKept ==
  \A q \in Slots : slot[q].pc \in {"listing", "working", "judging", "failing"}
                     => job[slot[q].of].started

Drives(s, j) ==
  slot[s].mode = "background" /\ slot[s].pc \in RunStages /\ slot[s].of = j

FlightKept(s) ==
  LET j == flight[s].job IN
  /\ flight[s].pc \in {"admitting", "observing", "reviewing", "updating"} => slot[s] = Idle
  /\ Flies(s, "creating") =>
       /\ j \in Jobs /\ slot[s].of = j /\ ~job[j].gated
       /\ slot[s].mode = "background" /\ slot[s].pc \in {"creating", "queued"}
  /\ Flies(s, "running") =>
       j \in Jobs /\ (Drives(s, j) \/ (slot[s] = Idle /\ JobOver(j)))
  /\ Flies(s, "observing") => j \in Jobs /\ JobOver(j)
  /\ Flies(s, "reviewing") => j \in Jobs /\ observation[j] # "none"

MissionInv ==
  /\ SwarmInv /\ MissionTypeOK /\ StartedKept
  /\ \A s \in Slots : FlightKept(s)
  /\ \A j \in Jobs : observation[j] # "none" => JobOver(j)

(* What a step does to the session that takes it, and to the job it is about. *)
LEMMA WorkEffect ==
  ASSUME SwarmInv, NEW s \in Slots,
         AddTasks(s) \/ Gate(s) \/ ReadJob(s) \/ Run(s) \/ Approve(s)
  PROVE  /\ slot[s].pc \notin {"idle", "cancelling", "sweeping", "finalizing"}
         /\ \A q \in Slots \ {s} : slot'[q] = slot[q]
         /\ slot'[s].pc # "idle" => slot'[s].of = slot[s].of
         /\ \A i \in Jobs \ {slot[s].of} : job'[i] = job[i]
         /\ slot[s].of \in Jobs /\ job[slot[s].of] \in Row
<1> DEFINE j == slot[s].of
<1>1. /\ slot \in [Slots -> Activity] /\ slot[s] \in Activity
      /\ job \in [Jobs -> Row \cup {NoRow}]
  BY DEF SwarmInv, SwarmTypeOK
<1>2. slot[s].pc \notin {"idle", "cancelling", "sweeping", "finalizing"}
  BY DEF AddTasks, Gate, ReadJob, Run, Start, ListTasks, Settle, AllDone, Fail, Judge,
         BeginTask, EndTask, Approve, At
<1>3. j \in Jobs /\ job[j] \in Row
  BY <1>1, <1>2 DEF SwarmInv, KeptSlot, Stored
<1>4. \A i \in Jobs \ {j} : job'[i] = job[i]
  BY <1>1 DEF AddTasks, Gate, ReadJob, Run, Start, ListTasks, Settle, Fail, Judge,
              BeginTask, EndTask, Approve, SetStatus
<1>5. /\ \A q \in Slots \ {s} : slot'[q] = slot[q]
      /\ slot'[s].pc # "idle" => slot'[s].of = slot[s].of
  <2>1. CASE slot' = [slot EXCEPT ![s] = Idle]
    BY <1>1, <2>1, IdleType
  <2>2. ASSUME NEW pc, slot' = [slot EXCEPT ![s].pc = pc] PROVE <1>5
    BY <1>1, <2>2 DEF Activity
  <2>3. CASE ListTasks(s)
    BY <1>1, <2>3 DEF ListTasks, Activity
  <2>4. ASSUME NEW t \in Tasks, BeginTask(s, t) \/ EndTask(s, t) PROVE <1>5
    <3>1. CASE BeginTask(s, t)
      BY <1>1, <3>1 DEF BeginTask, Activity
    <3>2. CASE slot' = [slot EXCEPT ![s].busy = @ \ {t}, ![s].good = @ \cup {t}]
      BY <1>1, <3>2 DEF Activity
    <3>3. CASE slot' = [slot EXCEPT ![s].busy = @ \ {t}, ![s].bad = @ \cup {t}]
      BY <1>1, <3>3 DEF Activity
    <3> QED
      BY <2>4, <3>1, <3>2, <3>3 DEF EndTask
  <2>5. CASE Gate(s) \/ Fail(s) \/ Judge(s)
    BY <2>1, <2>5 DEF Gate, Fail, Judge, Rest
  <2>6. CASE AddTasks(s) \/ ReadJob(s) \/ Start(s) \/ Settle(s) \/ Approve(s)
    BY <2>1, <2>2, <2>6 DEF AddTasks, ReadJob, Start, Settle, Approve, Rest, Go
  <2> QED
    BY <2>3, <2>4, <2>5, <2>6 DEF Run
<1> QED
  BY <1>2, <1>3, <1>4, <1>5

LEMMA RequestEffect ==
  ASSUME SwarmInv, NEW s \in Slots, Launch(s) \/ Intervene(s) \/ slot' = [slot EXCEPT ![s] = Idle]
  PROVE  /\ \A q \in Slots \ {s} : slot'[q] = slot[q]
<1> QED
  BY DEF SwarmInv, SwarmTypeOK, Launch, Create, Intervene, CancelRead, CancelTasks, CancelWrite,
         ApproveRead, Approve, Finalize, Rest, Go

(* Nothing a session still may do starts a job again that is over. *)
LEMMA OverKept ==
  ASSUME SwarmInv, NEW s \in Slots, NEW j \in Jobs, JobOver(j),
         \/ AddTasks(s) \/ Gate(s) \/ ReadJob(s) \/ Run(s) \/ Launch(s) \/ Intervene(s)
         \/ slot' = [slot EXCEPT ![s] = Idle] /\ UNCHANGED job
  PROVE  JobOver(j)'
<1>1. /\ slot \in [Slots -> Activity] /\ slot[s] \in Activity
      /\ job \in [Jobs -> Row \cup {NoRow}]
  BY DEF SwarmInv, SwarmTypeOK
<1>2. j \in Stored
  BY DEF JobOver, Stored, NoRow, Resting
<1>3. ASSUME \A q \in Slots \ {s} : slot'[q] = slot[q],
             slot'[s].pc # "idle" /\ slot'[s].of = j
               => slot'[s].pc \in {"cancelling", "sweeping", "finalizing"},
             job'[j].status \in Resting,
             job'[j].status = "requires_approval" => job'[j].started
      PROVE  JobOver(j)'
  BY <1>3 DEF JobOver
<1>4. CASE AddTasks(s) \/ Gate(s) \/ ReadJob(s) \/ Run(s) \/ Approve(s)
  <2>1. /\ slot[s].of # j
        /\ \A q \in Slots \ {s} : slot'[q] = slot[q]
        /\ slot'[s].pc # "idle" => slot'[s].of # j
        /\ job'[j] = job[j]
    BY <1>4, WorkEffect DEF JobOver
  <2> QED
    BY <1>3, <2>1 DEF JobOver
<1>5. CASE Launch(s)
  <2>1. PICK i \in Jobs \ Stored, gated \in BOOLEAN, mode \in Modes :
          Create(s, i, gated, mode)
    BY <1>5 DEF Launch, Create
  <2>2. i # j /\ job'[j] = job[j]
    BY <1>1, <1>2, <2>1 DEF Create
  <2>3. \A q \in Slots \ {s} : slot'[q] = slot[q]
    BY <1>1, <2>1 DEF Create
  <2>4. slot'[s].of = i
    BY <1>1, <2>1 DEF Create, Idle
  <2> QED
    BY <1>3, <2>2, <2>3, <2>4 DEF JobOver
<1>6. CASE CancelRead(s)
  <2>1. PICK i \in Stored :
          slot' = [slot EXCEPT ![s] = [Idle EXCEPT !.pc = "cancelling", !.of = i]]
    BY <1>6 DEF CancelRead
  <2>2. slot'[s].pc = "cancelling" /\ \A q \in Slots \ {s} : slot'[q] = slot[q]
    BY <1>1, <2>1 DEF Idle
  <2>3. job'[j] = job[j]
    BY <1>6 DEF CancelRead
  <2> QED
    BY <1>3, <2>2, <2>3 DEF JobOver
<1>10. CASE CancelTasks(s)
  <2>1. slot'[s].pc = "sweeping" /\ \A q \in Slots \ {s} : slot'[q] = slot[q]
    BY <1>1, <1>10 DEF CancelTasks, Activity
  <2>2. job'[j] = job[j]
    BY <1>10 DEF CancelTasks
  <2> QED
    BY <1>3, <2>1, <2>2 DEF JobOver
<1>7. CASE ApproveRead(s)
  <2>1. PICK i \in Stored :
          /\ job[i].status = "requires_approval"
          /\ slot' = [slot EXCEPT ![s] = [Idle EXCEPT !.of = i,
                       !.pc = IF job[i].started THEN "finalizing" ELSE "approving"]]
    BY <1>7 DEF ApproveRead
  <2>2. /\ slot'[s].of = i /\ \A q \in Slots \ {s} : slot'[q] = slot[q]
        /\ job[i].started => slot'[s].pc = "finalizing"
    BY <1>1, <2>1 DEF Idle
  <2>3. job'[j] = job[j]
    BY <1>7 DEF ApproveRead
  <2>4. i = j => job[i].started
    BY <2>1 DEF JobOver
  <2> QED
    BY <1>3, <2>2, <2>3, <2>4 DEF JobOver
<1>8. CASE CancelWrite(s) \/ Finalize(s)
  <2>1. slot'[s] = Idle /\ \A q \in Slots \ {s} : slot'[q] = slot[q]
    BY <1>1, <1>8 DEF CancelWrite, Finalize, Rest
  <2>2. PICK status \in {"cancelled", "completed"} :
          job' = [job EXCEPT ![slot[s].of].status = status]
    BY <1>8 DEF CancelWrite, Finalize, SetStatus
  <2>3. job'[j] = job[j] \/ (job'[j].status = status)
    BY <1>1, <1>2, <2>2 DEF Row, Stored
  <2>4. /\ job'[j].status \in Resting
        /\ job'[j].status = "requires_approval" => job'[j].started
    BY <2>3 DEF JobOver, Resting
  <2> QED
    BY <1>3, <2>1, <2>4, IdleType
<1>9. CASE slot' = [slot EXCEPT ![s] = Idle] /\ UNCHANGED job
  <2>1. slot'[s] = Idle /\ \A q \in Slots \ {s} : slot'[q] = slot[q]
    BY <1>1, <1>9
  <2> QED
    BY <1>3, <1>9, <2>1, IdleType DEF JobOver
<1> QED
  BY <1>4, <1>5, <1>6, <1>7, <1>8, <1>9, <1>10 DEF Intervene

(* A run that was begun marked its job. *)
LEMMA StartedNext ==
  ASSUME SwarmInv, StartedKept, NEW s \in Slots,
         \/ AddTasks(s) \/ Gate(s) \/ ReadJob(s) \/ Run(s) \/ Launch(s) \/ Intervene(s)
         \/ slot' = [slot EXCEPT ![s] = Idle] /\ UNCHANGED job
  PROVE  StartedKept'
<1> DEFINE Begun(q) == slot[q].pc \in {"listing", "working", "judging", "failing"}
<1>1. /\ slot \in [Slots -> Activity] /\ slot[s] \in Activity
      /\ job \in [Jobs -> Row \cup {NoRow}]
  BY DEF SwarmInv, SwarmTypeOK
<1>2. \A q \in Slots : slot[q].pc # "idle" => slot[q].of \in Stored
  BY DEF SwarmInv, KeptSlot
<1>3. \A q \in Slots \ {s} : slot'[q] = slot[q]
  BY WorkEffect, RequestEffect DEF Intervene
<1>4. \A j \in Stored : job[j].started => job'[j].started
  <2> SUFFICES ASSUME NEW j \in Stored, job[j].started PROVE job'[j].started
    OBVIOUS
  <2>1. j \in Jobs /\ job[j] \in Row
    BY <1>1 DEF Stored
  <2>2. CASE UNCHANGED job
    BY <2>2
  <2>3. ASSUME NEW i, NEW status, job' = [job EXCEPT ![i].status = status] PROVE job'[j].started
    BY <1>1, <2>1, <2>3 DEF Row
  <2>4. CASE Start(s)
    BY <1>1, <2>1, <2>4 DEF Start, Row
  <2>5. CASE Launch(s)
    BY <1>1, <2>1, <2>5 DEF Launch, Create
  <2>6. CASE Gate(s) \/ Fail(s) \/ Judge(s) \/ CancelWrite(s) \/ Approve(s) \/ Finalize(s)
    BY <2>3, <2>6 DEF Gate, Fail, Judge, CancelWrite, Approve, Finalize, SetStatus
  <2>7. CASE \/ AddTasks(s) \/ ReadJob(s) \/ ListTasks(s) \/ Settle(s) \/ CancelRead(s)
             \/ CancelTasks(s) \/ ApproveRead(s)
             \/ (\E t \in Tasks : BeginTask(s, t) \/ EndTask(s, t))
    BY <2>2, <2>7 DEF AddTasks, ReadJob, ListTasks, Settle, CancelRead, CancelTasks,
                      ApproveRead, BeginTask, EndTask
  <2> QED
    BY <2>2, <2>4, <2>5, <2>6, <2>7 DEF Run, Intervene
<1>5. ASSUME Begun(s)' PROVE job'[slot'[s].of].started
  <2>1. CASE slot' = [slot EXCEPT ![s] = Idle]
    BY <1>1, <1>5, <2>1, IdleType
  <2>2. CASE AddTasks(s) \/ ReadJob(s) \/ Approve(s)
    <3>1. slot'[s] = Idle \/ slot'[s].pc \in {"gating", "starting", "queued"}
      BY <1>1, <2>2 DEF AddTasks, ReadJob, Approve, Rest, Go, Activity
    <3> QED
      BY <1>5, <3>1, IdleType
  <2>3. CASE Start(s)
    <3>1. slot'[s].of = slot[s].of /\ slot[s].of \in Jobs /\ job[slot[s].of] \in Row
      BY <1>5, <2>3, WorkEffect DEF Run
    <3> QED
      BY <1>1, <2>3, <3>1 DEF Start, Row
  <2>4. CASE ListTasks(s) \/ Settle(s) \/ (\E t \in Tasks : BeginTask(s, t) \/ EndTask(s, t))
    <3>1. slot[s].pc \in {"listing", "working"} /\ job' = job
      BY <2>4 DEF ListTasks, Settle, AllDone, BeginTask, EndTask, At
    <3>2. slot'[s].of = slot[s].of
      BY <1>5, <2>4, WorkEffect DEF Run
    <3> QED
      BY <3>1, <3>2 DEF StartedKept
  <2>5. CASE Launch(s)
    <3>1. PICK i \in Jobs, mode \in Modes : slot' = [slot EXCEPT ![s] =
             [Idle EXCEPT !.pc = "creating", !.of = i, !.mode = mode]]
      BY <2>5 DEF Launch, Create
    <3>2. slot'[s].pc = "creating"
      BY <1>1, <3>1 DEF Idle
    <3> QED
      BY <1>5, <3>2
  <2>6. CASE CancelRead(s)
    <3>1. PICK i \in Stored :
            slot' = [slot EXCEPT ![s] = [Idle EXCEPT !.pc = "cancelling", !.of = i]]
      BY <2>6 DEF CancelRead
    <3>2. slot'[s].pc = "cancelling"
      BY <1>1, <3>1 DEF Idle
    <3> QED
      BY <1>5, <3>2
  <2>9. CASE CancelTasks(s)
    <3>1. slot'[s].pc = "sweeping"
      BY <1>1, <2>9 DEF CancelTasks, Activity
    <3> QED
      BY <1>5, <3>1
  <2>7. CASE ApproveRead(s)
    <3>1. PICK i \in Stored :
            slot' = [slot EXCEPT ![s] = [Idle EXCEPT !.of = i,
                       !.pc = IF job[i].started THEN "finalizing" ELSE "approving"]]
      BY <2>7 DEF ApproveRead
    <3>2. slot'[s].pc \in {"finalizing", "approving"}
      BY <1>1, <3>1 DEF Idle
    <3> QED
      BY <1>5, <3>2
  <2>8. CASE Gate(s) \/ Fail(s) \/ Judge(s) \/ CancelWrite(s) \/ Finalize(s)
    BY <2>1, <2>8 DEF Gate, Fail, Judge, CancelWrite, Finalize, Rest
  <2> QED
    BY <2>1, <2>2, <2>3, <2>4, <2>5, <2>6, <2>7, <2>8, <2>9 DEF Run, Intervene
<1>6. ASSUME NEW q \in Slots, Begun(q)' PROVE job'[slot'[q].of].started
  <2>1. CASE q # s
    BY <1>2, <1>3, <1>4, <1>6, <2>1 DEF StartedKept
  <2> QED
    BY <1>5, <1>6, <2>1
<1> QED
  BY <1>6 DEF StartedKept

(* The background run goes on with its job, or its job is over.               *)
LEMMA DriveStep ==
  ASSUME SwarmInv, StartedKept, NEW s \in Slots, NEW j \in Jobs, Drives(s, j),
         ReadJob(s) \/ Run(s)
  PROVE  Drives(s, j)' \/ (slot'[s] = Idle /\ JobOver(j)')
<1>1. /\ slot \in [Slots -> Activity] /\ slot[s] \in Activity
      /\ job \in [Jobs -> Row \cup {NoRow}] /\ slot[s].of = j
      /\ slot[s].mode = "background" /\ Sole(slot[s])
  BY DEF SwarmInv, SwarmTypeOK, Drives, Sole
<1>2. /\ \A q \in Slots \ {s} : slot'[q] = slot[q]
      /\ job[j] \in Row
  BY <1>1, WorkEffect
<1>3. \A q \in Slots \ {s} : slot[q].pc # "idle" /\ slot[q].of = j
        => slot[q].pc \in {"cancelling", "sweeping"}
  BY <1>1 DEF SwarmInv, Alone, Others
<1>4. ASSUME slot' = [slot EXCEPT ![s] = Idle], job'[j].status \in Resting,
             job'[j].status = "requires_approval" => job'[j].started
      PROVE  slot'[s] = Idle /\ JobOver(j)'
  <2>1. slot'[s] = Idle
    BY <1>1, <1>4
  <2> QED
    BY <1>2, <1>3, <1>4, <2>1, IdleType DEF JobOver
<1>5. ASSUME NEW pc \in RunStages, slot' = [slot EXCEPT ![s].pc = pc] PROVE Drives(s, j)'
  BY <1>1, <1>5 DEF Drives, Activity
<1>6. CASE ReadJob(s)
  <2>1. CASE job[j].status \in {"cancelled", "completed"}
    BY <1>1, <1>4, <1>6, <2>1 DEF ReadJob, Rest, Resting
  <2>2. CASE job[j].status \notin {"cancelled", "completed"}
    BY <1>1, <1>5, <1>6, <2>2 DEF ReadJob, Go, RunStages
  <2> QED
    BY <2>1, <2>2
<1>7. CASE Start(s)
  BY <1>5, <1>7 DEF Start, Go, RunStages
<1>8. CASE ListTasks(s)
  BY <1>1, <1>8 DEF ListTasks, Drives, RunStages, Activity
<1>9. CASE Settle(s)
  <2>1. CASE Refreshed(s)
    BY <1>1, <1>4, <1>9, <2>1 DEF Settle, Refreshed, Rest, Resting
  <2>2. CASE ~Refreshed(s)
    BY <1>5, <1>9, <2>2 DEF Settle, Go, RunStages
  <2> QED
    BY <2>1, <2>2
<1>10. CASE Fail(s) \/ Judge(s)
  <2>1. job[j].started
    BY <1>1, <1>10 DEF Fail, Judge, At, StartedKept
  <2>2. PICK status \in Resting : job' = [job EXCEPT ![j].status = status]
    BY <1>1, <1>10 DEF Fail, Judge, SetStatus, Resting
  <2>3. job'[j].status = status /\ job'[j].started
    BY <1>1, <1>2, <2>1, <2>2 DEF Row
  <2> QED
    BY <1>4, <1>10, <2>3 DEF Fail, Judge, Rest
<1>11. ASSUME NEW t \in Tasks, BeginTask(s, t) \/ EndTask(s, t) PROVE Drives(s, j)'
  <2>1. CASE BeginTask(s, t)
    BY <1>1, <2>1 DEF BeginTask, Drives, RunStages, Activity
  <2>2. CASE slot' = [slot EXCEPT ![s].busy = @ \ {t}, ![s].good = @ \cup {t}]
    BY <1>1, <2>2 DEF Drives, Activity
  <2>3. CASE slot' = [slot EXCEPT ![s].busy = @ \ {t}, ![s].bad = @ \cup {t}]
    BY <1>1, <2>3 DEF Drives, Activity
  <2> QED
    BY <1>11, <2>1, <2>2, <2>3 DEF EndTask
<1> QED
  BY <1>6, <1>7, <1>8, <1>9, <1>10, <1>11 DEF Run

-----------------------------------------------------------------------------
(* The steps of Missions are steps of Swarm, or leave Swarm alone. *)
LEMMA SwarmStutters == SwarmInv /\ UNCHANGED swarmVars => SwarmInv'
BY DEF swarmVars, SwarmInv, SwarmTypeOK, Stored, KeptSlot, Sole, Others, Alone, DroppedKept,
       Dropping, UnstoredEmpty, RunsOnlyApproved, VerdictOnAll

LEMMA MissionSwarm ==
  ASSUME SwarmInv, [MissionNext]_allVars
  PROVE  SwarmInv'
<1>1. ASSUME NEW s \in Slots, SwarmWork(s) PROVE SwarmInv'
  <2>1. CASE Launch(s)
    BY <2>1, CreatePreserves DEF Launch
  <2>2. CASE Run(s)
    BY <2>2, RunMoves, WritesPreserve, TaskWritten DEF Run
  <2>3. CASE Intervene(s)
    BY <2>3, ReadsPreserve, WritesPreserve, CancelPreserves DEF Intervene
  <2> QED
    BY <1>1, <2>1, <2>2, <2>3, AddTasksPreserves, WritesPreserve, RunMoves DEF SwarmWork
<1>2. ASSUME NEW s \in Slots, Admit(s) PROVE SwarmInv'
  BY <1>2, CreatePreserves DEF Admit, Modes
<1>3. ASSUME NEW s \in Slots, Die(s) PROVE SwarmInv'
  BY <1>3, SlotRests DEF Die
<1>4. ASSUME NEW s \in Slots,
             \/ Pick(s) \/ Deny(s) \/ Record(s) \/ Report(s) \/ Observe(s) \/ ReviewRead(s)
             \/ ReviewWrite(s) \/ UpdateRead(s) \/ UpdateWrite(s)
      PROVE  SwarmInv'
  BY <1>4, SwarmStutters
  DEF Pick, Deny, Record, Report, Observe, ReviewRead, ReviewWrite, UpdateRead, UpdateWrite
<1>5. CASE TimePasses \/ UNCHANGED allVars
  BY <1>5, SwarmStutters DEF TimePasses, allVars, swarmVars
<1> QED
  BY <1>1, <1>2, <1>3, <1>4, <1>5 DEF MissionNext, Missioning

LEMMA MissionInitially == MissionInit => MissionInv
<1> SUFFICES ASSUME MissionInit PROVE MissionInv
  OBVIOUS
<1> USE DEF MissionInit
<1>1. SwarmInv
  BY SwarmInitially
<1>2. /\ \A s \in Slots : slot[s] = Idle /\ flight[s] = Landed
      /\ \A j \in Jobs : observation[j] = "none"
  BY DEF SwarmInit
<1>3. MissionTypeOK
  BY <1>1 DEF SwarmInv, MissionTypeOK, MissionRow, Flight, Landed
<1>4. StartedKept
  BY <1>2, IdleType DEF StartedKept
<1>5. \A s \in Slots : FlightKept(s)
  BY <1>2 DEF FlightKept, Flies, Landed
<1> QED
  BY <1>1, <1>2, <1>3, <1>4, <1>5 DEF MissionInv

LEMMA MissionTypes ==
  ASSUME MissionInv, [MissionNext]_allVars, SwarmTypeOK'
  PROVE  MissionTypeOK'
<1> USE DEF MissionInv, MissionTypeOK
<1>1. /\ mission \in [Objectives -> MissionRow] /\ flight \in [Slots -> Flight]
      /\ observation \in [Jobs -> {"none", "proposed", "blocked", "approved", "rejected"}]
  OBVIOUS
<1>2. Landed \in Flight
  BY DEF Landed, Flight
<1>3. \A s \in Slots : flight[s] \in Flight
  BY <1>1
<1>4. ASSUME NEW s \in Slots, Pick(s) PROVE MissionTypeOK'
  <2>1. PICK m \in Objectives : Board(s, "admitting", m, NoJob)
    BY <1>4 DEF Pick
  <2>2. [Landed EXCEPT !.pc = "admitting", !.of = m, !.job = NoJob] \in Flight
    BY DEF Landed, Flight
  <2> QED
    BY <1>1, <1>4, <2>1, <2>2 DEF Pick, Board
<1>5. ASSUME NEW s \in Slots, ReviewRead(s) PROVE MissionTypeOK'
  <2>1. PICK j \in Jobs, m \in Objectives : Board(s, "reviewing", m, j)
    BY <1>5 DEF ReviewRead
  <2>2. [Landed EXCEPT !.pc = "reviewing", !.of = m, !.job = j] \in Flight
    BY DEF Landed, Flight
  <2> QED
    BY <1>1, <1>5, <2>1, <2>2 DEF ReviewRead, Board
<1>6. ASSUME NEW s \in Slots, Admit(s) PROVE MissionTypeOK'
  <2>1. PICK j \in Jobs : flight' = [flight EXCEPT ![s].pc = "creating", ![s].job = j]
    BY <1>6 DEF Admit
  <2>2. [flight[s] EXCEPT !.pc = "creating", !.job = j] \in Flight
    BY <1>1 DEF Flight
  <2>3. flight' = [flight EXCEPT ![s] = [flight[s] EXCEPT !.pc = "creating", !.job = j]]
    BY <1>1, <2>1 DEF Flight
  <2>4. flight' \in [Slots -> Flight]
    BY <1>1, <2>2, <2>3
  <2> QED
    BY <1>1, <1>6, <2>4 DEF Admit
<1>7. ASSUME NEW s \in Slots, UpdateRead(s) PROVE MissionTypeOK'
  <2>1. PICK m \in Objectives :
          flight' = [flight EXCEPT ![s] = [pc |-> "updating", of |-> m, job |-> NoJob,
                                           was |-> mission[m].status, due |-> mission[m].due]]
    BY <1>7 DEF UpdateRead
  <2>2. [pc |-> "updating", of |-> m, job |-> NoJob,
         was |-> mission[m].status, due |-> mission[m].due] \in Flight
    BY <1>1 DEF Flight, MissionRow
  <2> QED
    BY <1>1, <1>7, <2>1, <2>2 DEF UpdateRead
<1>8. ASSUME NEW s \in Slots, Land(s) PROVE flight' \in [Slots -> Flight]
  BY <1>1, <1>2, <1>8 DEF Land
<1>9. ASSUME NEW s \in Slots, NEW pc \in {"running", "observing"}, Leg(s, pc)
      PROVE  flight' \in [Slots -> Flight]
  BY <1>1, <1>3, <1>9 DEF Leg, Flight
<1>10. ASSUME NEW s \in Slots, Deny(s) PROVE MissionTypeOK'
  <2>1. mission' \in [Objectives -> MissionRow]
    BY <1>1, <1>10 DEF Deny, MissionRow
  <2> QED
    BY <1>1, <1>8, <1>10, <2>1 DEF Deny
<1>11. ASSUME NEW s \in Slots, Record(s) PROVE MissionTypeOK'
  <2>1. flight[s].job \in Jobs \cup {NoJob} /\ "pending" \in Statuses
    BY <1>3 DEF Flight, Statuses
  <2> DEFINE m   == flight[s].of
             row == [mission[m] EXCEPT !.latest = flight[s].job, !.latestStatus = "pending",
                                       !.due = "later"]
  <2>3. m \in Objectives => row \in MissionRow /\ mission' = [mission EXCEPT ![m] = row]
    <3>1. mission' = [mission EXCEPT ![m].latest = flight[s].job,
                                     ![m].latestStatus = "pending", ![m].due = "later"]
      BY <1>11 DEF Record
    <3> HIDE DEF m
    <3> QED
      BY <1>1, <2>1, <3>1 DEF MissionRow
  <2>4. m \notin Objectives => mission' = mission
    BY <1>1, <1>11 DEF Record
  <2> HIDE DEF m, row
  <2>2. mission' \in [Objectives -> MissionRow]
    BY <1>1, <2>3, <2>4
  <2> QED
    BY <1>1, <1>9, <1>11, <2>2 DEF Record
<1>12. ASSUME NEW s \in Slots, Report(s) PROVE MissionTypeOK'
  <2>1. JobOver(flight[s].job)
    BY <1>12, IdleType DEF Report, FlightKept, Drives, RunStages
  <2>2. job[flight[s].job].status \in Statuses
    BY <2>1 DEF JobOver, Statuses
  <2>3. mission' \in [Objectives -> MissionRow]
    BY <1>1, <1>12, <2>2 DEF Report, MissionRow
  <2> QED
    BY <1>1, <1>9, <1>12, <2>3 DEF Report
<1>13. ASSUME NEW s \in Slots, Observe(s) \/ ReviewWrite(s) PROVE MissionTypeOK'
  <2>1. observation' \in [Jobs -> {"none", "proposed", "blocked", "approved", "rejected"}]
    BY <1>1, <1>13 DEF Observe, ReviewWrite
  <2> QED
    BY <1>1, <1>8, <1>13, <2>1 DEF Observe, ReviewWrite
<1>14. ASSUME NEW s \in Slots, UpdateWrite(s) PROVE MissionTypeOK'
  <2> DEFINE m == flight[s].of
  <2>1. PICK status \in {"active", "paused"}, newCadence \in BOOLEAN :
       mission' = [mission EXCEPT
         ![m].status = IF status # flight[s].was THEN status ELSE @,
         ![m].due    = CASE status = "paused" /\ flight[s].due # "none" -> "none"
                         [] status = "active" /\ (newCadence \/ flight[s].due = "none") -> "later"
                         [] OTHER -> @]
    BY <1>14 DEF UpdateWrite
  <2> DEFINE to  == IF status # flight[s].was THEN status ELSE mission[m].status
             due == CASE status = "paused" /\ flight[s].due # "none" -> "none"
                      [] status = "active" /\ (newCadence \/ flight[s].due = "none") -> "later"
                      [] OTHER -> mission[m].due
  <2>3. m \in Objectives => /\ to \in {"active", "paused"} /\ due \in {"none", "later", "now"}
                            /\ mission' = [mission EXCEPT ![m].status = to, ![m].due = due]
    BY <1>1, <2>1 DEF MissionRow
  <2>4. m \notin Objectives => mission' = mission
    BY <1>1, <2>1
  <2> HIDE DEF m, to, due
  <2>2. mission' \in [Objectives -> MissionRow]
    BY <1>1, <2>3, <2>4 DEF MissionRow
  <2> QED
    BY <1>1, <1>8, <1>14, <2>2 DEF UpdateWrite
<1>15. ASSUME TimePasses PROVE MissionTypeOK'
  <2>1. mission' \in [Objectives -> MissionRow]
    BY <1>1, <1>15 DEF TimePasses, MissionRow
  <2> QED
    BY <1>1, <1>15, <2>1 DEF TimePasses
<1>16. ASSUME NEW s \in Slots, SwarmWork(s) PROVE MissionTypeOK'
  BY <1>1, <1>16 DEF SwarmWork, missionVars
<1>17. ASSUME NEW s \in Slots, Die(s) PROVE MissionTypeOK'
  BY <1>1, <1>8, <1>17 DEF Die
<1>18. CASE UNCHANGED allVars
  BY <1>1, <1>18 DEF allVars
<1> QED
  BY <1>4, <1>5, <1>6, <1>7, <1>10, <1>11, <1>12, <1>13, <1>14, <1>15, <1>16, <1>17, <1>18
  DEF MissionNext, Missioning

(* Whether a job is held for approval is settled when it is created. *)
LEMMA GatedKept ==
  ASSUME SwarmInv, NEW s \in Slots, NEW j \in Stored,
         \/ AddTasks(s) \/ Gate(s) \/ ReadJob(s) \/ Run(s) \/ Launch(s) \/ Intervene(s)
  PROVE  job'[j].gated = job[j].gated
<1>1. j \in Jobs /\ job[j] \in Row /\ job \in [Jobs -> Row \cup {NoRow}]
  BY DEF SwarmInv, SwarmTypeOK, Stored
<1>2. CASE UNCHANGED job
  BY <1>2
<1>3. ASSUME NEW i, NEW status, job' = [job EXCEPT ![i].status = status]
      PROVE  job'[j].gated = job[j].gated
  BY <1>1, <1>3 DEF Row
<1>4. CASE Start(s)
  BY <1>1, <1>4 DEF Start, Row
<1>5. CASE Launch(s)
  BY <1>1, <1>5 DEF Launch, Create
<1>6. CASE Gate(s) \/ Fail(s) \/ Judge(s) \/ CancelWrite(s) \/ Approve(s) \/ Finalize(s)
  BY <1>3, <1>6 DEF Gate, Fail, Judge, CancelWrite, Approve, Finalize, SetStatus
<1>7. CASE \/ AddTasks(s) \/ ReadJob(s) \/ ListTasks(s) \/ Settle(s) \/ CancelRead(s)
           \/ CancelTasks(s) \/ ApproveRead(s)
           \/ (\E t \in Tasks : BeginTask(s, t) \/ EndTask(s, t))
  BY <1>2, <1>7 DEF AddTasks, ReadJob, ListTasks, Settle, CancelRead, CancelTasks,
                    ApproveRead, BeginTask, EndTask
<1> QED
  BY <1>4, <1>5, <1>6, <1>7 DEF Run, Intervene

(* The other flights do not notice a step. *)
LEMMA OtherFlights ==
  ASSUME MissionInv, NEW s \in Slots,
         \A q \in Slots \ {s} : slot'[q] = slot[q] /\ flight'[q] = flight[q],
         \A j \in Jobs : JobOver(j) => JobOver(j)',
         \A j \in Jobs : observation[j] # "none" => observation'[j] # "none",
         \A j \in Stored : job'[j].gated = job[j].gated
  PROVE  \A q \in Slots \ {s} : FlightKept(q)'
<1> SUFFICES ASSUME NEW q \in Slots \ {s} PROVE FlightKept(q)'
  OBVIOUS
<1>1. FlightKept(q) /\ slot'[q] = slot[q] /\ flight'[q] = flight[q]
  BY DEF MissionInv
<1>2. slot[q].pc # "idle" => slot[q].of \in Stored
  BY DEF MissionInv, SwarmInv, KeptSlot
<1>3. flight[q].pc = "creating" => ~job'[flight[q].job].gated
  BY <1>1, <1>2 DEF FlightKept, Flies
<1> QED
  BY <1>1, <1>3 DEF FlightKept, Flies, Drives

(* A step of the missions code that leaves Swarm alone. *)
LEMMA FlightStep ==
  ASSUME MissionInv, NEW s \in Slots, UNCHANGED swarmVars,
         \A q \in Slots \ {s} : flight'[q] = flight[q],
         \A j \in Jobs : observation'[j] # "none" =>
           observation[j] # "none" \/ JobOver(j),
         \A j \in Jobs : observation[j] # "none" => observation'[j] # "none",
         FlightKept(s)', SwarmInv', MissionTypeOK'
  PROVE  MissionInv'
<1>1. job' = job /\ slot' = slot
  BY DEF swarmVars
<1>2. \A j \in Jobs : JobOver(j)' <=> JobOver(j)
  BY <1>1 DEF JobOver
<1>3. StartedKept'
  BY <1>1 DEF MissionInv, StartedKept
<1>4. \A q \in Slots : FlightKept(q)'
  BY <1>1, <1>2, OtherFlights
<1>5. \A j \in Jobs : observation'[j] # "none" => JobOver(j)'
  BY <1>2 DEF MissionInv
<1> QED
  BY <1>3, <1>4, <1>5 DEF MissionInv

(* A step of Swarm in the slot s, with the flight of s. *)
LEMMA SlotStep ==
  ASSUME MissionInv, NEW s \in Slots, UNCHANGED observation,
         \A q \in Slots \ {s} : flight'[q] = flight[q] /\ slot'[q] = slot[q],
         \A j \in Jobs : JobOver(j) => JobOver(j)',
         \A j \in Stored : job'[j].gated = job[j].gated,
         StartedKept', FlightKept(s)', SwarmInv', MissionTypeOK'
  PROVE  MissionInv'
<1>1. \A q \in Slots : FlightKept(q)'
  BY OtherFlights
<1>2. \A j \in Jobs : observation'[j] # "none" => JobOver(j)'
  BY DEF MissionInv
<1> QED
  BY <1>1, <1>2 DEF MissionInv

LEMMA MissionStep == MissionInv /\ [MissionNext]_allVars => MissionInv'
<1> SUFFICES ASSUME MissionInv, [MissionNext]_allVars PROVE MissionInv'
  OBVIOUS
<1>1. SwarmInv /\ SwarmInv' /\ SwarmTypeOK'
  BY MissionSwarm DEF MissionInv, SwarmInv
<1>2. MissionTypeOK'
  BY <1>1, MissionTypes
<1>3. /\ flight \in [Slots -> Flight] /\ slot \in [Slots -> Activity]
      /\ job \in [Jobs -> Row \cup {NoRow}]
      /\ observation \in [Jobs -> {"none", "proposed", "blocked", "approved", "rejected"}]
  BY DEF MissionInv, MissionTypeOK, SwarmTypeOK
<1>4. ASSUME NEW s \in Slots,
             Deny(s) \/ ReviewWrite(s) \/ UpdateWrite(s) \/ Observe(s)
      PROVE  MissionInv'
  <2>1. /\ UNCHANGED swarmVars /\ flight'[s] = Landed
        /\ \A q \in Slots \ {s} : flight'[q] = flight[q]
    BY <1>3, <1>4 DEF Deny, ReviewWrite, UpdateWrite, Observe, Land
  <2>2. FlightKept(s)'
    BY <2>1 DEF FlightKept, Flies, Landed
  <2>3. \A j \in Jobs : observation[j] # "none" => observation'[j] # "none"
    BY <1>3, <1>4 DEF Deny, ReviewWrite, UpdateWrite, Observe
  <2>4. \A j \in Jobs : observation'[j] # "none" => observation[j] # "none" \/ JobOver(j)
    <3>1. CASE Deny(s) \/ UpdateWrite(s)
      BY <3>1 DEF Deny, UpdateWrite
    <3>2. CASE ReviewWrite(s) \/ Observe(s)
      <4>1. flight[s].job \in Jobs
              => observation[flight[s].job] # "none" \/ JobOver(flight[s].job)
        BY <3>2 DEF ReviewWrite, Observe, MissionInv, FlightKept
      <4>2. \A j \in Jobs \ {flight[s].job} : observation'[j] = observation[j]
        BY <1>3, <3>2 DEF ReviewWrite, Observe
      <4> QED
        BY <4>1, <4>2
    <3> QED
      BY <1>4, <3>1, <3>2
  <2> QED
    BY <1>1, <1>2, <2>1, <2>2, <2>3, <2>4, FlightStep
<1>5. ASSUME NEW s \in Slots, Pick(s) \/ ReviewRead(s) \/ UpdateRead(s)
      PROVE  MissionInv'
  <2>1. UNCHANGED swarmVars /\ UNCHANGED observation /\ slot'[s] = Idle
    BY <1>5 DEF Pick, ReviewRead, UpdateRead, Free, swarmVars
  <2>2. /\ \A q \in Slots \ {s} : flight'[q] = flight[q]
        /\ flight'[s].pc \in {"admitting", "updating", "reviewing"}
        /\ flight'[s].pc = "reviewing" =>
             flight'[s].job \in Jobs /\ observation[flight'[s].job] # "none"
    <3>1. CASE Pick(s)
      <4>1. PICK m \in Objectives : Board(s, "admitting", m, NoJob)
        BY <3>1 DEF Pick
      <4> QED
        BY <1>3, <4>1 DEF Board, Landed
    <3>2. CASE ReviewRead(s)
      <4>1. PICK j \in Jobs, m \in Objectives :
              observation[j] = "proposed" /\ Board(s, "reviewing", m, j)
        BY <3>2 DEF ReviewRead
      <4> QED
        BY <1>3, <4>1 DEF Board, Landed
    <3>3. CASE UpdateRead(s)
      BY <1>3, <3>3 DEF UpdateRead
    <3> QED
      BY <1>5, <3>1, <3>2, <3>3
  <2>3. FlightKept(s)'
    BY <2>1, <2>2 DEF FlightKept, Flies
  <2> QED
    BY <1>1, <1>2, <2>1, <2>2, <2>3, FlightStep
<1>6. ASSUME NEW s \in Slots, Record(s) \/ Report(s) PROVE MissionInv'
  <2>1. /\ UNCHANGED swarmVars /\ UNCHANGED observation /\ slot' = slot /\ job' = job
        /\ FlightKept(s)
    BY <1>6 DEF Record, Report, swarmVars, MissionInv
  <2>2. /\ \A q \in Slots \ {s} : flight'[q] = flight[q]
        /\ flight'[s].job = flight[s].job
        /\ flight'[s].pc = IF Record(s) THEN "running" ELSE "observing"
    BY <1>3, <1>6 DEF Record, Report, Leg, Flight, Flies
  <2>3. Record(s) => FlightKept(s)'
    BY <2>1, <2>2 DEF Record, FlightKept, Flies, Drives, At, RunStages
  <2>4. \A j : JobOver(j) => JobOver(j)'
    BY <2>1 DEF JobOver
  <2>5. Report(s) /\ ~Record(s) => FlightKept(s)'
    BY <2>1, <2>2, <2>4, IdleType DEF Report, FlightKept, Flies, Drives, RunStages
  <2> QED
    BY <1>1, <1>2, <1>6, <2>1, <2>2, <2>3, <2>5, FlightStep
<1>7. ASSUME NEW s \in Slots, Admit(s) PROVE MissionInv'
  <2>1. PICK j \in Jobs :
          /\ Create(s, j, FALSE, "background")
          /\ flight' = [flight EXCEPT ![s].pc = "creating", ![s].job = j]
    BY <1>7 DEF Admit
  <2>2. Launch(s)
    BY <2>1 DEF Launch, Modes
  <2>3. /\ UNCHANGED observation
        /\ \A q \in Slots \ {s} : flight'[q] = flight[q] /\ slot'[q] = slot[q]
    BY <1>3, <1>7, <2>1 DEF Admit, Create
  <2>4. flight'[s].pc = "creating" /\ flight'[s].job = j
    BY <1>3, <2>1 DEF Flight
  <2>5. /\ slot'[s].of = j /\ slot'[s].mode = "background" /\ slot'[s].pc = "creating"
        /\ ~job'[j].gated
    BY <1>3, <2>1 DEF Create, Idle
  <2>6. FlightKept(s)'
    BY <2>4, <2>5 DEF FlightKept, Flies
  <2>7. \A i \in Jobs : JobOver(i) => JobOver(i)'
    BY <1>1, <2>2, OverKept
  <2>8. \A i \in Stored : job'[i].gated = job[i].gated
    BY <1>1, <2>2, GatedKept
  <2>9. StartedKept'
    BY <1>1, <2>2, StartedNext DEF MissionInv
  <2> QED
    BY <1>1, <1>2, <2>3, <2>6, <2>7, <2>8, <2>9, SlotStep
<1>8. ASSUME NEW s \in Slots, SwarmWork(s) PROVE MissionInv'
  <2>1. \/ AddTasks(s) \/ Gate(s) \/ ReadJob(s) \/ Run(s) \/ Launch(s) \/ Intervene(s)
    BY <1>8 DEF SwarmWork
  <2>2. UNCHANGED observation /\ flight' = flight
    BY <1>8 DEF SwarmWork, missionVars
  <2>3. \A q \in Slots \ {s} : slot'[q] = slot[q]
    BY <1>1, <2>1, WorkEffect, RequestEffect
  <2>4. \A i \in Jobs : JobOver(i) => JobOver(i)'
    BY <1>1, <2>1, OverKept
  <2>5. \A i \in Stored : job'[i].gated = job[i].gated
    BY <1>1, <2>1, GatedKept
  <2>6. StartedKept'
    BY <1>1, <2>1, StartedNext DEF MissionInv
  <2>7. FlightKept(s)'
    <3>1. FlightKept(s)
      BY DEF MissionInv
    <3>2. CASE flight[s] = Landed
      BY <2>2, <3>2 DEF FlightKept, Flies, Landed
    <3>3. CASE flight[s] # Landed
      <4>1. AddTasks(s) \/ Gate(s) \/ Run(s) \/ (ReadJob(s) /\ ~Flies(s, "creating"))
        BY <1>8, <3>3 DEF SwarmWork
      <4>2. slot[s].pc # "idle"
        BY <1>1, <4>1, WorkEffect
      <4>3. flight[s].pc \notin {"admitting", "observing", "reviewing", "updating"}
        BY <3>1, <4>2, IdleType DEF FlightKept
      <4>4. CASE Flies(s, "creating")
        <5>1. AddTasks(s)
          BY <3>1, <4>1, <4>4 DEF FlightKept, Gate, Run, Start, ListTasks, Settle, AllDone,
                                  Fail, Judge, BeginTask, EndTask, At
        <5>2. slot' = [slot EXCEPT ![s].pc = "queued"] /\ job' = job
          BY <3>1, <4>4, <5>1 DEF FlightKept, AddTasks, Go
        <5> QED
          BY <1>3, <2>2, <3>1, <4>4, <5>2 DEF FlightKept, Flies, Activity
      <4>5. CASE Flies(s, "running")
        <5>1. flight[s].job \in Jobs /\ Drives(s, flight[s].job)
          BY <3>1, <4>2, <4>5, IdleType DEF FlightKept
        <5>2. ReadJob(s) \/ Run(s)
          BY <4>1, <5>1 DEF Drives, RunStages, AddTasks, Gate, At
        <5>3. Drives(s, flight[s].job)' \/ (slot'[s] = Idle /\ JobOver(flight[s].job)')
          <6>1. PICK j \in Jobs : j = flight[s].job
            BY <5>1
          <6>2. Drives(s, j) /\ StartedKept
            BY <5>1, <6>1 DEF MissionInv
          <6>3. Drives(s, j)' \/ (slot'[s] = Idle /\ JobOver(j)')
            BY <1>1, <5>2, <6>2, DriveStep
          <6>4. flight'[s].job = j
            BY <2>2, <6>1
          <6> QED
            BY <6>3, <6>4 DEF Drives, JobOver
        <5> QED
          BY <2>2, <4>5, <5>1, <5>3 DEF FlightKept, Flies
      <4> QED
        BY <2>2, <4>3, <4>4, <4>5 DEF FlightKept, Flies
    <3> QED
      BY <3>2, <3>3
  <2> QED
    BY <1>1, <1>2, <2>2, <2>3, <2>4, <2>5, <2>6, <2>7, SlotStep
<1>9. ASSUME NEW s \in Slots, Die(s) PROVE MissionInv'
  <2>1. /\ slot' = [slot EXCEPT ![s] = Idle] /\ UNCHANGED job /\ UNCHANGED observation
        /\ flight'[s] = Landed
        /\ \A q \in Slots \ {s} : flight'[q] = flight[q] /\ slot'[q] = slot[q]
    BY <1>3, <1>9 DEF Die, Land
  <2>2. \A i \in Jobs : JobOver(i) => JobOver(i)'
    BY <1>1, <2>1, OverKept
  <2>3. StartedKept'
    BY <1>1, <2>1, StartedNext DEF MissionInv
  <2>4. FlightKept(s)'
    BY <2>1 DEF FlightKept, Flies, Landed
  <2> QED
    BY <1>1, <1>2, <2>1, <2>2, <2>3, <2>4, SlotStep
<1>10. CASE TimePasses \/ UNCHANGED allVars
  <2>1. UNCHANGED <<job, slot, flight, observation>>
    BY <1>10 DEF TimePasses, allVars, swarmVars
  <2>2. \A j \in Jobs : JobOver(j)' <=> JobOver(j)
    BY <2>1 DEF JobOver
  <2>3. StartedKept' /\ \A s \in Slots : FlightKept(s)'
    BY <2>1, <2>2 DEF MissionInv, StartedKept, FlightKept, Flies, Drives
  <2> QED
    BY <1>1, <1>2, <2>1, <2>2, <2>3 DEF MissionInv
<1> QED
  BY <1>4, <1>5, <1>6, <1>7, <1>8, <1>9, <1>10 DEF MissionNext, Missioning

LEMMA MissionAlways == MissionSpec => []MissionInv
<1> QED
  BY MissionInitially, MissionStep, PTL DEF MissionSpec

(* The missions keep the types of their tables, and of Swarm's. *)
THEOREM MissionTypeCorrect == MissionSpec => []MissionTypeOK
<1>1. MissionInv => MissionTypeOK
  BY DEF MissionInv
<1> QED
  BY <1>1, MissionAlways, PTL

(* ObservedAtRest: what run_mission_job() reports is about a job that rests,  *)
(* and no approval, cancel or stale request starts that job again, for any    *)
(* number of missions, schedulers and requests.                               *)
THEOREM ObservationsAtRest == MissionSpec => []ObservedAtRest
<1>1. MissionInv => ObservedAtRest
  BY DEF MissionInv, JobOver, ObservedAtRest
<1> QED
  BY <1>1, MissionAlways, PTL

(* The composition keeps what Swarm promises: missions run their jobs as any  *)
(* other session does, with its approvals, verdicts and cancels.              *)
THEOREM MissionsKeepSwarm ==
  MissionSpec => [](RunsOnlyApproved /\ VerdictOnAll /\ CancelSticks)
<1>1. MissionInv => RunsOnlyApproved /\ VerdictOnAll /\ CancelSticks
  BY DEF MissionInv, SwarmInv, DroppedKept, CancelSticks
<1> QED
  BY <1>1, MissionAlways, PTL
=============================================================================
