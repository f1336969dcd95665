--------------------------- MODULE CoworkJobProofs ---------------------------
(* Proofs about CoworkJob, for every set of workers, every project, and every *)
(* bound: type correctness, that one runner at most drives the job, that a    *)
(* terminal job is only ever put back in the queue, that the stored outcome   *)
(* is the one the stored report supports, that what clients see of the job is *)
(* the lifecycle of CoworkLifecycle, that an outcome is stored at completion  *)
(* only, and that a job waiting for the operator is never carried on.         *)
EXTENDS CoworkJob, TLAPS

-----------------------------------------------------------------------------
(* The operators on rows and slots. *)

LEMMA MovedType ==
  ASSUME NEW row \in Rows, NEW s \in AllStates
  PROVE  Moved(row, s) \in Rows
BY DEF Moved, Rows

LEMMA FlushType ==
  ASSUME job \in Rows, NEW old, NEW new \in Rows
  PROVE  Flush(old, new) \in Rows
BY DEF Flush, Column, Rows

LEMMA NewRowType ==
  ASSUME NEW project \in BOOLEAN
  PROVE  NewRow(project) \in Rows
BY DEF NewRow, NoResult, Rows, Results, AllStates, ActiveStates

LEMMA FinishedType ==
  ASSUME NEW row \in Rows, NEW seen \in SUBSET Statuses
  PROVE  Finished(row, seen) \in Rows
<1>1. Moved(row, "completed") \in Rows
  BY MovedType DEF AllStates, TerminalStates
<1>2. CompletionOutcome("passed" \in seen, "failed" \in seen) \in FinalOutcomes
  BY DEF CompletionOutcome, FinalOutcomes
<1>3. [kind |-> "done", seen |-> seen] \in Results
  BY DEF Results
<1> QED
  BY <1>1, <1>2, <1>3 DEF Finished, Rows

LEMMA SlotType ==
  ASSUME NEW pc \in DrivingPcs \cup {"idle", "spawned"}
  PROVE  Slot(pc) \in Slots
BY DEF Slot, Slots, Turns

(* What a runner holds while it drives. *)
Holds ==
  \A w \in Workers :
    /\ Driving(w) => run[w].row \in Rows
    /\ run[w].pc \in {"executing", "debugging"} => run[w].plans # <<>>

Typed == TypeOK /\ Holds

LEMMA SlotRow ==
  ASSUME NEW slot \in Slots, NEW row \in Rows
  PROVE  [slot EXCEPT !.row = row] \in Slots
BY DEF Slots

(* A commit writes a row and leaves the other slots alone. *)
LEMMA CommitTyped ==
  ASSUME Typed, NEW w \in Workers, NEW new \in Rows, NEW slot \in Slots,
         Commit(w, new, slot),
         slot.pc \in {"executing", "debugging"} => slot.plans # <<>>
  PROVE  /\ job' \in Rows
         /\ run' \in [Workers -> Slots]
         /\ Holds'
<1>1. job' \in Rows
  BY FlushType DEF Commit, Typed, TypeOK
<1>2. [slot EXCEPT !.row = new] \in Slots
  BY SlotRow
<1>3. run' = [run EXCEPT ![w] = [slot EXCEPT !.row = new]]
  BY DEF Commit
<1>4. run' \in [Workers -> Slots]
  BY <1>2, <1>3 DEF Typed, TypeOK
<1>5. Holds'
  <2> SUFFICES ASSUME NEW v \in Workers
               PROVE  /\ Driving(v)' => run'[v].row \in Rows
                      /\ run'[v].pc \in {"executing", "debugging"} => run'[v].plans # <<>>
    BY DEF Holds
  <2>1. CASE v = w
    <3>1. run'[v] = [slot EXCEPT !.row = new]
      BY <2>1, <1>3 DEF Typed, TypeOK
    <3>2. run'[v].row = new /\ run'[v].pc = slot.pc /\ run'[v].plans = slot.plans
      BY <3>1 DEF Slots
    <3> QED
      BY <3>2
  <2>2. CASE v # w
    <3>1. run'[v] = run[v]
      BY <2>2, <1>3 DEF Typed, TypeOK
    <3> QED
      BY <3>1 DEF Typed, Holds, Driving
  <2> QED
    BY <2>1, <2>2
<1> QED
  BY <1>1, <1>4, <1>5

(* So does a slot that is only replaced, with its row. *)
LEMMA ReplaceTyped ==
  ASSUME Typed, NEW w \in Workers, NEW slot \in Slots,
         run' = [run EXCEPT ![w] = slot],
         slot.pc \in DrivingPcs => slot.row \in Rows,
         slot.pc \in {"executing", "debugging"} => slot.plans # <<>>
  PROVE  run' \in [Workers -> Slots] /\ Holds'
<1>1. run' \in [Workers -> Slots]
  BY DEF Typed, TypeOK
<1>2. \A v \in Workers : v # w => run'[v] = run[v]
  BY DEF Typed, TypeOK
<1>3. run'[w] = slot
  BY DEF Typed, TypeOK
<1>4. \A v \in Workers : Driving(v)' => run'[v].row \in Rows
  BY <1>2, <1>3 DEF Typed, Holds, Driving
<1>5. \A v \in Workers :
        run'[v].pc \in {"executing", "debugging"} => run'[v].plans # <<>>
  BY <1>2, <1>3 DEF Typed, Holds
<1> QED
  BY <1>1, <1>4, <1>5 DEF Holds

LEMMA ReturnTyped ==
  ASSUME Typed, NEW w \in Workers, NEW new \in Rows, Return(w, new)
  PROVE  /\ job' \in Rows
         /\ run' \in [Workers -> Slots]
         /\ Holds'
<1>1. job' \in Rows
  BY FlushType DEF Return, Typed, TypeOK
<1>2. Slot("idle") \in Slots /\ Slot("idle").pc = "idle"
  BY SlotType DEF Slot
<1>3. run' = [run EXCEPT ![w] = Slot("idle")]
  BY DEF Return
<1>4. run' \in [Workers -> Slots] /\ Holds'
  BY <1>2, <1>3, ReplaceTyped DEF DrivingPcs
<1> QED
  BY <1>1, <1>4

-----------------------------------------------------------------------------
(* Type correctness. *)

LEMMA RowOf ==
  ASSUME Typed, NEW w \in Workers, Driving(w)
  PROVE  run[w].row \in Rows /\ run[w] \in Slots
BY DEF Typed, Holds, TypeOK

(* The steps of a runner on its way to the Brain's answer. *)
LEMMA TypedAsk ==
  ASSUME Typed, NEW w \in Workers,
         Plan(w) \/ Inspect(w) \/ Ask(w) \/ BrainAnswers(w)
  PROVE  Typed'
<1> USE DEF DrivingPcs
<1>0. {"planning", "inspecting_workspace", "waiting_for_brain"} \subseteq AllStates
  BY DEF AllStates, ActiveStates
<1>1. CASE Plan(w)
  <2> DEFINE new == [Moved(run[w].row, "planning") EXCEPT !.planned = TRUE]
  <2>1. run[w].row \in Rows /\ run[w] \in Slots
    BY <1>1, RowOf DEF Plan, Steps, Driving
  <2>2. new \in Rows
    <3>1. Moved(run[w].row, "planning") \in Rows
      BY <2>1, <1>0, MovedType
    <3> QED
      BY <3>1 DEF Rows
  <2>3. [run[w] EXCEPT !.pc = "planned"] \in Slots
    BY <2>1 DEF Slots
  <2>4. job' \in Rows /\ run' \in [Workers -> Slots] /\ Holds'
    <3>1. CASE Return(w, new)
      BY <3>1, <2>2, ReturnTyped
    <3>2. CASE Commit(w, new, [run[w] EXCEPT !.pc = "planned"])
      <4>1. [run[w] EXCEPT !.pc = "planned"].pc = "planned"
        BY <2>1 DEF Slots
      <4> QED
        BY <3>2, <2>2, <2>3, <4>1, CommitTyped
    <3> QED
      BY <3>1, <3>2, <1>1 DEF Plan
  <2> QED
    BY <2>4, <1>1 DEF Plan, Typed, TypeOK
<1>2. CASE Inspect(w)
  <2>1. run[w].row \in Rows /\ run[w] \in Slots
    BY <1>2, RowOf DEF Inspect, Steps, Driving
  <2>2. Moved(run[w].row, "inspecting_workspace") \in Rows
    BY <2>1, <1>0, MovedType
  <2>3. /\ [run[w] EXCEPT !.pc = "inspected"] \in Slots
        /\ [run[w] EXCEPT !.pc = "inspected"].pc = "inspected"
    BY <2>1 DEF Slots
  <2>4. job' \in Rows /\ run' \in [Workers -> Slots] /\ Holds'
    BY <1>2, <2>2, <2>3, CommitTyped DEF Inspect
  <2> QED
    BY <2>4, <1>2 DEF Inspect, Typed, TypeOK
<1>3. CASE Ask(w)
  <2>1. run[w].row \in Rows /\ run[w] \in Slots
    BY <1>3, RowOf DEF Ask, Steps, Driving
  <2>2. Moved(run[w].row, "waiting_for_brain") \in Rows
    BY <2>1, <1>0, MovedType
  <2>3. /\ [run[w] EXCEPT !.pc = "asking"] \in Slots
        /\ [run[w] EXCEPT !.pc = "asking"].pc = "asking"
    BY <2>1 DEF Slots
  <2>4. job' \in Rows /\ run' \in [Workers -> Slots] /\ Holds'
    BY <1>3, <2>2, <2>3, CommitTyped DEF Ask
  <2> QED
    BY <2>4, <1>3 DEF Ask, Typed, TypeOK
<1>4. CASE BrainAnswers(w)
  <2>1. run[w].row \in Rows /\ run[w] \in Slots
    BY <1>4, RowOf DEF BrainAnswers, Steps, Driving
  <2>2. PICK turn \in Turns :
          run' = [run EXCEPT ![w].pc = "answered", ![w].turn = turn]
    BY <1>4 DEF BrainAnswers
  <2> DEFINE slot == [run[w] EXCEPT !.pc = "answered", !.turn = turn]
  <2>3. run' = [run EXCEPT ![w] = slot]
    BY <2>2 DEF Typed, TypeOK
  <2>4. slot \in Slots /\ slot.row = run[w].row /\ slot.pc = "answered"
    BY <2>1 DEF Slots
  <2>5. run' \in [Workers -> Slots] /\ Holds'
    <3> HIDE DEF slot
    <3> QED
      BY <2>1, <2>3, <2>4, ReplaceTyped
  <2> QED
    BY <2>5, <1>4 DEF BrainAnswers, Typed, TypeOK
<1> QED
  BY <1>1, <1>2, <1>3, <1>4

LEMMA RunningType ==
  ASSUME NEW kind
  PROVE  Running(kind) \in AllStates
BY DEF Running, AllStates, ActiveStates

(* The end of the turn and the beginning of the checks. *)
LEMMA TypedTurn ==
  ASSUME Typed, JobAssumption, NEW w \in Workers,
         AwaitApproval(w) \/ FinishUnchecked(w) \/ StartChecks(w)
  PROVE  Typed'
<1> USE DEF DrivingPcs
<1>0. {"awaiting_approval", "writing_files", "verifying"} \subseteq AllStates
  BY DEF AllStates, ActiveStates, SuspendedStates
<1>r. run[w].row \in Rows /\ run[w] \in Slots
  BY RowOf DEF AwaitApproval, FinishUnchecked, StartChecks, Steps, Driving
<1>1. CASE AwaitApproval(w)
  <2>1. Moved(run[w].row, "awaiting_approval") \in Rows
    BY <1>0, <1>r, MovedType
  <2>2. [Moved(run[w].row, "awaiting_approval") EXCEPT
           !.result = [kind |-> "awaiting", seen |-> {}]] \in Rows
    BY <2>1 DEF Rows, Results
  <2>3. job' \in Rows /\ run' \in [Workers -> Slots] /\ Holds'
    BY <1>1, <2>2, ReturnTyped DEF AwaitApproval
  <2> QED
    BY <2>3, <1>1 DEF AwaitApproval, Typed, TypeOK
<1>2. CASE FinishUnchecked(w)
  <2>1. Finished(run[w].row, {}) \in Rows
    BY <1>r, FinishedType
  <2>2. job' \in Rows /\ run' \in [Workers -> Slots] /\ Holds'
    BY <1>2, <2>1, ReturnTyped DEF FinishUnchecked
  <2> QED
    BY <2>2, <1>2 DEF FinishUnchecked, Typed, TypeOK
<1>3. CASE StartChecks(w)
  <2>1. PICK plans \in PlanLists :
          \/ /\ run' = [run EXCEPT ![w].pc = "checking", ![w].plans = plans,
                                  ![w].row.state = "writing_files"]
             /\ UNCHANGED job
          \/ Commit(w, Moved(run[w].row, "verifying"),
                    [run[w] EXCEPT !.pc = "verified"])
    BY <1>3 DEF StartChecks
  <2>2. plans \in Seq(CommandKinds)
    BY DEF JobAssumption
  <2>3. CASE /\ run' = [run EXCEPT ![w].pc = "checking", ![w].plans = plans,
                                   ![w].row.state = "writing_files"]
             /\ UNCHANGED job
    <3> DEFINE row  == [run[w].row EXCEPT !.state = "writing_files"]
               slot == [run[w] EXCEPT !.pc = "checking", !.plans = plans, !.row = row]
    <3>1. row \in Rows
      BY <1>0, <1>r DEF Rows
    <3>2. run' = [run EXCEPT ![w] = slot]
      BY <2>3, <1>r DEF Typed, TypeOK, Slots
    <3>3. slot \in Slots /\ slot.row = row /\ slot.pc = "checking"
      <4> HIDE DEF row
      <4> QED
        BY <1>r, <2>2, <3>1 DEF Slots
    <3>4. run' \in [Workers -> Slots] /\ Holds'
      <4> HIDE DEF row, slot
      <4> QED
        BY <3>1, <3>2, <3>3, ReplaceTyped
    <3> QED
      BY <3>4, <2>3, <1>3 DEF StartChecks, Typed, TypeOK
  <2>4. CASE Commit(w, Moved(run[w].row, "verifying"),
                    [run[w] EXCEPT !.pc = "verified"])
    <3>1. Moved(run[w].row, "verifying") \in Rows
      BY <1>0, <1>r, MovedType
    <3>2. /\ [run[w] EXCEPT !.pc = "verified"] \in Slots
          /\ [run[w] EXCEPT !.pc = "verified"].pc = "verified"
      BY <1>r DEF Slots
    <3>3. job' \in Rows /\ run' \in [Workers -> Slots] /\ Holds'
      BY <2>4, <3>1, <3>2, CommitTyped
    <3> QED
      BY <3>3, <1>3 DEF StartChecks, Typed, TypeOK
  <2> QED
    BY <2>1, <2>3, <2>4
<1> QED
  BY <1>1, <1>2, <1>3

(* A slot after one command: the next plan, one more status seen. *)
LEMMA NextPlan ==
  ASSUME NEW slot \in Slots, slot.plans # <<>>, NEW status \in Statuses
  PROVE  /\ [slot EXCEPT !.pc = "checking", !.plans = Tail(@),
                         !.seen = @ \cup {status}] \in Slots
         /\ [slot EXCEPT !.plans = Tail(@), !.seen = @ \cup {status}] \in Slots
<1>1. Tail(slot.plans) \in Seq(CommandKinds)
  <2>1. slot.plans \in Seq(CommandKinds)
    BY DEF Slots
  <2> QED
    BY <2>1
<1>2. slot.seen \cup {status} \in SUBSET Statuses
  BY DEF Slots
<1> DEFINE plans == Tail(slot.plans)
           seen  == slot.seen \cup {status}
<1>3. /\ [slot EXCEPT !.pc = "checking", !.plans = plans, !.seen = seen] \in Slots
      /\ [slot EXCEPT !.plans = plans, !.seen = seen] \in Slots
  <2> HIDE DEF plans, seen
  <2>1. plans \in Seq(CommandKinds) /\ seen \in SUBSET Statuses
    BY <1>1, <1>2 DEF plans, seen
  <2>2. "checking" \in DrivingPcs
    BY DEF DrivingPcs
  <2> QED
    BY <2>1, <2>2 DEF Slots
<1> QED
  BY <1>3

(* The command loop. *)
LEMMA TypedCheck ==
  ASSUME Typed, NEW w \in Workers,
         RunCheck(w) \/ CommandEnds(w) \/ Rerun(w) \/ Summarize(w) \/ Complete(w)
  PROVE  Typed'
<1> USE DEF DrivingPcs
<1>0. {"debugging", "verifying"} \subseteq AllStates
  BY DEF AllStates, ActiveStates
<1>r. run[w].row \in Rows /\ run[w] \in Slots
  BY RowOf DEF RunCheck, CommandEnds, Rerun, Summarize, Complete, Steps, Driving
<1>1. CASE RunCheck(w)
  <2> DEFINE new    == Moved(run[w].row, Running(Head(run[w].plans)))
             denied == [run[w] EXCEPT !.plans = Tail(@), !.seen = @ \cup {"denied"}]
             begun  == [run[w] EXCEPT !.pc = "executing", !.tries = 1]
  <2>1. run[w].plans # <<>> /\ run[w].pc = "checking"
    BY <1>1 DEF RunCheck, Steps
  <2>2. new \in Rows
    BY <1>r, RunningType, MovedType
  <2>3. denied \in Slots /\ denied.pc = "checking"
    <3>1. denied \in Slots
      BY <1>r, <2>1, NextPlan DEF Statuses
    <3>2. denied.pc = run[w].pc
      BY <1>r DEF Slots
    <3> QED
      BY <3>1, <3>2, <2>1
  <2>4. begun \in Slots /\ begun.plans # <<>>
    BY <1>r, <2>1 DEF Slots
  <2>5. \/ Commit(w, new, denied) /\ UNCHANGED exec
        \/ Commit(w, new, begun) /\ exec' = [exec EXCEPT ![w] = "running"]
    BY <1>1 DEF RunCheck
  <2>6. job' \in Rows /\ run' \in [Workers -> Slots] /\ Holds'
    <3> HIDE DEF new, denied, begun
    <3> QED
      BY <2>2, <2>3, <2>4, <2>5, CommitTyped
  <2>7. exec' \in [Workers -> {"none", "running", "cancelled"}]
    BY <2>5 DEF Typed, TypeOK
  <2> QED
    BY <2>6, <2>7, <1>1 DEF RunCheck, Typed, TypeOK
<1>2. CASE CommandEnds(w)
  <2>1. run[w].plans # <<>>
    BY <1>2 DEF CommandEnds, Steps, Typed, Holds
  <2>2. PICK status \in Statuses \ {"denied"} :
          \/ Commit(w, Moved(run[w].row, "debugging"),
                    [run[w] EXCEPT !.pc = "debugging"])
          \/ /\ run' = [run EXCEPT ![w].pc = "checking", ![w].plans = Tail(@),
                                  ![w].seen = @ \cup {status}]
             /\ UNCHANGED job
    BY <1>2 DEF CommandEnds
  <2>3. job' \in Rows /\ run' \in [Workers -> Slots] /\ Holds'
    <3>1. CASE Commit(w, Moved(run[w].row, "debugging"),
                      [run[w] EXCEPT !.pc = "debugging"])
      <4>1. Moved(run[w].row, "debugging") \in Rows
        BY <1>0, <1>r, MovedType
      <4>2. /\ [run[w] EXCEPT !.pc = "debugging"] \in Slots
            /\ [run[w] EXCEPT !.pc = "debugging"].plans # <<>>
        BY <1>r, <2>1 DEF Slots
      <4> QED
        BY <3>1, <4>1, <4>2, CommitTyped
    <3>2. CASE /\ run' = [run EXCEPT ![w].pc = "checking", ![w].plans = Tail(@),
                                    ![w].seen = @ \cup {status}]
               /\ UNCHANGED job
      <4> DEFINE slot == [run[w] EXCEPT !.pc = "checking", !.plans = Tail(@),
                                        !.seen = @ \cup {status}]
      <4>1. run' = [run EXCEPT ![w] = slot]
        BY <3>2, <1>r DEF Typed, TypeOK, Slots
      <4>2. slot \in Slots /\ slot.row = run[w].row /\ slot.pc = "checking"
        <5>1. slot \in Slots
          BY <1>r, <2>1, NextPlan
        <5>2. slot.row = run[w].row /\ slot.pc = "checking"
          BY <1>r DEF Slots
        <5> QED
          BY <5>1, <5>2
      <4>3. run' \in [Workers -> Slots] /\ Holds'
        <5> HIDE DEF slot
        <5> QED
          BY <1>r, <4>1, <4>2, ReplaceTyped
      <4> QED
        BY <3>2, <4>3 DEF Typed, TypeOK
    <3> QED
      BY <2>2, <3>1, <3>2
  <2>4. exec' \in [Workers -> {"none", "running", "cancelled"}]
    BY <1>2 DEF CommandEnds, Typed, TypeOK
  <2> QED
    BY <2>3, <2>4, <1>2 DEF CommandEnds, Typed, TypeOK
<1>3. CASE Rerun(w)
  <2> DEFINE new   == Moved(run[w].row, Running(Head(run[w].plans)))
             begun == [run[w] EXCEPT !.pc = "executing", !.tries = @ + 1]
  <2>1. run[w].plans # <<>>
    BY <1>3 DEF Rerun, Steps, Typed, Holds
  <2>2. new \in Rows
    BY <1>r, RunningType, MovedType
  <2>3. begun \in Slots /\ begun.plans # <<>>
    <3> DEFINE tries == run[w].tries + 1
    <3>1. tries \in Nat
      BY <1>r DEF Slots
    <3>2. [run[w] EXCEPT !.pc = "executing", !.tries = tries] \in Slots
      <4> HIDE DEF tries
      <4> QED
        BY <1>r, <3>1 DEF Slots
    <3>3. begun.plans = run[w].plans
      BY <1>r DEF Slots
    <3> QED
      BY <2>1, <3>2, <3>3
  <2>4. job' \in Rows /\ run' \in [Workers -> Slots] /\ Holds'
    <3>1. Commit(w, new, begun)
      BY <1>3 DEF Rerun
    <3> HIDE DEF new, begun
    <3> QED
      BY <3>1, <2>2, <2>3, CommitTyped
  <2>5. exec' \in [Workers -> {"none", "running", "cancelled"}]
    BY <1>3 DEF Rerun, Typed, TypeOK
  <2> QED
    BY <2>4, <2>5, <1>3 DEF Rerun, Typed, TypeOK
<1>4. CASE Summarize(w)
  <2>1. Moved(run[w].row, "verifying") \in Rows
    BY <1>0, <1>r, MovedType
  <2>2. /\ [run[w] EXCEPT !.pc = "verified"] \in Slots
        /\ [run[w] EXCEPT !.pc = "verified"].pc = "verified"
    BY <1>r DEF Slots
  <2>3. job' \in Rows /\ run' \in [Workers -> Slots] /\ Holds'
    BY <1>4, <2>1, <2>2, CommitTyped DEF Summarize
  <2> QED
    BY <2>3, <1>4 DEF Summarize, Typed, TypeOK
<1>5. CASE Complete(w)
  <2>1. run[w].seen \in SUBSET Statuses
    BY <1>r DEF Slots
  <2>2. Finished(run[w].row, run[w].seen) \in Rows
    BY <1>r, <2>1, FinishedType
  <2>3. job' \in Rows /\ run' \in [Workers -> Slots] /\ Holds'
    BY <1>5, <2>2, ReturnTyped DEF Complete
  <2> QED
    BY <2>3, <1>5 DEF Complete, Typed, TypeOK
<1> QED
  BY <1>1, <1>2, <1>3, <1>4, <1>5

LEMMA SpawnTyped ==
  ASSUME Typed, NEW w \in Workers, Spawn(w)
  PROVE  run' \in [Workers -> Slots] /\ Holds'
<1>1. CASE run' = [run EXCEPT ![w] = Slot("spawned")]
  <2>1. Slot("spawned") \in Slots /\ Slot("spawned").pc = "spawned"
    BY SlotType DEF Slot
  <2> QED
    BY <1>1, <2>1, ReplaceTyped DEF DrivingPcs
<1>2. CASE run' = run
  BY <1>2 DEF Typed, TypeOK, Holds, Driving
<1> QED
  BY <1>1, <1>2 DEF Spawn

LEMMA IdleTyped ==
  ASSUME Typed, NEW w \in Workers, run' = [run EXCEPT ![w] = Slot("idle")]
  PROVE  run' \in [Workers -> Slots] /\ Holds'
<1>1. Slot("idle") \in Slots /\ Slot("idle").pc = "idle"
  BY SlotType DEF Slot
<1> QED
  BY <1>1, ReplaceTyped DEF DrivingPcs

(* Taking the lease, and giving up after an exception. *)
LEMMA TypedClaim ==
  ASSUME Typed, NEW w \in Workers, Claim(w) \/ Raise(w)
  PROVE  Typed'
<1>1. CASE Claim(w)
  <2>1. CASE /\ job' = [job EXCEPT !.lease = "held", !.attempt = @ + 1]
             /\ run' = [run EXCEPT ![w].pc = "claimed", ![w].row = job']
    <3> DEFINE slot == [run[w] EXCEPT !.pc = "claimed", !.row = job']
    <3>1. job.attempt + 1 \in Nat
      BY DEF Typed, TypeOK, Rows
    <3>2. job' \in Rows
      BY <2>1, <3>1 DEF Typed, TypeOK, Rows
    <3>3. run' = [run EXCEPT ![w] = slot]
      BY <2>1 DEF Typed, TypeOK
    <3>4. slot \in Slots /\ slot.row = job' /\ slot.pc = "claimed"
      BY <3>2 DEF Typed, TypeOK, Slots, DrivingPcs
    <3>5. run' \in [Workers -> Slots] /\ Holds'
      <4> HIDE DEF slot
      <4> QED
        BY <3>2, <3>3, <3>4, ReplaceTyped
    <3> QED
      BY <3>2, <3>5, <1>1 DEF Claim, Typed, TypeOK
  <2>2. CASE /\ run' = [run EXCEPT ![w] = Slot("idle")]
             /\ UNCHANGED job
    BY <2>2, <1>1, IdleTyped DEF Claim, Typed, TypeOK
  <2> QED
    BY <1>1, <2>1, <2>2 DEF Claim
<1>2. CASE Raise(w)
  <2>1. Moved(job, "failed") \in Rows
    BY MovedType DEF Typed, TypeOK, AllStates, TerminalStates
  <2>2. job' \in Rows
    BY <1>2, <2>1 DEF Raise, Typed, TypeOK
  <2> QED
    BY <2>2, <1>2, IdleTyped DEF Raise, Typed, TypeOK
<1> QED
  BY <1>1, <1>2

LEMMA TypedRequest ==
  ASSUME Typed, NEW w \in Workers, Request(w)
  PROVE  Typed'
<1>1. CASE PostAgain(w)
  BY <1>1, SpawnTyped DEF PostAgain, Typed, TypeOK
<1>2. CASE CancelRead(w)
  BY <1>2 DEF CancelRead, Typed, TypeOK, Holds, Driving
<1>3. CASE CancelCommit(w)
  <2> DEFINE new == [Moved(canc[w], "cancelled") EXCEPT !.cancel = TRUE]
  <2>1. canc[w] \in Rows
    BY <1>3 DEF CancelCommit, Typed, TypeOK
  <2>2. new \in Rows
    <3>1. Moved(canc[w], "cancelled") \in Rows
      BY <2>1, MovedType DEF AllStates, TerminalStates
    <3> QED
      BY <3>1 DEF Rows
  <2>3. job' \in Rows
    <3>1. job' = Flush(canc[w], new)
      BY <1>3 DEF CancelCommit
    <3> HIDE DEF new
    <3> QED
      BY <2>2, <3>1, FlushType DEF Typed, TypeOK
  <2>4. run' \in [Workers -> Slots] /\ Holds'
    <3>1. CASE run' = [run EXCEPT ![w] = Slot("idle")]
      BY <3>1, IdleTyped
    <3>2. CASE run' = run
      BY <3>2 DEF Typed, TypeOK, Holds, Driving
    <3> QED
      BY <1>3, <3>1, <3>2 DEF CancelCommit
  <2>5. exec' \in [Workers -> {"none", "running", "cancelled"}]
    BY <1>3 DEF CancelCommit, Typed, TypeOK
  <2>6. canc' \in [Workers -> Rows \cup {NoRow}]
    BY <1>3 DEF CancelCommit, Typed, TypeOK
  <2> QED
    BY <2>3, <2>4, <2>5, <2>6, <1>3 DEF CancelCommit, Typed, TypeOK
<1>4. CASE Retry(w)
  <2>1. job' \in Rows
    BY <1>4 DEF Retry, Typed, TypeOK, Rows, AllStates, ActiveStates
  <2> QED
    BY <2>1, <1>4, SpawnTyped DEF Retry, Typed, TypeOK
<1>5. CASE Resume(w)
  BY <1>5, SpawnTyped DEF Resume, Typed, TypeOK
<1> QED
  BY <1>1, <1>2, <1>3, <1>4, <1>5 DEF Request

LEMMA TypedProcess ==
  ASSUME Typed,
         LeaseLapses \/ \E w \in Workers : Crash(w) \/ Shutdown(w) \/ Start(w)
  PROVE  Typed'
<1>1. CASE LeaseLapses
  BY <1>1 DEF LeaseLapses, Typed, TypeOK, Rows, Holds, Driving
<1>2. ASSUME NEW w \in Workers, Crash(w) PROVE Typed'
  <2>1. crashes' \in Nat /\ up' \in [Workers -> BOOLEAN]
    BY <1>2 DEF Crash, Typed, TypeOK
  <2>2. canc' \in [Workers -> Rows \cup {NoRow}]
    BY <1>2 DEF Crash, Typed, TypeOK
  <2> QED
    BY <2>1, <2>2, <1>2, IdleTyped DEF Crash, Typed, TypeOK
<1>3. ASSUME NEW w \in Workers, Start(w) PROVE Typed'
  <2>1. run' \in [Workers -> Slots] /\ Holds'
    <3>1. CASE Spawn(w)
      BY <3>1, SpawnTyped
    <3>2. CASE run' = run
      BY <3>2 DEF Typed, TypeOK, Holds, Driving
    <3> QED
      BY <1>3, <3>1, <3>2 DEF Start
  <2>2. up' \in [Workers -> BOOLEAN]
    BY <1>3 DEF Start, Typed, TypeOK
  <2> QED
    BY <2>1, <2>2, <1>3 DEF Start, Typed, TypeOK
<1>4. ASSUME NEW w \in Workers, Shutdown(w) PROVE Typed'
  <2>1. crashes' \in Nat /\ up' \in [Workers -> BOOLEAN]
    BY <1>4 DEF Shutdown, Typed, TypeOK
  <2>2. "cancelled" \in AllStates /\ job \in Rows
    BY DEF AllStates, TerminalStates, Typed, TypeOK
  <2>3. job' \in Rows
    BY <1>4, <2>2, MovedType DEF Shutdown
  <2> QED
    BY <2>1, <2>3, <1>4, IdleTyped DEF Shutdown, Typed, TypeOK
<1> QED
  BY <1>1, <1>2, <1>3, <1>4

LEMMA TypedInit == Init => Typed
<1> SUFFICES ASSUME Init PROVE Typed
  OBVIOUS
<1>1. job \in Rows
  BY NewRowType DEF Init
<1>2. PICK w \in Workers :
        run = [v \in Workers |-> Slot(IF v = w THEN "spawned" ELSE "idle")]
  BY DEF Init
<1>3. Slot("spawned") \in Slots /\ Slot("idle") \in Slots
  BY SlotType
<1>4. Slot("spawned").pc = "spawned" /\ Slot("idle").pc = "idle"
  BY DEF Slot
<1>5. run \in [Workers -> Slots] /\ Holds
  <2>1. \A v \in Workers : run[v] \in {Slot("spawned"), Slot("idle")}
    BY <1>2
  <2> QED
    BY <1>2, <1>3, <1>4, <2>1 DEF Holds, Driving, DrivingPcs
<1> QED
  BY <1>1, <1>5 DEF Init, Typed, TypeOK

LEMMA TypedNext == Typed /\ [Next]_vars => Typed'
<1> SUFFICES ASSUME Typed, [Next]_vars PROVE Typed'
  OBVIOUS
<1>1. ASSUME NEW w \in Workers, RunnerStep(w) PROVE Typed'
  BY <1>1, JobAssumption, TypedAsk, TypedTurn, TypedCheck, TypedClaim DEF RunnerStep
<1>2. CASE UNCHANGED vars
  BY <1>2 DEF vars, Typed, TypeOK, Holds, Driving
<1> QED
  BY <1>1, <1>2, TypedClaim, TypedRequest, TypedProcess DEF Next

(* Every reachable state is well-typed: whatever mixture of columns the       *)
(* runners' and the requests' sessions flush, the row remains a row.          *)
THEOREM TypeCorrect == Spec => []TypeOK
<1>1. Spec => []Typed
  BY TypedInit, TypedNext, PTL DEF Spec
<1>2. Typed => TypeOK
  BY DEF Typed
<1> QED
  BY <1>1, <1>2, PTL

-----------------------------------------------------------------------------
(* One driver, and terminal jobs: as long as nobody cancels or retries a job  *)
(* that is being driven, and no run outlasts its lease.  The invariant ties   *)
(* three pieces of state together: the slots, the lease in the row, and the   *)
(* copies of the row that the sessions hold.  Only an inline runner is ever   *)
(* past its claim, so that no orderly shutdown finds one to cancel.           *)
Undisturbed == Env \cap {"cancel_live", "retry_live", "lease_lapse"} = {}

Leased == \A w \in Workers : Driving(w) => Inline /\ job.lease = "held"

Fresh ==
  \A w \in Workers :
    /\ run[w].pc = "claimed" => run[w].row.state = job.state
    /\ Driving(w) /\ run[w].pc # "claimed" =>
         job.state \notin TerminalStates /\ run[w].row.state \notin TerminalStates
    /\ canc[w] # NoRow => canc[w].state \notin TerminalStates

Safe == OneDriver /\ Leased /\ Fresh
IInv == Typed /\ Safe

(* Nobody drives: all that is left is what the cancel requests hold. *)
LEMMA SafeUndriven ==
  ASSUME Undriven',
         \A w \in Workers : canc'[w] # NoRow => canc'[w].state \notin TerminalStates
  PROVE  Safe'
BY DEF Undriven, Safe, OneDriver, Leased, Fresh, Driving, DrivingPcs

(* The only driver leaves. *)
LEMMA SafeLeave ==
  ASSUME IInv, NEW w \in Workers, Driving(w), UNCHANGED canc,
         run' = [run EXCEPT ![w] = Slot("idle")]
  PROVE  Safe'
<1>1. Slot("idle").pc = "idle"
  BY DEF Slot
<1>2. Undriven'
  <2> SUFFICES ASSUME NEW v \in Workers, Driving(v)' PROVE FALSE
    BY DEF Undriven
  <2>1. CASE v = w
    BY <2>1, <1>1 DEF Driving, DrivingPcs, IInv, Typed, TypeOK
  <2>2. CASE v # w
    BY <2>2 DEF Driving, IInv, Typed, TypeOK, Safe, OneDriver
  <2> QED
    BY <2>1, <2>2
<1> QED
  BY <1>2, SafeUndriven DEF IInv, Safe, Fresh

(* The only driver goes on: its slot changes, with or without a commit.       *)
LEMMA SafeAdvance ==
  ASSUME IInv, NEW w \in Workers, Driving(w), UNCHANGED canc,
         \A v \in Workers : v # w => run'[v] = run[v],
         run'[w].pc \in DrivingPcs \ {"claimed"},
         run'[w].row.state \notin TerminalStates,
         job'.state \notin TerminalStates,
         job'.lease = job.lease
  PROVE  Safe'
<1>1. \A v \in Workers : Driving(v)' => v = w
  BY DEF Driving, IInv, Safe, OneDriver
<1>2. OneDriver'
  BY <1>1 DEF OneDriver
<1>3. Inline /\ job.lease = "held"
  BY DEF IInv, Safe, Leased
<1>4. Leased'
  BY <1>3 DEF Leased
<1>5. Fresh'
  <2> SUFFICES ASSUME NEW v \in Workers
               PROVE  /\ run'[v].pc = "claimed" => run'[v].row.state = job'.state
                      /\ Driving(v)' /\ run'[v].pc # "claimed" =>
                           /\ job'.state \notin TerminalStates
                           /\ run'[v].row.state \notin TerminalStates
                      /\ canc'[v] # NoRow => canc'[v].state \notin TerminalStates
    BY DEF Fresh
  <2>1. run'[v].pc = "claimed" => FALSE
    BY <1>1 DEF Driving, DrivingPcs
  <2>2. Driving(v)' => v = w
    BY <1>1
  <2>3. canc'[v] # NoRow => canc'[v].state \notin TerminalStates
    BY DEF IInv, Safe, Fresh
  <2> QED
    BY <2>1, <2>2, <2>3
<1> QED
  BY <1>2, <1>4, <1>5 DEF Safe

(* A commit by the only driver that does not end the job. *)
LEMMA SafeCommit ==
  ASSUME IInv, NEW w \in Workers, Driving(w), UNCHANGED canc,
         NEW new \in Rows, NEW slot \in Slots, Commit(w, new, slot),
         slot.pc \in DrivingPcs \ {"claimed"},
         job.state \notin TerminalStates, new.state \notin TerminalStates,
         new.lease = run[w].row.lease
  PROVE  Safe'
<1>1. run' = [run EXCEPT ![w] = [slot EXCEPT !.row = new]]
  BY DEF Commit
<1>2. \A v \in Workers : v # w => run'[v] = run[v]
  BY <1>1 DEF IInv, Typed, TypeOK
<1>3. run'[w] = [slot EXCEPT !.row = new]
  BY <1>1 DEF IInv, Typed, TypeOK
<1>4. run'[w].pc = slot.pc /\ run'[w].row = new
  BY <1>3 DEF Slots
<1>5. /\ job'.state = Column(run[w].row.state, new.state, job.state)
      /\ job'.lease = Column(run[w].row.lease, new.lease, job.lease)
  BY DEF Commit, Flush
<1>6. job'.state \notin TerminalStates /\ job'.lease = job.lease
  BY <1>5 DEF Column
<1> QED
  BY <1>2, <1>4, <1>6, SafeAdvance

(* A runner that can take a step of its own finds a job that is not over. *)
LEMMA StepsLive ==
  ASSUME IInv, NEW w \in Workers, NEW pc \in DrivingPcs, Steps(w, pc)
  PROVE  /\ Driving(w)
         /\ job.state \notin TerminalStates
         /\ run[w].row.state \notin TerminalStates
<1>1. Driving(w)
  BY DEF Steps, Driving
<1>2. CASE pc = "claimed"
  <2>1. Target(w) = "planning" /\ Legal(run[w].row.state, "planning")
    BY <1>2 DEF Steps, Target
  <2>2. run[w].row.state \notin TerminalStates
    BY <2>1 DEF Legal, CanTransition, TerminalStates
  <2> QED
    BY <1>1, <1>2, <2>2 DEF Steps, IInv, Safe, Fresh
<1>3. CASE pc # "claimed"
  BY <1>1, <1>3 DEF Steps, IInv, Safe, Fresh
<1> QED
  BY <1>1, <1>2, <1>3

LEMMA MovedOn ==
  ASSUME NEW row \in Rows, NEW s \in AllStates \ TerminalStates
  PROVE  Moved(row, s).state = s /\ Moved(row, s).lease = row.lease
BY DEF Moved, Rows

LEMMA LiveStates ==
  /\ {"planning", "inspecting_workspace", "waiting_for_brain", "debugging",
      "writing_files", "verifying"} \subseteq AllStates \ TerminalStates
  /\ \A kind : Running(kind) \in AllStates \ TerminalStates
BY DEF AllStates, ActiveStates, TerminalStates, Running

LEMMA SafeAsk ==
  ASSUME IInv, NEW w \in Workers,
         Plan(w) \/ Inspect(w) \/ Ask(w) \/ BrainAnswers(w)
  PROVE  Safe'
<1>0. /\ Driving(w) /\ job.state \notin TerminalStates
      /\ run[w].row.state \notin TerminalStates
  BY StepsLive DEF Plan, Inspect, Ask, BrainAnswers, DrivingPcs
<1>r. run[w].row \in Rows /\ run[w] \in Slots
  BY <1>0, RowOf DEF IInv
<1>1. CASE Plan(w)
  <2> DEFINE new  == [Moved(run[w].row, "planning") EXCEPT !.planned = TRUE]
             slot == [run[w] EXCEPT !.pc = "planned"]
  <2>1. Moved(run[w].row, "planning") \in Rows
    BY <1>r, LiveStates, MovedType
  <2>2. /\ new \in Rows /\ new.state = "planning"
        /\ new.lease = run[w].row.lease
    BY <2>1, <1>r, LiveStates, MovedOn DEF Rows
  <2>3. slot \in Slots /\ slot.pc = "planned"
    BY <1>r DEF Slots, DrivingPcs
  <2>4. UNCHANGED canc
    BY <1>1 DEF Plan
  <2>5. CASE Return(w, new)
    BY <1>0, <2>4, <2>5, SafeLeave DEF Return
  <2>6. CASE Commit(w, new, slot)
    <3> HIDE DEF new, slot
    <3> QED
      BY <1>0, <2>2, <2>3, <2>4, <2>6, SafeCommit, LiveStates DEF DrivingPcs
  <2> QED
    BY <1>1, <2>5, <2>6 DEF Plan
<1>2. CASE Inspect(w)
  <2> DEFINE new  == Moved(run[w].row, "inspecting_workspace")
             slot == [run[w] EXCEPT !.pc = "inspected"]
  <2>1. /\ new \in Rows /\ new.state = "inspecting_workspace"
        /\ new.lease = run[w].row.lease
    BY <1>r, LiveStates, MovedType, MovedOn
  <2>2. slot \in Slots /\ slot.pc = "inspected"
    BY <1>r DEF Slots, DrivingPcs
  <2>3. Commit(w, new, slot) /\ UNCHANGED canc
    BY <1>2 DEF Inspect
  <2> HIDE DEF new, slot
  <2> QED
    BY <1>0, <2>1, <2>2, <2>3, SafeCommit, LiveStates DEF DrivingPcs
<1>3. CASE Ask(w)
  <2> DEFINE new  == Moved(run[w].row, "waiting_for_brain")
             slot == [run[w] EXCEPT !.pc = "asking"]
  <2>1. /\ new \in Rows /\ new.state = "waiting_for_brain"
        /\ new.lease = run[w].row.lease
    BY <1>r, LiveStates, MovedType, MovedOn
  <2>2. slot \in Slots /\ slot.pc = "asking"
    BY <1>r DEF Slots, DrivingPcs
  <2>3. Commit(w, new, slot) /\ UNCHANGED canc
    BY <1>3 DEF Ask
  <2> HIDE DEF new, slot
  <2> QED
    BY <1>0, <2>1, <2>2, <2>3, SafeCommit, LiveStates DEF DrivingPcs
<1>4. CASE BrainAnswers(w)
  <2>1. PICK turn \in Turns :
          run' = [run EXCEPT ![w].pc = "answered", ![w].turn = turn]
    BY <1>4 DEF BrainAnswers
  <2>2. run'[w].pc = "answered" /\ run'[w].row = run[w].row
    BY <1>r, <2>1 DEF IInv, Typed, TypeOK, Slots
  <2>3. \A v \in Workers : v # w => run'[v] = run[v]
    BY <2>1 DEF IInv, Typed, TypeOK
  <2>4. UNCHANGED <<job, canc>>
    BY <1>4 DEF BrainAnswers
  <2> QED
    BY <1>0, <2>2, <2>3, <2>4, SafeAdvance DEF DrivingPcs
<1> QED
  BY <1>1, <1>2, <1>3, <1>4

LEMMA SafeTurn ==
  ASSUME IInv, NEW w \in Workers,
         AwaitApproval(w) \/ FinishUnchecked(w) \/ StartChecks(w) \/ Complete(w)
  PROVE  Safe'
<1>0. /\ Driving(w) /\ job.state \notin TerminalStates
      /\ run[w].row.state \notin TerminalStates
  BY StepsLive DEF AwaitApproval, FinishUnchecked, StartChecks, Complete, DrivingPcs
<1>r. run[w].row \in Rows /\ run[w] \in Slots
  BY <1>0, RowOf DEF IInv
<1>1. CASE AwaitApproval(w) \/ FinishUnchecked(w) \/ Complete(w)
  BY <1>0, <1>1, SafeLeave DEF AwaitApproval, FinishUnchecked, Complete, Return
<1>2. CASE StartChecks(w)
  <2>1. PICK plans \in PlanLists :
          \/ /\ run' = [run EXCEPT ![w].pc = "checking", ![w].plans = plans,
                                  ![w].row.state = "writing_files"]
             /\ UNCHANGED job
          \/ Commit(w, Moved(run[w].row, "verifying"),
                    [run[w] EXCEPT !.pc = "verified"])
    BY <1>2 DEF StartChecks
  <2>2. UNCHANGED canc
    BY <1>2 DEF StartChecks
  <2>3. CASE /\ run' = [run EXCEPT ![w].pc = "checking", ![w].plans = plans,
                                   ![w].row.state = "writing_files"]
             /\ UNCHANGED job
    <3>1. run'[w].pc = "checking" /\ run'[w].row.state = "writing_files"
      BY <1>r, <2>3 DEF IInv, Typed, TypeOK, Slots, Rows
    <3>2. \A v \in Workers : v # w => run'[v] = run[v]
      BY <2>3 DEF IInv, Typed, TypeOK
    <3> QED
      BY <1>0, <2>2, <2>3, <3>1, <3>2, SafeAdvance, LiveStates DEF DrivingPcs
  <2>4. CASE Commit(w, Moved(run[w].row, "verifying"),
                    [run[w] EXCEPT !.pc = "verified"])
    <3> DEFINE new  == Moved(run[w].row, "verifying")
               slot == [run[w] EXCEPT !.pc = "verified"]
    <3>1. /\ new \in Rows /\ new.state = "verifying"
          /\ new.lease = run[w].row.lease
      BY <1>r, LiveStates, MovedType, MovedOn
    <3>2. slot \in Slots /\ slot.pc = "verified"
      BY <1>r DEF Slots, DrivingPcs
    <3>3. Commit(w, new, slot)
      BY <2>4
    <3> HIDE DEF new, slot
    <3> QED
      BY <1>0, <2>2, <3>1, <3>2, <3>3, SafeCommit, LiveStates DEF DrivingPcs
  <2> QED
    BY <2>1, <2>3, <2>4
<1> QED
  BY <1>1, <1>2

LEMMA SafeCheck ==
  ASSUME IInv, NEW w \in Workers,
         RunCheck(w) \/ CommandEnds(w) \/ Rerun(w) \/ Summarize(w)
  PROVE  Safe'
<1>0. /\ Driving(w) /\ job.state \notin TerminalStates
      /\ run[w].row.state \notin TerminalStates
  BY StepsLive DEF RunCheck, CommandEnds, Rerun, Summarize, DrivingPcs
<1>r. run[w].row \in Rows /\ run[w] \in Slots
  BY <1>0, RowOf DEF IInv
<1> DEFINE target == Running(Head(run[w].plans))
           next   == Moved(run[w].row, target)
<1>n. /\ next \in Rows /\ next.state \notin TerminalStates
      /\ next.lease = run[w].row.lease
  <2>1. target \in AllStates \ TerminalStates
    BY LiveStates
  <2> HIDE DEF target
  <2> QED
    BY <1>r, <2>1, MovedType, MovedOn
<1>1. CASE RunCheck(w)
  <2> DEFINE denied == [run[w] EXCEPT !.plans = Tail(@), !.seen = @ \cup {"denied"}]
             begun  == [run[w] EXCEPT !.pc = "executing", !.tries = 1]
  <2>1. run[w].plans # <<>> /\ run[w].pc = "checking"
    BY <1>1 DEF RunCheck, Steps
  <2>2. denied \in Slots /\ denied.pc = "checking"
    <3>1. denied \in Slots
      BY <1>r, <2>1, NextPlan DEF Statuses
    <3>2. denied.pc = run[w].pc
      BY <1>r DEF Slots
    <3> QED
      BY <3>1, <3>2, <2>1
  <2>3. begun \in Slots /\ begun.pc = "executing"
    BY <1>r DEF Slots, DrivingPcs
  <2>4. /\ Commit(w, next, denied) \/ Commit(w, next, begun)
        /\ UNCHANGED canc
    BY <1>1 DEF RunCheck
  <2> HIDE DEF next, denied, begun
  <2> QED
    BY <1>0, <1>n, <2>2, <2>3, <2>4, SafeCommit DEF DrivingPcs
<1>2. CASE CommandEnds(w)
  <2>1. PICK status \in Statuses :
          \/ Commit(w, Moved(run[w].row, "debugging"),
                    [run[w] EXCEPT !.pc = "debugging"])
          \/ /\ run' = [run EXCEPT ![w].pc = "checking", ![w].plans = Tail(@),
                                  ![w].seen = @ \cup {status}]
             /\ UNCHANGED job
    BY <1>2 DEF CommandEnds
  <2>2. UNCHANGED canc
    BY <1>2 DEF CommandEnds
  <2>3. CASE Commit(w, Moved(run[w].row, "debugging"),
                    [run[w] EXCEPT !.pc = "debugging"])
    <3> DEFINE new  == Moved(run[w].row, "debugging")
               slot == [run[w] EXCEPT !.pc = "debugging"]
    <3>1. /\ new \in Rows /\ new.state = "debugging"
          /\ new.lease = run[w].row.lease
      BY <1>r, LiveStates, MovedType, MovedOn
    <3>2. slot \in Slots /\ slot.pc = "debugging"
      BY <1>r DEF Slots, DrivingPcs
    <3>3. Commit(w, new, slot)
      BY <2>3
    <3> HIDE DEF new, slot
    <3> QED
      BY <1>0, <2>2, <3>1, <3>2, <3>3, SafeCommit, LiveStates DEF DrivingPcs
  <2>4. CASE /\ run' = [run EXCEPT ![w].pc = "checking", ![w].plans = Tail(@),
                                  ![w].seen = @ \cup {status}]
             /\ UNCHANGED job
    <3>1. run'[w].pc = "checking" /\ run'[w].row = run[w].row
      BY <1>r, <2>4 DEF IInv, Typed, TypeOK, Slots
    <3>2. \A v \in Workers : v # w => run'[v] = run[v]
      BY <2>4 DEF IInv, Typed, TypeOK
    <3> QED
      BY <1>0, <2>2, <2>4, <3>1, <3>2, SafeAdvance DEF DrivingPcs
  <2> QED
    BY <2>1, <2>3, <2>4
<1>3. CASE Rerun(w)
  <2> DEFINE tries == run[w].tries + 1
             begun == [run[w] EXCEPT !.pc = "executing", !.tries = tries]
  <2>1. tries \in Nat
    BY <1>r DEF Slots
  <2>2. begun \in Slots /\ begun.pc = "executing"
    <3> HIDE DEF tries
    <3> QED
      BY <1>r, <2>1 DEF Slots, DrivingPcs
  <2>3. Commit(w, next, begun) /\ UNCHANGED canc
    BY <1>3 DEF Rerun
  <2> HIDE DEF next, begun
  <2> QED
    BY <1>0, <1>n, <2>2, <2>3, SafeCommit DEF DrivingPcs
<1>4. CASE Summarize(w)
  <2> DEFINE new  == Moved(run[w].row, "verifying")
             slot == [run[w] EXCEPT !.pc = "verified"]
  <2>1. /\ new \in Rows /\ new.state = "verifying"
        /\ new.lease = run[w].row.lease
    BY <1>r, LiveStates, MovedType, MovedOn
  <2>2. slot \in Slots /\ slot.pc = "verified"
    BY <1>r DEF Slots, DrivingPcs
  <2>3. Commit(w, new, slot) /\ UNCHANGED canc
    BY <1>4 DEF Summarize
  <2> HIDE DEF new, slot
  <2> QED
    BY <1>0, <2>1, <2>2, <2>3, SafeCommit, LiveStates DEF DrivingPcs
<1> QED
  BY <1>1, <1>2, <1>3, <1>4

LEMMA SafeClaim ==
  ASSUME IInv, NEW w \in Workers, Claim(w) \/ Raise(w)
  PROVE  Safe'
<1>1. CASE Claim(w) /\ Inline /\ job.lease # "held"
  <2>1. /\ job' = [job EXCEPT !.lease = "held", !.attempt = @ + 1]
        /\ run' = [run EXCEPT ![w].pc = "claimed", ![w].row = job']
        /\ UNCHANGED canc
    BY <1>1 DEF Claim
  <2>2. Undriven
    BY <1>1 DEF Undriven, IInv, Safe, Leased
  <2>3. \A v \in Workers : v # w => run'[v] = run[v]
    BY <2>1 DEF IInv, Typed, TypeOK
  <2>4. run'[w].pc = "claimed" /\ run'[w].row = job'
    BY <2>1 DEF IInv, Typed, TypeOK, Slots
  <2>5. job'.lease = "held"
    BY <2>1 DEF IInv, Typed, TypeOK, Rows
  <2>6. \A v \in Workers : Driving(v)' => v = w
    BY <2>2, <2>3 DEF Undriven, Driving
  <2>7. OneDriver' /\ Leased'
    BY <1>1, <2>5, <2>6 DEF OneDriver, Leased
  <2>8. Fresh'
    <3>1. \A v \in Workers : run'[v].pc \in DrivingPcs => v = w
      BY <2>6 DEF Driving
    <3>2. \A v \in Workers : run'[v].pc = "claimed" => v = w
      BY <3>1 DEF DrivingPcs
    <3> QED
      BY <2>1, <2>4, <3>1, <3>2 DEF Fresh, Driving, IInv, Safe
  <2> QED
    BY <2>7, <2>8 DEF Safe
<1>2. CASE Claim(w) /\ ~(Inline /\ job.lease # "held")
  <2>1. /\ run' = [run EXCEPT ![w] = Slot("idle")]
        /\ UNCHANGED <<job, canc>> /\ run[w].pc = "spawned"
    BY <1>2 DEF Claim
  <2>2. Slot("idle").pc = "idle"
    BY DEF Slot
  <2>3. \A v \in Workers : v # w => run'[v] = run[v]
    BY <2>1 DEF IInv, Typed, TypeOK
  <2>4. run'[w].pc = "idle"
    BY <2>1, <2>2 DEF IInv, Typed, TypeOK
  <2> QED
    BY <2>1, <2>3, <2>4 DEF IInv, Safe, OneDriver, Leased, Fresh, Driving, DrivingPcs
<1>3. CASE Raise(w)
  BY <1>3, SafeLeave DEF Raise
<1> QED
  BY <1>1, <1>2, <1>3

(* A spawn puts a task in a slot that is idle. *)
LEMMA SafeSpawn ==
  ASSUME IInv, NEW w \in Workers, Spawn(w), UNCHANGED <<job, canc>>
  PROVE  Safe'
<1>1. CASE run' = run
  BY <1>1 DEF IInv, Safe, OneDriver, Leased, Fresh, Driving
<1>2. CASE run[w].pc = "idle" /\ run' = [run EXCEPT ![w] = Slot("spawned")]
  <2>1. Slot("spawned").pc = "spawned"
    BY DEF Slot
  <2>2. \A v \in Workers : v # w => run'[v] = run[v]
    BY <1>2 DEF IInv, Typed, TypeOK
  <2>3. run'[w].pc = "spawned"
    BY <1>2, <2>1 DEF IInv, Typed, TypeOK
  <2> QED
    BY <2>2, <2>3 DEF IInv, Safe, OneDriver, Leased, Fresh, Driving, DrivingPcs
<1> QED
  BY <1>1, <1>2 DEF Spawn

(* A process that is down, or comes up, and the requests it serves. *)
LEMMA SafeRequest ==
  ASSUME IInv, Undisturbed, NEW w \in Workers, Request(w)
  PROVE  Safe'
<1>1. CASE PostAgain(w) \/ Resume(w)
  BY <1>1, SafeSpawn DEF PostAgain, Resume
<1>2. CASE CancelRead(w)
  <2>1. \A v \in Workers : canc'[v] = IF v = w THEN job ELSE canc[v]
    BY <1>2 DEF CancelRead, IInv, Typed, TypeOK
  <2> QED
    BY <1>2, <2>1 DEF CancelRead, IInv, Safe, OneDriver, Leased, Fresh, Driving
<1>3. CASE CancelCommit(w)
  <2>1. Undriven
    BY <1>3 DEF CancelCommit, MayCancel, Undisturbed
  <2>2. Slot("idle").pc = "idle"
    BY DEF Slot
  <2>3. \A v \in Workers : run'[v] = run[v] \/ run'[v].pc = "idle"
    BY <1>3, <2>2 DEF CancelCommit, IInv, Typed, TypeOK
  <2>4. Undriven'
    BY <2>1, <2>3 DEF Undriven, Driving, DrivingPcs
  <2>5. \A v \in Workers : canc'[v] # NoRow => canc'[v] = canc[v]
    BY <1>3 DEF CancelCommit, IInv, Typed, TypeOK
  <2> QED
    BY <2>4, <2>5, SafeUndriven DEF IInv, Safe, Fresh
<1>4. CASE Retry(w)
  <2>1. Undriven
    BY <1>4 DEF Retry, MayRetry, Undisturbed
  <2>2. Slot("spawned").pc = "spawned"
    BY DEF Slot
  <2>3. \A v \in Workers : run'[v] = run[v] \/ run'[v].pc = "spawned"
    BY <1>4, <2>2 DEF Retry, Spawn, IInv, Typed, TypeOK
  <2>4. Undriven'
    BY <2>1, <2>3 DEF Undriven, Driving, DrivingPcs
  <2> QED
    BY <1>4, <2>4, SafeUndriven DEF Retry, IInv, Safe, Fresh
<1> QED
  BY <1>1, <1>2, <1>3, <1>4 DEF Request

(* An orderly shutdown finds no runner to cancel. *)
LEMMA ShutdownIdle ==
  ASSUME IInv, NEW w \in Workers, Shutdown(w)
  PROVE  /\ ~Driving(w) /\ UNCHANGED <<job, canc>>
         /\ run' = [run EXCEPT ![w] = Slot("idle")]
<1>1. ~Driving(w)
  BY DEF Shutdown, Driving, DrivingPcs, IInv, Safe, Leased
<1> QED
  BY <1>1 DEF Shutdown

LEMMA SafeProcess ==
  ASSUME IInv, Undisturbed,
         LeaseLapses \/ \E w \in Workers : Crash(w) \/ Shutdown(w) \/ Start(w)
  PROVE  Safe'
<1>1. CASE LeaseLapses
  <2>1. Undriven' /\ UNCHANGED canc
    BY <1>1 DEF LeaseLapses, Undisturbed, Undriven, Driving
  <2> QED
    BY <2>1, SafeUndriven DEF IInv, Safe, Fresh
<1>2. ASSUME NEW w \in Workers, Crash(w) \/ Shutdown(w) PROVE Safe'
  <2>1. Slot("idle").pc = "idle"
    BY DEF Slot
  <2>2. /\ run'[w].pc = "idle"
        /\ \A v \in Workers : v # w => run'[v] = run[v]
    BY <1>2, <2>1, ShutdownIdle DEF Crash, IInv, Typed, TypeOK
  <2>3. \A v \in Workers : canc'[v] # NoRow => canc'[v] = canc[v]
    BY <1>2, ShutdownIdle DEF Crash, IInv, Typed, TypeOK
  <2>4. UNCHANGED job
    BY <1>2, ShutdownIdle DEF Crash
  <2>5. OneDriver' /\ Leased'
    BY <2>2, <2>4 DEF IInv, Safe, OneDriver, Leased, Driving, DrivingPcs
  <2>6. Fresh'
    BY <2>2, <2>3, <2>4 DEF IInv, Safe, Fresh, Driving, DrivingPcs
  <2> QED
    BY <2>5, <2>6 DEF Safe
<1>3. ASSUME NEW w \in Workers, Start(w) PROVE Safe'
  <2>1. CASE Spawn(w)
    BY <1>3, <2>1, SafeSpawn DEF Start
  <2>2. CASE run' = run
    BY <1>3, <2>2 DEF Start, IInv, Safe, OneDriver, Leased, Fresh, Driving
  <2> QED
    BY <1>3, <2>1, <2>2 DEF Start
<1> QED
  BY <1>1, <1>2, <1>3

LEMMA SafeInit == Init => IInv
<1> SUFFICES ASSUME Init PROVE IInv
  OBVIOUS
<1>1. PICK w \in Workers :
        run = [v \in Workers |-> Slot(IF v = w THEN "spawned" ELSE "idle")]
  BY DEF Init
<1>2. Slot("spawned").pc = "spawned" /\ Slot("idle").pc = "idle"
  BY DEF Slot
<1>3. \A v \in Workers : run[v].pc \in {"spawned", "idle"}
  BY <1>1, <1>2
<1>4. \A v \in Workers : canc[v] = NoRow
  BY DEF Init
<1> QED
  BY <1>3, <1>4, TypedInit
     DEF IInv, Safe, OneDriver, Leased, Fresh, Driving, DrivingPcs

LEMMA SafeNext == IInv /\ Undisturbed /\ [Next]_vars => IInv'
<1> SUFFICES ASSUME IInv, Undisturbed, [Next]_vars PROVE IInv'
  OBVIOUS
<1>1. Typed'
  BY TypedNext DEF IInv
<1>2. ASSUME NEW w \in Workers, RunnerStep(w) PROVE Safe'
  BY <1>2, SafeAsk, SafeTurn, SafeCheck, SafeClaim DEF RunnerStep
<1>3. ASSUME UNCHANGED vars PROVE Safe'
  BY <1>3 DEF vars, IInv, Safe, OneDriver, Leased, Fresh, Driving
<1>4. ASSUME NEW w \in Workers, Claim(w) PROVE Safe'
  BY <1>4, SafeClaim
<1>5. ASSUME NEW w \in Workers, Request(w) PROVE Safe'
  BY <1>5, SafeRequest
<1>6. ASSUME NEW w \in Workers, Crash(w) \/ Shutdown(w) \/ Start(w) PROVE Safe'
  BY <1>6, SafeProcess
<1>7. ASSUME LeaseLapses PROVE Safe'
  BY <1>7, SafeProcess
<1>8. Safe'
  BY <1>2, <1>3, <1>4, <1>5, <1>6, <1>7 DEF Next
<1> QED
  BY <1>1, <1>8 DEF IInv

LEMMA SafeAlways == ASSUME Undisturbed PROVE Spec => []IInv
<1>1. IInv /\ [Next]_vars => IInv'
  BY SafeNext
<1> QED
  BY <1>1, SafeInit, PTL DEF Spec

(* No two runners ever drive the job at the same time, for any number of      *)
(* processes that post, cancel, retry, resume, die and recover: the lease in  *)
(* the row is enough, as long as it is not taken from a runner that holds it. *)
THEOREM OneRunner == ASSUME Undisturbed PROVE Spec => []OneDriver
<1>1. IInv => OneDriver
  BY DEF IInv, Safe
<1> QED
  BY <1>1, SafeAlways, PTL

LEMMA OnlyRetry ==
  ASSUME IInv, Undisturbed, Next, job.state \in TerminalStates,
         job'.state # job.state
  PROVE  \E w \in Workers : Retry(w)
<1>1. ASSUME NEW w \in Workers, RunnerStep(w) PROVE FALSE
  <2>1. ASSUME NEW pc \in DrivingPcs, Steps(w, pc) PROVE FALSE
    BY <2>1, StepsLive
  <2>2. CASE Raise(w)
    BY <2>2 DEF Raise
  <2> QED
    BY <1>1, <2>1, <2>2
       DEF RunnerStep, Plan, Inspect, Ask, BrainAnswers, AwaitApproval,
           FinishUnchecked, StartChecks, RunCheck, CommandEnds, Rerun,
           Summarize, Complete, DrivingPcs
<1>2. ASSUME NEW w \in Workers, Request(w) PROVE Retry(w)
  <2>1. CASE CancelCommit(w)
    BY <2>1 DEF CancelCommit, MayCancel, Undisturbed, IInv, Safe, Fresh
  <2> QED
    BY <1>2, <2>1 DEF Request, PostAgain, CancelRead, Resume
<1>3. ASSUME NEW w \in Workers, Claim(w) \/ Crash(w) \/ Shutdown(w) \/ Start(w)
      PROVE  FALSE
  BY <1>3, ShutdownIdle DEF Claim, Crash, Start, IInv, Typed, TypeOK, Rows
<1>4. CASE LeaseLapses
  BY <1>4 DEF LeaseLapses, IInv, Typed, TypeOK, Rows
<1> QED
  BY <1>1, <1>2, <1>3, <1>4 DEF Next

(* A terminal job is moved by a retry and by nothing else: the copies of the  *)
(* row that the sessions hold are fresh enough for no commit to undo it.      *)
THEOREM TerminalKept == ASSUME Undisturbed PROVE Spec => TerminalIsFinal
<1> DEFINE Kept == job.state \in TerminalStates /\ job'.state # job.state
                     => job'.state = "queued"
<1>1. ASSUME IInv, [Next]_vars PROVE [Kept]_vars
  <2>1. ASSUME NEW w \in Workers, Retry(w) PROVE job'.state = "queued"
    BY <1>1, <2>1 DEF Retry, IInv, Typed, TypeOK, Rows
  <2> QED
    BY <1>1, <2>1, OnlyRetry
<1> QED
  BY <1>1, SafeAlways, PTL DEF Spec, TerminalIsFinal

(* A cancelled job stays cancelled until it is retried.  The run "cancel"     *)
(* shows what becomes of it when the job was driven as it was cancelled.      *)
THEOREM CancelKept == ASSUME Undisturbed PROVE Spec => CancelIsFinal
<1> DEFINE Kept == job.state = "cancelled" => job'.state \in {"cancelled", "queued"}
<1>1. ASSUME IInv, [Next]_vars PROVE [Kept]_vars
  <2>1. ASSUME NEW w \in Workers, Retry(w) PROVE job'.state = "queued"
    BY <1>1, <2>1 DEF Retry, IInv, Typed, TypeOK, Rows
  <2> QED
    BY <1>1, <2>1, OnlyRetry DEF TerminalStates
<1> QED
  BY <1>1, SafeAlways, PTL DEF Spec, CancelIsFinal

-----------------------------------------------------------------------------
(* The lifecycle: how the stored state goes with the place at which the       *)
(* runner is, and its copy with the row.  The copy is ahead of the row in one *)
(* place only, between the end of the turn and the first command.             *)
StageOf(pc) ==
  CASE pc = "planned" -> {"planning"}
    [] pc = "inspected" -> {"inspecting_workspace"}
    [] pc \in {"asking", "answered"} -> {"waiting_for_brain"}
    [] pc = "checking" -> {"waiting_for_brain", "running_tests", "running_command"}
    [] pc = "executing" -> {"running_tests", "running_command"}
    [] pc = "debugging" -> {"debugging"}
    [] pc = "verified" -> {"verifying"}
    [] OTHER -> AllStates

CopyState(pc, stored) ==
  IF pc = "checking" /\ stored = "waiting_for_brain" THEN "writing_files"
  ELSE stored

InStage ==
  \A w \in Workers : Driving(w) =>
    /\ job.state \in StageOf(run[w].pc)
    /\ run[w].row.state = CopyState(run[w].pc, job.state)
    /\ run[w].row.outcome = job.outcome
    /\ run[w].row.result = job.result

JobInv == IInv /\ InStage /\ OutcomeFollowsReport

(* What a step has to keep, and what it has to be for a client. *)
Follows == InStage /\ OutcomeFollowsReport
Maps == [Lifecycle!Next]_(Lifecycle!vars)

(* The table of the lifecycle a client sees is the table of the code. *)
LEMMA SameTable ==
  /\ Lifecycle!AllStates = AllStates
  /\ Lifecycle!TerminalStates = TerminalStates
  /\ Lifecycle!Forward = Forward
BY DEF Lifecycle!AllStates, Lifecycle!TerminalStates, Lifecycle!ActiveStates,
       Lifecycle!SuspendedStates, Lifecycle!Forward,
       AllStates, TerminalStates, ActiveStates, SuspendedStates, Forward

LEMMA PassesBy ==
  ASSUME NEW s, NEW t, NEW a \in {s} \cup Forward[s],
         NEW b \in {a} \cup Forward[a], Legal(b, t)
  PROVE  Lifecycle!Passes(s, t)
BY SameTable DEF Lifecycle!Passes, Lifecycle!Near, Lifecycle!Edge,
                 Lifecycle!CanTransition, Legal, CanTransition

(* Stages that one durable step may pass through. *)
LEMMA Passages ==
  /\ \A s, t : Legal(s, t) => Lifecycle!Passes(s, t)
  /\ \A s \in {"planning", "inspecting_workspace"} :
       Lifecycle!Passes(s, "waiting_for_brain")
  /\ \A t \in {"awaiting_approval", "verifying", "completed", "running_tests",
               "running_command"} : Lifecycle!Passes("waiting_for_brain", t)
<1>1. /\ "context_compiling" \in Forward["planning"]
      /\ "context_compiling" \in Forward["inspecting_workspace"]
      /\ "waiting_for_brain" \in Forward["context_compiling"]
      /\ "brain_streaming" \in Forward["waiting_for_brain"]
      /\ "writing_files" \in Forward["brain_streaming"]
      /\ "verifying" \in Forward["brain_streaming"]
      /\ "awaiting_approval" \in Forward["brain_streaming"]
      /\ "running_tests" \in Forward["writing_files"]
      /\ "running_command" \in Forward["writing_files"]
  BY DEF Forward, AllStates, ActiveStates, SuspendedStates, TerminalStates
<1>2. \A s, t : Legal(s, t) => Lifecycle!Passes(s, t)
  BY PassesBy
<1>3. \A s : Legal(s, s)
  BY DEF Legal
<1>4. /\ Legal("writing_files", "running_tests")
      /\ Legal("writing_files", "running_command")
      /\ Legal("verifying", "completed")
  BY <1>1 DEF Legal, CanTransition, AllStates, ActiveStates, TerminalStates
<1>5. \A s \in {"planning", "inspecting_workspace"} :
        Lifecycle!Passes(s, "waiting_for_brain")
  BY <1>1, <1>3, PassesBy
<1>6. /\ Lifecycle!Passes("waiting_for_brain", "awaiting_approval")
      /\ Lifecycle!Passes("waiting_for_brain", "verifying")
  BY <1>1, <1>3, PassesBy
<1>7. Lifecycle!Passes("waiting_for_brain", "completed")
  BY <1>1, <1>4, PassesBy
<1>8. /\ Lifecycle!Passes("waiting_for_brain", "running_tests")
      /\ Lifecycle!Passes("waiting_for_brain", "running_command")
  BY <1>1, <1>4, PassesBy
<1> QED
  BY <1>2, <1>5, <1>6, <1>7, <1>8

(* A commit stores the state the copy is moved to, and its outcome. *)
LEMMA StoredNow ==
  ASSUME NEW old, NEW new, old.outcome = job.outcome, old.result = job.result,
         old.state = job.state \/ new.state # old.state,
         job' = Flush(old, new)
  PROVE  /\ job'.state = new.state
         /\ job'.outcome = new.outcome
         /\ job'.result = new.result
BY DEF Flush, Column

(* A step of the only driver which goes on driving. *)
LEMMA FollowsOn ==
  ASSUME JobInv, NEW w \in Workers, Driving(w),
         \A v \in Workers : v # w => run'[v] = run[v],
         run'[w].pc \in DrivingPcs,
         job'.state \in StageOf(run'[w].pc), job'.state \in AllStates \ TerminalStates,
         run'[w].row.state = CopyState(run'[w].pc, job'.state),
         run'[w].row.outcome = job'.outcome, run'[w].row.result = job'.result,
         job'.outcome = job.outcome, Lifecycle!Passes(job.state, job'.state)
  PROVE  Follows' /\ Maps
<1>1. \A v \in Workers : Driving(v)' => v = w
  BY DEF Driving, JobInv, IInv, Safe, OneDriver
<1>2. InStage'
  BY <1>1 DEF InStage
<1>3. OutcomeFollowsReport'
  BY DEF OutcomeFollowsReport, TerminalStates
<1>4. ~Undriven /\ ~Undriven'
  BY DEF Undriven, Driving
<1>5. Lifecycle!Advance
  BY <1>4, SameTable DEF Lifecycle!Advance
<1> QED
  BY <1>2, <1>3, <1>5 DEF Follows, Maps, Lifecycle!Next

(* The same, when the step is a commit. *)
LEMMA FollowsCommit ==
  ASSUME JobInv, NEW w \in Workers, Driving(w),
         NEW new \in Rows, NEW slot \in Slots, Commit(w, new, slot),
         slot.pc \in DrivingPcs,
         new.state \in StageOf(slot.pc), new.state \in AllStates \ TerminalStates,
         new.state # "waiting_for_brain" \/ slot.pc # "checking",
         new.state # "writing_files",
         new.outcome = run[w].row.outcome, new.result = run[w].row.result,
         Lifecycle!Passes(job.state, new.state)
  PROVE  Follows' /\ Maps
<1>1. run' = [run EXCEPT ![w] = [slot EXCEPT !.row = new]]
  BY DEF Commit
<1>2. \A v \in Workers : v # w => run'[v] = run[v]
  BY <1>1 DEF JobInv, IInv, Typed, TypeOK
<1>3. run'[w] = [slot EXCEPT !.row = new]
  BY <1>1 DEF JobInv, IInv, Typed, TypeOK
<1>4. run'[w].pc = slot.pc /\ run'[w].row = new
  BY <1>3 DEF Slots
<1>5. /\ run[w].row.outcome = job.outcome /\ run[w].row.result = job.result
      /\ run[w].row.state = job.state \/ new.state # run[w].row.state
  BY DEF JobInv, InStage, CopyState
<1>6. job' = Flush(run[w].row, new)
  BY DEF Commit
<1>7. /\ job'.state = new.state
      /\ job'.outcome = new.outcome
      /\ job'.result = new.result
  BY <1>5, <1>6, StoredNow
<1>8. new.state = CopyState(slot.pc, new.state)
  BY DEF CopyState
<1> QED
  BY <1>2, <1>4, <1>5, <1>7, <1>8, FollowsOn

(* Nobody drives any more, and the job is not newly completed. *)
LEMMA FollowsRest ==
  ASSUME JobInv, Undriven',
         job'.state = "completed" => job'.outcome = job.outcome
                                     /\ job'.result = job.result
                                     /\ job.state = "completed"
  PROVE  Follows'
BY DEF Follows, InStage, Undriven, OutcomeFollowsReport, JobInv

(* The only driver leaves. *)
LEMMA Left ==
  ASSUME JobInv, NEW w \in Workers, Driving(w),
         run' = [run EXCEPT ![w] = Slot("idle")]
  PROVE  ~Undriven /\ Undriven'
<1>1. Slot("idle").pc = "idle"
  BY DEF Slot
<1>2. \A v \in Workers : v # w => ~Driving(v)
  BY DEF JobInv, IInv, Safe, OneDriver
<1>3. \A v \in Workers : run'[v] = IF v = w THEN Slot("idle") ELSE run[v]
  BY DEF JobInv, IInv, Typed, TypeOK
<1>4. \A v \in Workers : ~Driving(v)'
  BY <1>1, <1>2, <1>3 DEF Driving, DrivingPcs
<1> QED
  BY <1>4 DEF Undriven

(* A run that completes the job. *)
LEMMA FollowsFinish ==
  ASSUME JobInv, NEW w \in Workers, Driving(w), NEW seen \in SUBSET Statuses,
         run[w].row.state \notin TerminalStates,
         Return(w, Finished(run[w].row, seen)),
         Lifecycle!Passes(job.state, "completed")
  PROVE  Follows' /\ Maps
<1> DEFINE new == Finished(run[w].row, seen)
<1>1. run[w].row \in Rows
  BY RowOf DEF JobInv, IInv
<1>2. /\ new.state = "completed"
      /\ new.outcome = CompletionOutcome("passed" \in seen, "failed" \in seen)
      /\ new.result = [kind |-> "done", seen |-> seen]
  <2>1. Moved(run[w].row, "completed") \in Rows
    BY <1>1, MovedType DEF AllStates, TerminalStates
  <2>2. Moved(run[w].row, "completed").state = "completed"
    BY <1>1 DEF Moved, Rows
  <2> QED
    BY <2>1, <2>2 DEF Finished, Rows
<1>3. job' = Flush(run[w].row, new) /\ run' = [run EXCEPT ![w] = Slot("idle")]
  BY DEF Return
<1>4. /\ run[w].row.outcome = job.outcome /\ run[w].row.result = job.result
      /\ new.state # run[w].row.state
  BY <1>2 DEF JobInv, InStage, TerminalStates
<1>5. /\ job'.state = "completed"
      /\ job'.outcome = CompletionOutcome("passed" \in seen, "failed" \in seen)
      /\ job'.result = [kind |-> "done", seen |-> seen]
  <2> HIDE DEF new
  <2> QED
    BY <1>2, <1>3, <1>4, StoredNow
<1>6. ~Undriven /\ Undriven'
  BY <1>3, Left
<1>7. Follows'
  <2>1. InStage'
    BY <1>6 DEF InStage, Undriven
  <2>2. OutcomeFollowsReport'
    BY <1>5 DEF OutcomeFollowsReport, CompletionOutcome
  <2> QED
    BY <2>1, <2>2 DEF Follows
<1>8. Lifecycle!Finish
  BY <1>5, <1>6 DEF Lifecycle!Finish, CompletionOutcome
<1> QED
  BY <1>7, <1>8 DEF Maps, Lifecycle!Next

(* Moving a copy on leaves what it says of the outcome alone. *)
LEMMA MovedKeeps ==
  ASSUME NEW row \in Rows, NEW s \in AllStates
  PROVE  /\ Moved(row, s).state = s
         /\ Moved(row, s).outcome = row.outcome
         /\ Moved(row, s).result = row.result
BY DEF Moved, Rows

LEMMA FollowsAsk ==
  ASSUME JobInv, NEW w \in Workers,
         Plan(w) \/ Inspect(w) \/ Ask(w) \/ BrainAnswers(w)
  PROVE  Follows' /\ Maps
<1> USE DEF DrivingPcs
<1>0. /\ Driving(w) /\ job.state \notin TerminalStates
      /\ run[w].row.state \notin TerminalStates
  BY StepsLive DEF Plan, Inspect, Ask, BrainAnswers, JobInv
<1>r. run[w].row \in Rows /\ run[w] \in Slots
  BY <1>0, RowOf DEF JobInv, IInv
<1>s. /\ run[w].row.outcome = job.outcome /\ run[w].row.result = job.result
      /\ job.state \in StageOf(run[w].pc)
      /\ run[w].row.state = CopyState(run[w].pc, job.state)
  BY <1>0 DEF JobInv, InStage
<1>1. CASE Plan(w)
  <2> DEFINE new  == [Moved(run[w].row, "planning") EXCEPT !.planned = TRUE]
             slot == [run[w] EXCEPT !.pc = "planned"]
  <2>1. Moved(run[w].row, "planning") \in Rows
    BY <1>r, LiveStates, MovedType
  <2>2. /\ new \in Rows /\ new.state = "planning"
        /\ new.outcome = run[w].row.outcome /\ new.result = run[w].row.result
    <3> DEFINE moved == Moved(run[w].row, "planning")
    <3>1. /\ moved.state = "planning"
          /\ moved.outcome = run[w].row.outcome /\ moved.result = run[w].row.result
      BY <1>r, LiveStates, MovedKeeps
    <3>2. moved \in Rows /\ new = [moved EXCEPT !.planned = TRUE]
      BY <2>1
    <3> HIDE DEF moved, new
    <3> QED
      BY <3>1, <3>2 DEF Rows
  <2>3. slot \in Slots /\ slot.pc = "planned"
    BY <1>r DEF Slots
  <2>4. run[w].row.state = job.state /\ Legal(job.state, "planning")
    BY <1>1, <1>s DEF Plan, Steps, Target, CopyState
  <2>5. Lifecycle!Passes(job.state, "planning")
    BY <2>4, Passages
  <2>6. CASE Return(w, new)
    <3>1. job' = Flush(run[w].row, new) /\ run' = [run EXCEPT ![w] = Slot("idle")]
      BY <2>6 DEF Return
    <3>2. job'.state = "planning" /\ job'.outcome = job.outcome
      <4> HIDE DEF new
      <4> QED
        BY <3>1, <2>2, <2>4, <1>s, StoredNow
    <3>3. ~Undriven /\ Undriven'
      BY <3>1, <1>0, Left
    <3>4. Follows'
      BY <3>2, <3>3, FollowsRest
    <3>5. Lifecycle!Advance
      BY <3>2, <3>3, <2>5, SameTable, LiveStates DEF Lifecycle!Advance
    <3> QED
      BY <3>4, <3>5 DEF Maps, Lifecycle!Next
  <2>7. CASE Commit(w, new, slot)
    <3> HIDE DEF new, slot
    <3> QED
      BY <1>0, <2>2, <2>3, <2>5, <2>7, FollowsCommit, LiveStates DEF StageOf
  <2> QED
    BY <1>1, <2>6, <2>7 DEF Plan
<1>2. CASE Inspect(w)
  <2> DEFINE new  == Moved(run[w].row, "inspecting_workspace")
             slot == [run[w] EXCEPT !.pc = "inspected"]
  <2>1. /\ new \in Rows /\ new.state = "inspecting_workspace"
        /\ new.outcome = run[w].row.outcome /\ new.result = run[w].row.result
    BY <1>r, LiveStates, MovedType, MovedKeeps
  <2>2. slot \in Slots /\ slot.pc = "inspected"
    BY <1>r DEF Slots
  <2>3. Commit(w, new, slot)
    BY <1>2 DEF Inspect
  <2>4. Legal(job.state, "inspecting_workspace")
    BY <1>2, <1>s DEF Inspect, Steps, Target, CopyState
  <2>5. Lifecycle!Passes(job.state, "inspecting_workspace")
    BY <2>4, Passages
  <2> HIDE DEF new, slot
  <2> QED
    BY <1>0, <2>1, <2>2, <2>3, <2>5, FollowsCommit, LiveStates DEF StageOf
<1>3. CASE Ask(w)
  <2> DEFINE new  == Moved(run[w].row, "waiting_for_brain")
             slot == [run[w] EXCEPT !.pc = "asking"]
  <2>1. /\ new \in Rows /\ new.state = "waiting_for_brain"
        /\ new.outcome = run[w].row.outcome /\ new.result = run[w].row.result
    BY <1>r, LiveStates, MovedType, MovedKeeps
  <2>2. slot \in Slots /\ slot.pc = "asking"
    BY <1>r DEF Slots
  <2>3. Commit(w, new, slot)
    BY <1>3 DEF Ask
  <2>4. job.state \in {"planning", "inspecting_workspace"}
    BY <1>3, <1>s DEF Ask, Steps, StageOf
  <2>5. Lifecycle!Passes(job.state, "waiting_for_brain")
    BY <2>4, Passages
  <2> HIDE DEF new, slot
  <2> QED
    BY <1>0, <2>1, <2>2, <2>3, <2>5, FollowsCommit, LiveStates DEF StageOf
<1>4. CASE BrainAnswers(w)
  <2>1. PICK turn \in Turns :
          run' = [run EXCEPT ![w].pc = "answered", ![w].turn = turn]
    BY <1>4 DEF BrainAnswers
  <2>2. run'[w].pc = "answered" /\ run'[w].row = run[w].row
    BY <1>r, <2>1 DEF JobInv, IInv, Typed, TypeOK, Slots
  <2>3. \A v \in Workers : v # w => run'[v] = run[v]
    BY <2>1 DEF JobInv, IInv, Typed, TypeOK
  <2>4. UNCHANGED job /\ run[w].pc = "asking"
    BY <1>4 DEF BrainAnswers, Steps
  <2>5. job.state = "waiting_for_brain" /\ run[w].row.state = "waiting_for_brain"
    BY <1>s, <2>4 DEF StageOf, CopyState
  <2>6. Lifecycle!Passes(job.state, job.state)
    BY Passages DEF Legal
  <2> QED
    BY <1>0, <1>s, <2>2, <2>3, <2>4, <2>5, <2>6, FollowsOn, LiveStates
       DEF StageOf, CopyState
<1> QED
  BY <1>1, <1>2, <1>3, <1>4

LEMMA FollowsTurn ==
  ASSUME JobInv, NEW w \in Workers,
         AwaitApproval(w) \/ FinishUnchecked(w) \/ StartChecks(w) \/ Complete(w)
  PROVE  Follows' /\ Maps
<1> USE DEF DrivingPcs
<1>0. /\ Driving(w) /\ job.state \notin TerminalStates
      /\ run[w].row.state \notin TerminalStates
  BY StepsLive DEF AwaitApproval, FinishUnchecked, StartChecks, Complete, JobInv
<1>r. run[w].row \in Rows /\ run[w] \in Slots
  BY <1>0, RowOf DEF JobInv, IInv
<1>s. /\ run[w].row.outcome = job.outcome /\ run[w].row.result = job.result
      /\ job.state \in StageOf(run[w].pc)
      /\ run[w].row.state = CopyState(run[w].pc, job.state)
  BY <1>0 DEF JobInv, InStage
<1>1. CASE AwaitApproval(w)
  <2> DEFINE new == [Moved(run[w].row, "awaiting_approval") EXCEPT
                       !.result = [kind |-> "awaiting", seen |-> {}]]
  <2>0. "awaiting_approval" \in AllStates \ TerminalStates
    BY DEF AllStates, SuspendedStates, TerminalStates
  <2>1. /\ new.state = "awaiting_approval"
        /\ new.outcome = run[w].row.outcome
    <3>1. Moved(run[w].row, "awaiting_approval") \in Rows
      BY <1>r, <2>0, MovedType
    <3> QED
      BY <3>1, <1>r, <2>0, MovedKeeps DEF Rows
  <2>2. job' = Flush(run[w].row, new) /\ run' = [run EXCEPT ![w] = Slot("idle")]
    BY <1>1 DEF AwaitApproval, Return
  <2>3. job.state = "waiting_for_brain" /\ run[w].row.state = job.state
    BY <1>1, <1>s DEF AwaitApproval, Steps, StageOf, CopyState
  <2>4. job'.state = "awaiting_approval" /\ job'.outcome = job.outcome
    <3> HIDE DEF new
    <3> QED
      BY <2>1, <2>2, <2>3, <1>s, StoredNow
  <2>5. ~Undriven /\ Undriven'
    BY <2>2, <1>0, Left
  <2>6. Follows'
    BY <2>4, <2>5, FollowsRest
  <2>7. Lifecycle!Advance
    BY <2>0, <2>3, <2>4, <2>5, SameTable, Passages DEF Lifecycle!Advance
  <2> QED
    BY <2>6, <2>7 DEF Maps, Lifecycle!Next
<1>2. CASE FinishUnchecked(w)
  <2>1. job.state = "waiting_for_brain"
    BY <1>2, <1>s DEF FinishUnchecked, Steps, StageOf
  <2>2. Lifecycle!Passes(job.state, "completed")
    BY <2>1, Passages
  <2>3. Return(w, Finished(run[w].row, {}))
    BY <1>2 DEF FinishUnchecked
  <2> QED
    BY <1>0, <2>2, <2>3, FollowsFinish
<1>3. CASE Complete(w)
  <2>1. job.state = run[w].row.state /\ Legal(run[w].row.state, "completed")
    BY <1>3, <1>s DEF Complete, Steps, Target, CopyState
  <2>2. Lifecycle!Passes(job.state, "completed")
    BY <2>1, Passages
  <2>3. run[w].seen \in SUBSET Statuses
    BY <1>r DEF Slots
  <2>4. Return(w, Finished(run[w].row, run[w].seen))
    BY <1>3 DEF Complete
  <2> QED
    BY <1>0, <2>2, <2>3, <2>4, FollowsFinish
<1>4. CASE StartChecks(w)
  <2>0. job.state = "waiting_for_brain"
    BY <1>4, <1>s DEF StartChecks, Steps, StageOf
  <2>1. PICK plans \in PlanLists :
          \/ /\ run' = [run EXCEPT ![w].pc = "checking", ![w].plans = plans,
                                  ![w].row.state = "writing_files"]
             /\ UNCHANGED job
          \/ Commit(w, Moved(run[w].row, "verifying"),
                    [run[w] EXCEPT !.pc = "verified"])
    BY <1>4 DEF StartChecks
  <2>2. CASE /\ run' = [run EXCEPT ![w].pc = "checking", ![w].plans = plans,
                                   ![w].row.state = "writing_files"]
             /\ UNCHANGED job
    <3>1. /\ run'[w].pc = "checking" /\ run'[w].row.state = "writing_files"
          /\ run'[w].row.outcome = run[w].row.outcome
          /\ run'[w].row.result = run[w].row.result
      BY <1>r, <2>2 DEF JobInv, IInv, Typed, TypeOK, Slots, Rows
    <3>2. \A v \in Workers : v # w => run'[v] = run[v]
      BY <2>2 DEF JobInv, IInv, Typed, TypeOK
    <3>3. Lifecycle!Passes(job.state, job.state)
      BY Passages DEF Legal
    <3> QED
      BY <1>0, <1>s, <2>0, <2>2, <3>1, <3>2, <3>3, FollowsOn, LiveStates
         DEF StageOf, CopyState
  <2>3. CASE Commit(w, Moved(run[w].row, "verifying"),
                    [run[w] EXCEPT !.pc = "verified"])
    <3> DEFINE new  == Moved(run[w].row, "verifying")
               slot == [run[w] EXCEPT !.pc = "verified"]
    <3>1. /\ new \in Rows /\ new.state = "verifying"
          /\ new.outcome = run[w].row.outcome /\ new.result = run[w].row.result
      BY <1>r, LiveStates, MovedType, MovedKeeps
    <3>2. slot \in Slots /\ slot.pc = "verified"
      BY <1>r DEF Slots
    <3>3. Commit(w, new, slot)
      BY <2>3
    <3>4. Lifecycle!Passes(job.state, "verifying")
      BY <2>0, Passages
    <3> HIDE DEF new, slot
    <3> QED
      BY <1>0, <3>1, <3>2, <3>3, <3>4, FollowsCommit, LiveStates DEF StageOf
  <2> QED
    BY <2>1, <2>2, <2>3
<1> QED
  BY <1>1, <1>2, <1>3, <1>4

LEMMA FollowsCheck ==
  ASSUME JobInv, NEW w \in Workers,
         RunCheck(w) \/ CommandEnds(w) \/ Rerun(w) \/ Summarize(w)
  PROVE  Follows' /\ Maps
<1> USE DEF DrivingPcs
<1>0. /\ Driving(w) /\ job.state \notin TerminalStates
      /\ run[w].row.state \notin TerminalStates
  BY StepsLive DEF RunCheck, CommandEnds, Rerun, Summarize, JobInv
<1>r. run[w].row \in Rows /\ run[w] \in Slots
  BY <1>0, RowOf DEF JobInv, IInv
<1>s. /\ run[w].row.outcome = job.outcome /\ run[w].row.result = job.result
      /\ job.state \in StageOf(run[w].pc)
      /\ run[w].row.state = CopyState(run[w].pc, job.state)
  BY <1>0 DEF JobInv, InStage
<1> DEFINE target == Running(Head(run[w].plans))
           next   == Moved(run[w].row, target)
<1>t. target \in {"running_tests", "running_command"}
  BY DEF Running
<1>n. /\ next \in Rows /\ next.state = target
      /\ next.outcome = run[w].row.outcome /\ next.result = run[w].row.result
  <2>1. target \in AllStates
    BY LiveStates
  <2> HIDE DEF target
  <2> QED
    BY <1>r, <2>1, MovedType, MovedKeeps
<1>l. Legal(run[w].row.state, target) => Lifecycle!Passes(job.state, target)
  <2>1. CASE job.state = run[w].row.state
    BY <2>1, Passages
  <2>2. CASE job.state = "waiting_for_brain"
    BY <2>2, <1>t, Passages
  <2> QED
    BY <2>1, <2>2, <1>s DEF CopyState
<1>a. target \in AllStates \ TerminalStates
  BY LiveStates
<1>1. CASE RunCheck(w)
  <2> DEFINE denied == [run[w] EXCEPT !.plans = Tail(@), !.seen = @ \cup {"denied"}]
             begun  == [run[w] EXCEPT !.pc = "executing", !.tries = 1]
  <2>1. run[w].plans # <<>> /\ run[w].pc = "checking"
    BY <1>1 DEF RunCheck, Steps
  <2>2. denied \in Slots /\ denied.pc = "checking"
    <3>1. denied \in Slots
      BY <1>r, <2>1, NextPlan DEF Statuses
    <3>2. denied.pc = run[w].pc
      BY <1>r DEF Slots
    <3> QED
      BY <3>1, <3>2, <2>1
  <2>3. begun \in Slots /\ begun.pc = "executing"
    BY <1>r DEF Slots
  <2>4. Commit(w, next, denied) \/ Commit(w, next, begun)
    BY <1>1 DEF RunCheck
  <2>5. Legal(run[w].row.state, target)
    BY <1>1 DEF RunCheck, Steps, Target
  <2> HIDE DEF next, denied, begun, target
  <2>6. /\ target \in StageOf("checking") /\ target \in StageOf("executing")
        /\ target # "waiting_for_brain" /\ target # "writing_files"
    BY <1>t DEF StageOf
  <2>7. Lifecycle!Passes(job.state, target)
    BY <2>5, <1>l
  <2>8. CASE Commit(w, next, denied)
    BY <1>0, <1>n, <1>a, <2>2, <2>6, <2>7, <2>8, FollowsCommit
  <2>9. CASE Commit(w, next, begun)
    BY <1>0, <1>n, <1>a, <2>3, <2>6, <2>7, <2>9, FollowsCommit
  <2> QED
    BY <2>4, <2>8, <2>9
<1>2. CASE CommandEnds(w)
  <2>0. /\ run[w].pc = "executing"
        /\ job.state \in {"running_tests", "running_command"}
        /\ run[w].row.state = job.state
    BY <1>2, <1>s DEF CommandEnds, Steps, StageOf, CopyState
  <2>1. PICK status \in Statuses :
          \/ Commit(w, Moved(run[w].row, "debugging"),
                    [run[w] EXCEPT !.pc = "debugging"])
          \/ /\ run' = [run EXCEPT ![w].pc = "checking", ![w].plans = Tail(@),
                                  ![w].seen = @ \cup {status}]
             /\ UNCHANGED job
    BY <1>2 DEF CommandEnds
  <2>2. CASE Commit(w, Moved(run[w].row, "debugging"),
                    [run[w] EXCEPT !.pc = "debugging"])
    <3> DEFINE new  == Moved(run[w].row, "debugging")
               slot == [run[w] EXCEPT !.pc = "debugging"]
    <3>1. /\ new \in Rows /\ new.state = "debugging"
          /\ new.outcome = run[w].row.outcome /\ new.result = run[w].row.result
      BY <1>r, LiveStates, MovedType, MovedKeeps
    <3>2. slot \in Slots /\ slot.pc = "debugging"
      BY <1>r DEF Slots
    <3>3. Commit(w, new, slot)
      BY <2>2
    <3>4. Legal(job.state, "debugging")
      BY <2>0 DEF Legal, CanTransition, Forward, AllStates, ActiveStates,
                  SuspendedStates, TerminalStates
    <3>5. Lifecycle!Passes(job.state, "debugging")
      BY <3>4, Passages
    <3> HIDE DEF new, slot
    <3> QED
      BY <1>0, <3>1, <3>2, <3>3, <3>5, FollowsCommit, LiveStates DEF StageOf
  <2>3. CASE /\ run' = [run EXCEPT ![w].pc = "checking", ![w].plans = Tail(@),
                                  ![w].seen = @ \cup {status}]
             /\ UNCHANGED job
    <3>1. run'[w].pc = "checking" /\ run'[w].row = run[w].row
      BY <1>r, <2>3 DEF JobInv, IInv, Typed, TypeOK, Slots
    <3>2. \A v \in Workers : v # w => run'[v] = run[v]
      BY <2>3 DEF JobInv, IInv, Typed, TypeOK
    <3>3. Lifecycle!Passes(job.state, job.state)
      BY Passages DEF Legal
    <3>4. job.state \in AllStates \ TerminalStates
      BY <1>0 DEF JobInv, IInv, Typed, TypeOK, Rows
    <3>5. /\ job.state \in StageOf("checking")
          /\ job.state = CopyState("checking", job.state)
      BY <2>0 DEF StageOf, CopyState
    <3> QED
      BY <1>0, <1>s, <2>0, <2>3, <3>1, <3>2, <3>3, <3>4, <3>5, FollowsOn
  <2> QED
    BY <2>1, <2>2, <2>3
<1>3. CASE Rerun(w)
  <2> DEFINE tries == run[w].tries + 1
             begun == [run[w] EXCEPT !.pc = "executing", !.tries = tries]
  <2>1. tries \in Nat
    BY <1>r DEF Slots
  <2>2. begun \in Slots /\ begun.pc = "executing"
    <3> HIDE DEF tries
    <3> QED
      BY <1>r, <2>1 DEF Slots
  <2>3. Commit(w, next, begun)
    BY <1>3 DEF Rerun
  <2>4. Legal(run[w].row.state, target)
    BY <1>3 DEF Rerun, Steps, Target
  <2>5. Lifecycle!Passes(job.state, target)
    BY <2>4, <1>l
  <2>6. target \in StageOf("executing") /\ target # "writing_files"
    BY <1>t DEF StageOf
  <2> HIDE DEF next, begun, target
  <2> QED
    BY <1>0, <1>n, <1>a, <2>2, <2>3, <2>5, <2>6, FollowsCommit
<1>4. CASE Summarize(w)
  <2> DEFINE new  == Moved(run[w].row, "verifying")
             slot == [run[w] EXCEPT !.pc = "verified"]
  <2>1. /\ new \in Rows /\ new.state = "verifying"
        /\ new.outcome = run[w].row.outcome /\ new.result = run[w].row.result
    BY <1>r, LiveStates, MovedType, MovedKeeps
  <2>2. slot \in Slots /\ slot.pc = "verified"
    BY <1>r DEF Slots
  <2>3. Commit(w, new, slot)
    BY <1>4 DEF Summarize
  <2>4. Legal(run[w].row.state, "verifying")
    BY <1>4 DEF Summarize, Steps, Target
  <2>5. Lifecycle!Passes(job.state, "verifying")
    <3>1. CASE job.state = run[w].row.state
      BY <3>1, <2>4, Passages
    <3>2. CASE job.state = "waiting_for_brain"
      BY <3>2, Passages
    <3> QED
      BY <3>1, <3>2, <1>s DEF CopyState
  <2> HIDE DEF new, slot
  <2> QED
    BY <1>0, <2>1, <2>2, <2>3, <2>5, FollowsCommit, LiveStates DEF StageOf
<1> QED
  BY <1>1, <1>2, <1>3, <1>4

(* Taking the job, and giving it up after an exception. *)
LEMMA FollowsClaim ==
  ASSUME JobInv, NEW w \in Workers, Claim(w) \/ Raise(w)
  PROVE  Follows' /\ Maps
<1>1. CASE Claim(w) /\ Inline /\ job.lease # "held"
  <2>1. /\ job' = [job EXCEPT !.lease = "held", !.attempt = @ + 1]
        /\ run' = [run EXCEPT ![w].pc = "claimed", ![w].row = job']
    BY <1>1 DEF Claim
  <2>2. Undriven
    BY <1>1 DEF Undriven, JobInv, IInv, Safe, Leased
  <2>3. \A v \in Workers : v # w => run'[v] = run[v]
    BY <2>1 DEF JobInv, IInv, Typed, TypeOK
  <2>4. run'[w].pc = "claimed" /\ run'[w].row = job'
    BY <2>1 DEF JobInv, IInv, Typed, TypeOK, Slots
  <2>5. /\ job'.state = job.state /\ job'.outcome = job.outcome
        /\ job'.result = job.result /\ job'.state \in AllStates
    BY <2>1 DEF JobInv, IInv, Typed, TypeOK, Rows
  <2>6. \A v \in Workers : Driving(v)' => v = w
    BY <2>2, <2>3 DEF Undriven, Driving
  <2>7. InStage'
    BY <2>4, <2>5, <2>6 DEF InStage, StageOf, CopyState
  <2>8. OutcomeFollowsReport'
    BY <2>5 DEF JobInv, OutcomeFollowsReport
  <2>9. ~Undriven'
    BY <2>4 DEF Undriven, Driving, DrivingPcs
  <2>10. Lifecycle!Take
    BY <2>2, <2>5, <2>9 DEF Lifecycle!Take
  <2> QED
    BY <2>7, <2>8, <2>10 DEF Follows, Maps, Lifecycle!Next
<1>2. CASE Claim(w) /\ ~(Inline /\ job.lease # "held")
  <2>1. /\ run' = [run EXCEPT ![w] = Slot("idle")]
        /\ UNCHANGED job /\ run[w].pc = "spawned"
    BY <1>2 DEF Claim
  <2>2. Slot("idle").pc = "idle"
    BY DEF Slot
  <2>3. \A v \in Workers : v # w => run'[v] = run[v]
    BY <2>1 DEF JobInv, IInv, Typed, TypeOK
  <2>4. run'[w].pc = "idle"
    BY <2>1, <2>2 DEF JobInv, IInv, Typed, TypeOK
  <2>5. /\ ~Driving(w) /\ ~Driving(w)'
        /\ \A v \in Workers : v # w => (Driving(v)' <=> Driving(v))
    BY <2>1, <2>3, <2>4 DEF Driving, DrivingPcs
  <2>6. Undriven' <=> Undriven
    BY <2>5 DEF Undriven
  <2>7. InStage'
    BY <2>1, <2>3, <2>5 DEF JobInv, InStage
  <2>8. OutcomeFollowsReport'
    BY <2>1 DEF JobInv, OutcomeFollowsReport
  <2> QED
    BY <2>1, <2>6, <2>7, <2>8 DEF Follows, Maps, Lifecycle!vars
<1>3. CASE Raise(w)
  <2>1. /\ Driving(w) /\ run' = [run EXCEPT ![w] = Slot("idle")]
        /\ job' = IF job.state \in TerminalStates THEN job
                  ELSE Moved(job, "failed")
    BY <1>3 DEF Raise
  <2>2. ~Undriven /\ Undriven'
    BY <2>1, Left
  <2>3. /\ job'.outcome = job.outcome
        /\ job'.state = IF job.state \in TerminalStates THEN job.state ELSE "failed"
    <3>1. job \in Rows /\ "failed" \in AllStates
      BY DEF JobInv, IInv, Typed, TypeOK, AllStates, TerminalStates
    <3> QED
      BY <2>1, <3>1, MovedKeeps
  <2>4. Follows'
    BY <2>1, <2>2, <2>3, FollowsRest DEF TerminalStates
  <2>5. Lifecycle!Fail
    BY <2>2, <2>3, SameTable DEF Lifecycle!Fail
  <2> QED
    BY <2>4, <2>5 DEF Maps, Lifecycle!Next
<1> QED
  BY <1>1, <1>2, <1>3

(* A step that changes neither the row nor who is driving it. *)
LEMMA FollowsStill ==
  ASSUME JobInv,
         \A v \in Workers : Driving(v)' => Driving(v) /\ run'[v] = run[v],
         Undriven' => Undriven,
         job'.state = job.state, job'.outcome = job.outcome,
         job'.result = job.result
  PROVE  Follows' /\ Maps
<1>1. InStage'
  BY DEF JobInv, InStage
<1>2. OutcomeFollowsReport'
  BY DEF JobInv, OutcomeFollowsReport
<1>3. Undriven' <=> Undriven
  BY DEF Undriven
<1> QED
  BY <1>1, <1>2, <1>3 DEF Follows, Maps, Lifecycle!vars

LEMMA FollowsSpawn ==
  ASSUME JobInv, NEW w \in Workers, Spawn(w)
  PROVE  /\ \A v \in Workers : Driving(v)' => Driving(v) /\ run'[v] = run[v]
         /\ Undriven <=> Undriven'
<1>1. CASE run' = run
  BY <1>1 DEF Undriven, Driving
<1>2. CASE run[w].pc = "idle" /\ run' = [run EXCEPT ![w] = Slot("spawned")]
  <2>1. Slot("spawned").pc = "spawned"
    BY DEF Slot
  <2>2. \A v \in Workers : run'[v] = IF v = w THEN Slot("spawned") ELSE run[v]
    BY <1>2 DEF JobInv, IInv, Typed, TypeOK
  <2>3. ~Driving(w) /\ ~Driving(w)'
    BY <1>2, <2>1, <2>2 DEF Driving, DrivingPcs
  <2> QED
    BY <2>2, <2>3 DEF Undriven, Driving
<1> QED
  BY <1>1, <1>2 DEF Spawn

LEMMA FollowsRequest ==
  ASSUME JobInv, Undisturbed, NEW w \in Workers, Request(w)
  PROVE  Follows' /\ Maps
<1>1. CASE PostAgain(w) \/ Resume(w)
  <2>1. Spawn(w) /\ UNCHANGED job
    BY <1>1 DEF PostAgain, Resume
  <2> QED
    BY <2>1, FollowsSpawn, FollowsStill
<1>2. CASE CancelRead(w)
  BY <1>2, FollowsStill DEF CancelRead, Driving, Undriven
<1>3. CASE CancelCommit(w)
  <2> DEFINE new == [Moved(canc[w], "cancelled") EXCEPT !.cancel = TRUE]
  <2>1. Undriven /\ canc[w] = job /\ canc[w] # NoRow
    BY <1>3 DEF CancelCommit, MayCancel, Undisturbed
  <2>2. job \in Rows /\ job.state \notin TerminalStates
    BY <2>1 DEF JobInv, IInv, Typed, TypeOK, Safe, Fresh
  <2>3. /\ new.state = "cancelled" /\ new.outcome = job.outcome
        /\ new.result = job.result
    <3> DEFINE moved == Moved(job, "cancelled")
    <3>1. "cancelled" \in AllStates
      BY DEF AllStates, TerminalStates
    <3>2. moved \in Rows /\ moved.state = "cancelled"
      BY <2>2, <3>1, MovedType, MovedKeeps
    <3>3. moved.outcome = job.outcome /\ moved.result = job.result
      BY <2>2, <3>1, MovedKeeps
    <3>4. new = [moved EXCEPT !.cancel = TRUE]
      BY <2>1
    <3> HIDE DEF moved, new
    <3> QED
      BY <3>2, <3>3, <3>4 DEF Rows
  <2>4. job' = Flush(canc[w], new)
    BY <1>3 DEF CancelCommit
  <2>5. job'.state = "cancelled" /\ job'.outcome = job.outcome
    <3> HIDE DEF new
    <3> QED
      BY <2>1, <2>3, <2>4, StoredNow
  <2>6. Slot("idle").pc = "idle"
    BY DEF Slot
  <2>7. \A v \in Workers : run'[v] = run[v] \/ run'[v].pc = "idle"
    BY <1>3, <2>6 DEF CancelCommit, JobInv, IInv, Typed, TypeOK
  <2>8. Undriven'
    BY <2>1, <2>7 DEF Undriven, Driving, DrivingPcs
  <2>9. Follows'
    BY <2>5, <2>8, FollowsRest
  <2>10. Lifecycle!Cancel
    BY <2>1, <2>2, <2>5, <2>8, SameTable DEF Lifecycle!Cancel
  <2> QED
    BY <2>9, <2>10 DEF Maps, Lifecycle!Next
<1>4. CASE Retry(w)
  <2>1. Undriven /\ Spawn(w)
    BY <1>4 DEF Retry, MayRetry, Undisturbed
  <2>2. Undriven'
    BY <2>1, FollowsSpawn
  <2>3. job'.state = "queued" /\ job'.outcome = job.outcome
    BY <1>4 DEF Retry, JobInv, IInv, Typed, TypeOK, Rows
  <2>4. Follows'
    BY <2>2, <2>3, FollowsRest
  <2>5. Lifecycle!Requeue
    BY <2>1, <2>2, <2>3 DEF Lifecycle!Requeue
  <2> QED
    BY <2>4, <2>5 DEF Maps, Lifecycle!Next
<1> QED
  BY <1>1, <1>2, <1>3, <1>4 DEF Request

LEMMA FollowsProcess ==
  ASSUME JobInv, Undisturbed,
         LeaseLapses \/ \E w \in Workers : Crash(w) \/ Shutdown(w) \/ Start(w)
  PROVE  Follows' /\ Maps
<1>1. CASE LeaseLapses
  <2>1. /\ job'.state = job.state /\ job'.outcome = job.outcome
        /\ job'.result = job.result /\ UNCHANGED run
    BY <1>1 DEF LeaseLapses, JobInv, IInv, Typed, TypeOK, Rows
  <2> QED
    BY <2>1, FollowsStill DEF Driving, Undriven
<1>2. ASSUME NEW w \in Workers, Crash(w) \/ Shutdown(w) PROVE Follows' /\ Maps
  <2>1. Slot("idle").pc = "idle"
    BY DEF Slot
  <2>2. /\ run'[w].pc = "idle" /\ UNCHANGED job
        /\ \A v \in Workers : v # w => run'[v] = run[v]
    BY <1>2, <2>1, ShutdownIdle DEF Crash, JobInv, IInv, Typed, TypeOK
  <2>3. ~Driving(w)'
    BY <2>2 DEF Driving, DrivingPcs
  <2>4. \A v \in Workers : Driving(v)' => Driving(v) /\ run'[v] = run[v]
    BY <2>2, <2>3 DEF Driving
  <2>5. CASE Driving(w)
    <3>1. ~Undriven /\ Undriven'
      BY <2>5, <1>2, Left, ShutdownIdle DEF Crash, JobInv
    <3>2. Follows'
      BY <2>2, <3>1, FollowsRest
    <3>3. Lifecycle!Die
      BY <2>2, <3>1 DEF Lifecycle!Die
    <3> QED
      BY <3>2, <3>3 DEF Maps, Lifecycle!Next
  <2>6. CASE ~Driving(w)
    <3>1. Undriven' => Undriven
      BY <2>2, <2>6 DEF Undriven, Driving
    <3> QED
      BY <2>2, <2>4, <3>1, FollowsStill
  <2> QED
    BY <2>5, <2>6
<1>3. ASSUME NEW w \in Workers, Start(w) PROVE Follows' /\ Maps
  <2>1. UNCHANGED job /\ (Spawn(w) \/ UNCHANGED run)
    BY <1>3 DEF Start
  <2>2. CASE Spawn(w)
    BY <2>1, <2>2, FollowsSpawn, FollowsStill
  <2>3. CASE UNCHANGED run
    BY <2>1, <2>3, FollowsStill DEF Driving, Undriven
  <2> QED
    BY <2>1, <2>2, <2>3
<1> QED
  BY <1>1, <1>2, <1>3

LEMMA JobInit == Init => JobInv /\ Lifecycle!Init
<1> SUFFICES ASSUME Init PROVE JobInv /\ Lifecycle!Init
  OBVIOUS
<1>1. IInv
  BY SafeInit
<1>2. job.state = "queued" /\ job.outcome = "none"
  BY DEF Init, NewRow
<1>3. PICK w \in Workers :
        run = [v \in Workers |-> Slot(IF v = w THEN "spawned" ELSE "idle")]
  BY DEF Init
<1>4. \A v \in Workers : run[v].pc \in {"spawned", "idle"}
  <2>1. Slot("spawned").pc = "spawned" /\ Slot("idle").pc = "idle"
    BY DEF Slot
  <2> QED
    BY <1>3, <2>1
<1>5. Undriven
  BY <1>4 DEF Undriven, Driving, DrivingPcs
<1>6. InStage /\ OutcomeFollowsReport
  BY <1>2, <1>5 DEF InStage, Undriven, OutcomeFollowsReport
<1> QED
  BY <1>1, <1>2, <1>5, <1>6 DEF JobInv, Lifecycle!Init

LEMMA JobNext == JobInv /\ Undisturbed /\ [Next]_vars => JobInv' /\ Maps
<1> SUFFICES ASSUME JobInv, Undisturbed, [Next]_vars PROVE JobInv' /\ Maps
  OBVIOUS
<1>1. IInv'
  BY SafeNext DEF JobInv
<1>2. ASSUME NEW w \in Workers, RunnerStep(w) PROVE Follows' /\ Maps
  BY <1>2, FollowsAsk, FollowsTurn, FollowsCheck, FollowsClaim DEF RunnerStep
<1>3. ASSUME UNCHANGED vars PROVE Follows' /\ Maps
  BY <1>3, FollowsStill DEF vars, Driving, Undriven
<1>4. ASSUME NEW w \in Workers, Claim(w) PROVE Follows' /\ Maps
  BY <1>4, FollowsClaim
<1>5. ASSUME NEW w \in Workers, Request(w) PROVE Follows' /\ Maps
  BY <1>5, FollowsRequest
<1>6. ASSUME NEW w \in Workers, Crash(w) \/ Shutdown(w) \/ Start(w)
      PROVE  Follows' /\ Maps
  BY <1>6, FollowsProcess
<1>7. ASSUME LeaseLapses PROVE Follows' /\ Maps
  BY <1>7, FollowsProcess
<1>8. Follows' /\ Maps
  BY <1>2, <1>3, <1>4, <1>5, <1>6, <1>7 DEF Next
<1> QED
  BY <1>1, <1>8 DEF JobInv, Follows

LEMMA JobAlways == ASSUME Undisturbed PROVE Spec => []JobInv
<1>1. JobInv /\ [Next]_vars => JobInv'
  BY JobNext
<1>2. Init => JobInv
  BY JobInit
<1> QED
  BY <1>1, <1>2, PTL DEF Spec

(* The outcome of a completed job is the one its stored report supports,      *)
(* although a commit writes only the columns that changed: after a retry the  *)
(* new run finds the outcome and the result of the old one in its copy, and   *)
(* storing the same values again writes nothing.                              *)
THEOREM OutcomeReported == ASSUME Undisturbed PROVE Spec => []OutcomeFollowsReport
<1>1. JobInv => OutcomeFollowsReport
  BY DEF JobInv
<1> QED
  BY <1>1, JobAlways, PTL

(* The row, its runners, its requests and the processes implement the         *)
(* lifecycle a client relies on: one job, driven by at most one runner, which *)
(* passes only through stages that the table of transitions allows.           *)
THEOREM ImplementsLifecycle == ASSUME Undisturbed PROVE Spec => LifecycleKept
<1>1. Init => Lifecycle!Init
  BY JobInit
<1>2. JobInv /\ [Next]_vars => [Lifecycle!Next]_(Lifecycle!vars)
  BY JobNext DEF Maps
<1> QED
  BY <1>1, <1>2, JobAlways, PTL DEF Spec, LifecycleKept, Lifecycle!Spec

(* An outcome is stored by the commit that completes the job and by no other, *)
(* whatever is cancelled, retried or resumed meanwhile: no reader finds an    *)
(* outcome that was changed by a run which has not completed.                 *)
THEOREM OutcomeStoredAtEnd == ASSUME Undisturbed PROVE Spec => OutcomeAtCompletion
<1> DEFINE AtEnd == job'.outcome # job.outcome => job'.state = "completed"
<1>1. ASSUME JobInv, [Next]_vars PROVE [AtEnd]_vars
  <2>1. Maps
    BY <1>1, JobNext
  <2> QED
    BY <2>1 DEF Maps, Lifecycle!vars, Lifecycle!Next, Lifecycle!Take,
                Lifecycle!Advance, Lifecycle!Finish, Lifecycle!Fail,
                Lifecycle!Die, Lifecycle!Cancel, Lifecycle!Requeue
<1> QED
  BY <1>1, JobAlways, PTL DEF Spec, OutcomeAtCompletion

-----------------------------------------------------------------------------
(* A job that waits for the operator.  A request may have it claimed again    *)
(* once its lease is over, but the runner that claims it is at the place      *)
(* where only planning follows, and a waiting job may not go there.           *)
LEMMA WaitingRaises ==
  ASSUME JobInv, NEW w \in Workers, RunnerStep(w), job.state = "awaiting_approval"
  PROVE  Raise(w)
<1>1. ASSUME NEW pc \in DrivingPcs, Steps(w, pc) PROVE FALSE
  <2>1. Driving(w) /\ run[w].pc = pc /\ Legal(run[w].row.state, Target(w))
    BY <1>1 DEF Steps, Driving
  <2>2. /\ job.state \in StageOf(pc)
        /\ run[w].row.state = CopyState(pc, job.state)
    BY <2>1 DEF JobInv, InStage
  <2>3. pc = "claimed"
    BY <2>2 DEF StageOf, DrivingPcs
  <2>4. run[w].row.state = "awaiting_approval" /\ Target(w) = "planning"
    BY <2>1, <2>2, <2>3 DEF CopyState, Target
  <2>5. ~Legal("awaiting_approval", "planning")
    BY DEF Legal, CanTransition, Forward, AllStates, ActiveStates,
           SuspendedStates, TerminalStates
  <2> QED
    BY <2>1, <2>4, <2>5
<1> QED
  BY <1>1 DEF RunnerStep, Plan, Inspect, Ask, BrainAnswers, AwaitApproval,
              FinishUnchecked, StartChecks, RunCheck, CommandEnds, Rerun,
              Summarize, Complete, DrivingPcs

(* While nobody drives it, a cancel finds the row as it read it. *)
LEMMA CancelStores ==
  ASSUME IInv, Undisturbed, NEW w \in Workers, CancelCommit(w)
  PROVE  job'.state = "cancelled" /\ job'.planned = job.planned
<1> DEFINE moved == Moved(job, "cancelled")
           new   == [moved EXCEPT !.cancel = TRUE]
<1>1. canc[w] = job
  BY DEF CancelCommit, MayCancel, Undisturbed
<1>2. "cancelled" \in AllStates /\ job \in Rows
  BY DEF AllStates, TerminalStates, IInv, Typed, TypeOK
<1>3. moved \in Rows /\ moved.state = "cancelled" /\ moved.planned = job.planned
  BY <1>2, MovedType, MovedKeeps DEF Moved, Rows
<1>4. new.state = "cancelled" /\ new.planned = job.planned
  <2> HIDE DEF moved
  <2> QED
    BY <1>3 DEF Rows
<1>5. job' = Flush(job, new)
  BY <1>1 DEF CancelCommit
<1> HIDE DEF new
<1> QED
  BY <1>4, <1>5 DEF Flush, Column

(* A job that waits for the operator's decision is never carried on, however  *)
(* it is posted again, resumed, recovered or left until its lease lapses:     *)
(* what ends the wait is a cancel, a retry, or the failure of the run that    *)
(* took the job up.                                                           *)
THEOREM ApprovalKept == ASSUME Undisturbed PROVE Spec => ApprovalIsKept
<1> DEFINE Ends == {"awaiting_approval", "cancelled", "queued", "failed"}
           Kept == job.state = "awaiting_approval" => job'.state \in Ends
<1>1. ASSUME JobInv, Next, job.state = "awaiting_approval"
      PROVE  job'.state \in Ends
  <2>r. job \in Rows /\ IInv
    BY <1>1 DEF JobInv, IInv, Typed, TypeOK
  <2>1. ASSUME NEW w \in Workers, RunnerStep(w) PROVE job'.state = "failed"
    <3>1. Raise(w)
      BY <1>1, <2>1, WaitingRaises
    <3>2. job' = Moved(job, "failed")
      BY <1>1, <3>1 DEF Raise, TerminalStates
    <3> QED
      BY <2>r, <3>2, MovedKeeps DEF AllStates, TerminalStates
  <2>2. ASSUME NEW w \in Workers, Request(w) PROVE job'.state \in Ends
    <3>1. CASE CancelCommit(w)
      BY <2>r, <3>1, CancelStores
    <3>2. CASE Retry(w)
      BY <2>r, <3>2 DEF Retry, Rows
    <3> QED
      BY <1>1, <2>2, <3>1, <3>2 DEF Request, PostAgain, CancelRead, Resume
  <2>3. ASSUME NEW w \in Workers, Claim(w) \/ Crash(w) \/ Shutdown(w) \/ Start(w)
        PROVE  job'.state = job.state
    BY <2>r, <2>3, ShutdownIdle DEF Claim, Crash, Start, Rows
  <2>4. CASE LeaseLapses
    BY <1>1, <2>r, <2>4 DEF LeaseLapses, Rows
  <2> QED
    BY <1>1, <2>1, <2>2, <2>3, <2>4 DEF Next
<1>2. JobInv /\ [Next]_vars => [Kept]_vars
  BY <1>1
<1> QED
  BY <1>2, JobAlways, PTL DEF Spec, ApprovalIsKept

-----------------------------------------------------------------------------
(* A run that is the only one the job ever has. *)

(* The job is not claimed again by a request that restarts it. *)
NeverRestarted == MaxClaims <= 1

LEMMA AttemptKept ==
  ASSUME IInv, NEW w \in Workers, RunnerStep(w)
  PROVE  Driving(w) /\ job'.attempt = job.attempt
<1>1. Driving(w)
  BY DEF RunnerStep, Plan, Inspect, Ask, BrainAnswers, AwaitApproval,
         FinishUnchecked, StartChecks, RunCheck, CommandEnds, Rerun, Summarize,
         Complete, Raise, Steps, Driving, DrivingPcs
<1>2. CASE Raise(w)
  BY <1>2 DEF Raise, Moved, IInv, Typed, TypeOK, Rows
<1>3. ASSUME NEW old, NEW new, job' = Flush(old, new)
      PROVE  job'.attempt = job.attempt
  BY <1>3 DEF Flush
<1>4. CASE Plan(w) \/ Inspect(w) \/ Ask(w) \/ BrainAnswers(w)
  BY <1>1, <1>3, <1>4 DEF Plan, Inspect, Ask, BrainAnswers, Commit, Return
<1>5. CASE AwaitApproval(w) \/ FinishUnchecked(w) \/ Complete(w)
  BY <1>1, <1>3, <1>5 DEF AwaitApproval, FinishUnchecked, Complete, Return
<1>6. CASE StartChecks(w)
  BY <1>1, <1>3, <1>6 DEF StartChecks, Commit
<1>7. CASE RunCheck(w) \/ CommandEnds(w) \/ Rerun(w) \/ Summarize(w)
  BY <1>1, <1>3, <1>7 DEF RunCheck, CommandEnds, Rerun, Summarize, Commit
<1> QED
  BY <1>1, <1>2, <1>4, <1>5, <1>6, <1>7 DEF RunnerStep

(* The lease of a job that is driven is kept until the job is terminal. *)
LEMMA LeaseKept ==
  ASSUME JobInv, NEW w \in Workers, RunnerStep(w), job'.state \notin TerminalStates
  PROVE  job'.lease = "held"
<1>0. Driving(w)
  BY AttemptKept DEF JobInv
<1>r. run[w].row \in Rows /\ job.lease = "held"
  BY <1>0, RowOf DEF JobInv, IInv, Safe, Leased
<1>1. ASSUME NEW new, new.lease = run[w].row.lease, job' = Flush(run[w].row, new)
      PROVE  job'.lease = "held"
  BY <1>r, <1>1 DEF Flush, Column
<1>2. ASSUME NEW s \in AllStates \ TerminalStates, NEW slot,
             Commit(w, Moved(run[w].row, s), slot)
      PROVE  job'.lease = "held"
  <2>1. Moved(run[w].row, s).lease = run[w].row.lease
    BY <1>r, MovedOn
  <2> QED
    BY <1>1, <1>2, <2>1 DEF Commit
<1>3. CASE Plan(w)
  <2> DEFINE moved == Moved(run[w].row, "planning")
             new   == [moved EXCEPT !.planned = TRUE]
  <2>1. moved \in Rows /\ moved.lease = run[w].row.lease
    BY <1>r, LiveStates, MovedOn, MovedType
  <2>2. new.lease = run[w].row.lease
    <3> HIDE DEF moved
    <3> QED
      BY <2>1 DEF Rows
  <2>3. job' = Flush(run[w].row, new)
    BY <1>3 DEF Plan, Commit, Return
  <2> HIDE DEF new
  <2> QED
    BY <1>1, <2>2, <2>3
<1>4. CASE AwaitApproval(w)
  <2> DEFINE moved == Moved(run[w].row, "awaiting_approval")
             new   == [moved EXCEPT !.result = [kind |-> "awaiting", seen |-> {}]]
  <2>1. "awaiting_approval" \in AllStates \ TerminalStates
    BY DEF AllStates, SuspendedStates, TerminalStates
  <2>2. moved \in Rows /\ moved.lease = run[w].row.lease
    BY <1>r, <2>1, MovedOn, MovedType
  <2>3. new.lease = run[w].row.lease
    <3> HIDE DEF moved
    <3> QED
      BY <2>2 DEF Rows
  <2>4. job' = Flush(run[w].row, new)
    BY <1>4 DEF AwaitApproval, Return
  <2> HIDE DEF new
  <2> QED
    BY <1>1, <2>3, <2>4
<1>5. CASE FinishUnchecked(w) \/ Complete(w)
  <2>1. run[w].row.state \notin TerminalStates
    BY <1>5, StepsLive DEF FinishUnchecked, Complete, JobInv, DrivingPcs
  <2>2. \A seen : Finished(run[w].row, seen).state = "completed"
    <3> DEFINE moved == Moved(run[w].row, "completed")
    <3>1. moved \in Rows /\ moved.state = "completed"
      BY <1>r, MovedType, MovedKeeps DEF AllStates, TerminalStates
    <3> HIDE DEF moved
    <3>2. \A o, r : [moved EXCEPT !.outcome = o, !.result = r].state = "completed"
      BY <3>1 DEF Rows
    <3> QED
      BY <3>2 DEF Finished, moved
  <2>3. PICK seen : job' = Flush(run[w].row, Finished(run[w].row, seen))
    BY <1>5 DEF FinishUnchecked, Complete, Return
  <2>4. job'.state = "completed"
    BY <2>1, <2>2, <2>3 DEF Flush, Column, TerminalStates
  <2> QED
    BY <2>4 DEF TerminalStates
<1>6. CASE Raise(w)
  <2>1. Moved(job, "failed").state = "failed"
    BY MovedKeeps DEF JobInv, IInv, Typed, TypeOK, AllStates, TerminalStates
  <2> QED
    BY <1>6, <2>1 DEF Raise, TerminalStates
<1>7. CASE Inspect(w) \/ Ask(w) \/ BrainAnswers(w) \/ StartChecks(w)
  BY <1>r, <1>2, <1>7, LiveStates DEF Inspect, Ask, BrainAnswers, StartChecks
<1>8. CASE RunCheck(w) \/ CommandEnds(w) \/ Rerun(w) \/ Summarize(w)
  BY <1>r, <1>2, <1>8, LiveStates DEF RunCheck, CommandEnds, Rerun, Summarize
<1> QED
  BY <1>3, <1>4, <1>5, <1>6, <1>7, <1>8 DEF RunnerStep

(* Where a step of a runner takes it; the others are not driving. *)
LEMMA RunnerMoves ==
  ASSUME JobInv, NEW w \in Workers, RunnerStep(w)
  PROVE  /\ \A v \in Workers : v # w => run'[v] = run[v] /\ ~Driving(v)
         /\ run'[w].pc # "claimed"
<1> USE DEF DrivingPcs
<1>0. Driving(w)
  BY AttemptKept DEF JobInv
<1>r. run[w] \in Slots
  BY DEF JobInv, IInv, Typed, TypeOK
<1>o. \A v \in Workers : v # w => ~Driving(v)
  BY <1>0 DEF JobInv, IInv, Safe, OneDriver
<1> SUFFICES /\ \A v \in Workers : v # w => run'[v] = run[v]
             /\ run'[w].pc # "claimed"
  BY <1>o
<1>1. ASSUME NEW slot, run' = [run EXCEPT ![w] = slot], slot.pc # "claimed"
      PROVE  /\ \A v \in Workers : v # w => run'[v] = run[v]
             /\ run'[w].pc # "claimed"
  BY <1>1 DEF JobInv, IInv, Typed, TypeOK
<1>2. ASSUME NEW new, Return(w, new) \/ Raise(w)
      PROVE  /\ \A v \in Workers : v # w => run'[v] = run[v]
             /\ run'[w].pc # "claimed"
  <2>1. Slot("idle").pc = "idle"
    BY DEF Slot
  <2> QED
    BY <1>1, <1>2, <2>1 DEF Return, Raise
<1>3. ASSUME NEW new, NEW slot \in Slots, slot.pc # "claimed", Commit(w, new, slot)
      PROVE  /\ \A v \in Workers : v # w => run'[v] = run[v]
             /\ run'[w].pc # "claimed"
  <2>1. [slot EXCEPT !.row = new].pc = slot.pc
    BY DEF Slots
  <2> QED
    BY <1>1, <1>3, <2>1 DEF Commit
<1>4. \A pc \in DrivingPcs \ {"claimed"} :
        /\ [run[w] EXCEPT !.pc = pc] \in Slots
        /\ [run[w] EXCEPT !.pc = pc].pc # "claimed"
  BY <1>r DEF Slots
<1>5. CASE Plan(w) \/ Inspect(w) \/ Ask(w) \/ Summarize(w)
  BY <1>2, <1>3, <1>4, <1>5 DEF Plan, Inspect, Ask, Summarize
<1>6. CASE AwaitApproval(w) \/ FinishUnchecked(w) \/ Complete(w) \/ Raise(w)
  BY <1>2, <1>6 DEF AwaitApproval, FinishUnchecked, Complete
<1>7. CASE BrainAnswers(w)
  BY <1>7 DEF BrainAnswers, JobInv, IInv, Typed, TypeOK, Slots
<1>8. CASE StartChecks(w)
  <2>1. PICK plans \in PlanLists :
          \/ run' = [run EXCEPT ![w].pc = "checking", ![w].plans = plans,
                                ![w].row.state = "writing_files"]
          \/ Commit(w, Moved(run[w].row, "verifying"),
                    [run[w] EXCEPT !.pc = "verified"])
    BY <1>8 DEF StartChecks
  <2>2. CASE run' = [run EXCEPT ![w].pc = "checking", ![w].plans = plans,
                                ![w].row.state = "writing_files"]
    BY <2>2 DEF JobInv, IInv, Typed, TypeOK, Slots
  <2> QED
    BY <1>3, <1>4, <2>1, <2>2
<1>9. CASE RunCheck(w)
  <2> DEFINE denied == [run[w] EXCEPT !.plans = Tail(@), !.seen = @ \cup {"denied"}]
             begun  == [run[w] EXCEPT !.pc = "executing", !.tries = 1]
  <2>1. run[w].plans # <<>> /\ run[w].pc = "checking"
    BY <1>9 DEF RunCheck, Steps
  <2>2. denied \in Slots /\ denied.pc = "checking"
    <3>1. denied \in Slots
      BY <1>r, <2>1, NextPlan DEF Statuses
    <3>2. denied.pc = run[w].pc
      BY <1>r DEF Slots
    <3> QED
      BY <3>1, <3>2, <2>1
  <2>3. begun \in Slots /\ begun.pc = "executing"
    BY <1>r DEF Slots
  <2>4. PICK new : Commit(w, new, denied) \/ Commit(w, new, begun)
    BY <1>9 DEF RunCheck
  <2> HIDE DEF denied, begun
  <2> QED
    BY <1>3, <2>2, <2>3, <2>4
<1>10. CASE CommandEnds(w)
  <2>1. PICK status \in Statuses :
          \/ Commit(w, Moved(run[w].row, "debugging"),
                    [run[w] EXCEPT !.pc = "debugging"])
          \/ run' = [run EXCEPT ![w].pc = "checking", ![w].plans = Tail(@),
                                ![w].seen = @ \cup {status}]
    BY <1>10 DEF CommandEnds
  <2>2. CASE run' = [run EXCEPT ![w].pc = "checking", ![w].plans = Tail(@),
                                ![w].seen = @ \cup {status}]
    BY <2>2 DEF JobInv, IInv, Typed, TypeOK, Slots
  <2> QED
    BY <1>3, <1>4, <2>1, <2>2
<1>11. CASE Rerun(w)
  <2> DEFINE tries == run[w].tries + 1
             begun == [run[w] EXCEPT !.pc = "executing", !.tries = tries]
  <2>1. tries \in Nat
    BY <1>r DEF Slots
  <2>2. begun \in Slots /\ begun.pc = "executing"
    <3> HIDE DEF tries
    <3> QED
      BY <1>r, <2>1 DEF Slots
  <2>3. PICK new : Commit(w, new, begun)
    BY <1>11 DEF Rerun
  <2> HIDE DEF begun
  <2> QED
    BY <1>3, <2>2, <2>3
<1> QED
  BY <1>5, <1>6, <1>7, <1>8, <1>9, <1>10, <1>11 DEF RunnerStep

(* Two things tie the moves of such a run's copy to the table: the run starts *)
(* from a job that is queued or over, and after the first test no command of  *)
(* another kind follows.                                                      *)
Ordered(plans) ==
  \A i, j \in 1 .. Len(plans) : i < j /\ plans[i] = "test" => plans[j] = "test"

AllTests(plans) == \A i \in 1 .. Len(plans) : plans[i] = "test"

PlanInv ==
  \A w \in Workers :
    /\ run[w].pc \in {"checking", "executing", "debugging"} => Ordered(run[w].plans)
    /\ run[w].pc = "checking" /\ run[w].row.state = "running_tests" =>
         AllTests(run[w].plans)
    /\ run[w].pc = "executing" => run[w].row.state = Running(Head(run[w].plans))

Settled == TerminalStates \cup {"queued"}

OnceInv ==
  /\ \A w \in Workers : up[w] /\ (run[w].pc = "claimed" => job.state \in Settled)
  /\ ~Undriven \/ job.planned \/ job.state \notin Settled => job.attempt >= 1
  /\ Undriven /\ job.state \notin Settled =>
       \/ job.lease = "held"
       \/ \A w \in Workers : run[w].pc # "spawned"

(* No process dies, and every list of commands detect_commands() returns has  *)
(* its tests last. *)
NeverCrashes == MaxCrashes = 0
TestsLast    == \A plans \in PlanLists : Ordered(plans)

LEMMA OrderedTail ==
  ASSUME NEW plans \in Seq(CommandKinds), plans # <<>>, Ordered(plans)
  PROVE  /\ Ordered(Tail(plans))
         /\ Head(plans) = "test" => AllTests(Tail(plans))
<1>1. /\ Len(plans) \in Nat \ {0} /\ Len(Tail(plans)) = Len(plans) - 1
      /\ \A i \in 1 .. Len(plans) - 1 : Tail(plans)[i] = plans[i + 1]
      /\ Head(plans) = plans[1]
  OBVIOUS
<1>2. Ordered(Tail(plans))
  <2> SUFFICES ASSUME NEW i \in 1 .. Len(Tail(plans)), NEW j \in 1 .. Len(Tail(plans)),
                      i < j, Tail(plans)[i] = "test"
               PROVE  Tail(plans)[j] = "test"
    BY DEF Ordered
  <2>1. /\ i + 1 \in 1 .. Len(plans) /\ j + 1 \in 1 .. Len(plans) /\ i + 1 < j + 1
        /\ plans[i + 1] = "test"
    BY <1>1
  <2>2. plans[j + 1] = "test"
    BY <2>1 DEF Ordered
  <2> QED
    BY <1>1, <2>2
<1>3. ASSUME Head(plans) = "test" PROVE AllTests(Tail(plans))
  <2> SUFFICES ASSUME NEW i \in 1 .. Len(Tail(plans)) PROVE Tail(plans)[i] = "test"
    BY DEF AllTests
  <2>1. 1 \in 1 .. Len(plans) /\ i + 1 \in 1 .. Len(plans) /\ 1 < i + 1
    BY <1>1
  <2>2. plans[1] = "test"
    BY <1>1, <1>3
  <2>3. plans[i + 1] = "test"
    BY <2>1, <2>2 DEF Ordered
  <2> QED
    BY <1>1, <2>3
<1> QED
  BY <1>2, <1>3

LEMMA TestsAhead ==
  ASSUME NEW plans \in Seq(CommandKinds), plans # <<>>, AllTests(plans)
  PROVE  Head(plans) = "test"
<1>1. Len(plans) \in Nat \ {0} /\ Head(plans) = plans[1]
  OBVIOUS
<1> QED
  BY <1>1 DEF AllTests

(* A slot that has nothing to do with plans, and one that has. *)
LEMMA PlanSlot ==
  ASSUME PlanInv, NEW w \in Workers,
         \A v \in Workers : v # w => \/ run'[v] = run[v]
                                    \/ run'[v].pc \in {"idle", "spawned", "claimed"},
         run'[w].pc \in {"checking", "executing", "debugging"} =>
           Ordered(run'[w].plans),
         run'[w].pc = "checking" /\ run'[w].row.state = "running_tests" =>
           AllTests(run'[w].plans),
         run'[w].pc = "executing" => run'[w].row.state = Running(Head(run'[w].plans))
  PROVE  PlanInv'
<1> SUFFICES ASSUME NEW v \in Workers
             PROVE  /\ run'[v].pc \in {"checking", "executing", "debugging"} =>
                         Ordered(run'[v].plans)
                    /\ run'[v].pc = "checking" /\ run'[v].row.state = "running_tests" =>
                         AllTests(run'[v].plans)
                    /\ run'[v].pc = "executing" =>
                         run'[v].row.state = Running(Head(run'[v].plans))
  BY DEF PlanInv, Ordered, AllTests
<1>1. CASE v = w
  BY <1>1
<1>2. CASE run'[v] = run[v]
  BY <1>2 DEF PlanInv
<1>3. CASE run'[v].pc \in {"idle", "spawned", "claimed"}
  BY <1>3
<1> QED
  BY <1>1, <1>2, <1>3

LEMMA PlanRunner ==
  ASSUME JobInv, PlanInv, TestsLast, NEW w \in Workers, RunnerStep(w)
  PROVE  PlanInv'
<1> USE DEF DrivingPcs
<1>0. Driving(w) /\ \A v \in Workers : v # w => run'[v] = run[v]
  BY AttemptKept, RunnerMoves DEF JobInv
<1>r. run[w].row \in Rows /\ run[w] \in Slots /\ run[w].plans \in Seq(CommandKinds)
  BY <1>0, RowOf DEF JobInv, IInv, Slots
<1>h. run[w].pc \in {"executing", "debugging"} => run[w].plans # <<>>
  BY DEF JobInv, IInv, Typed, Holds
<1>k. \A kind : /\ Moved(run[w].row, Running(kind)).state = Running(kind)
                /\ (Running(kind) = "running_tests" => kind = "test")
  BY <1>r, RunningType, MovedKeeps DEF Running
<1>1. ASSUME run'[w].pc \notin {"checking", "executing", "debugging"} PROVE PlanInv'
  BY <1>0, <1>1, PlanSlot
<1>2. ASSUME NEW new, NEW slot \in Slots, Commit(w, new, slot)
      PROVE  run'[w].pc = slot.pc /\ run'[w].plans = slot.plans /\ run'[w].row = new
  <2>1. run'[w] = [slot EXCEPT !.row = new]
    BY <1>2 DEF Commit, JobInv, IInv, Typed, TypeOK
  <2> QED
    BY <2>1 DEF Slots
<1>3. ASSUME NEW new, Return(w, new) \/ Raise(w) PROVE PlanInv'
  <2>1. run'[w].pc = "idle"
    BY <1>3 DEF Return, Raise, Slot, JobInv, IInv, Typed, TypeOK
  <2> QED
    BY <1>1, <2>1
<1>4. \A pc \in DrivingPcs :
        /\ [run[w] EXCEPT !.pc = pc] \in Slots
        /\ [run[w] EXCEPT !.pc = pc].pc = pc
        /\ [run[w] EXCEPT !.pc = pc].plans = run[w].plans
  BY <1>r DEF Slots
<1>5. CASE Plan(w) \/ Inspect(w) \/ Ask(w) \/ Summarize(w)
  <2>1. ASSUME NEW new, NEW pc \in {"planned", "inspected", "asking", "verified"},
               Commit(w, new, [run[w] EXCEPT !.pc = pc])
        PROVE  PlanInv'
    <3>1. run'[w].pc = pc
      BY <1>2, <1>4, <2>1
    <3> QED
      BY <1>1, <3>1
  <2> QED
    BY <1>3, <1>5, <2>1 DEF Plan, Inspect, Ask, Summarize
<1>6. CASE AwaitApproval(w) \/ FinishUnchecked(w) \/ Complete(w) \/ Raise(w)
  BY <1>3, <1>6 DEF AwaitApproval, FinishUnchecked, Complete
<1>7. CASE BrainAnswers(w)
  <2>1. run'[w].pc = "answered"
    BY <1>7 DEF BrainAnswers, JobInv, IInv, Typed, TypeOK, Slots
  <2> QED
    BY <1>1, <2>1
<1>8. CASE StartChecks(w)
  <2>1. PICK plans \in PlanLists :
          \/ run' = [run EXCEPT ![w].pc = "checking", ![w].plans = plans,
                                ![w].row.state = "writing_files"]
          \/ Commit(w, Moved(run[w].row, "verifying"),
                    [run[w] EXCEPT !.pc = "verified"])
    BY <1>8 DEF StartChecks
  <2>2. CASE run' = [run EXCEPT ![w].pc = "checking", ![w].plans = plans,
                                ![w].row.state = "writing_files"]
    <3>1. /\ run'[w].pc = "checking" /\ run'[w].plans = plans
          /\ run'[w].row.state = "writing_files"
      BY <1>r, <2>2 DEF JobInv, IInv, Typed, TypeOK, Slots, Rows
    <3>2. Ordered(run'[w].plans)
      BY <2>1, <3>1 DEF TestsLast
    <3> QED
      BY <1>0, <3>1, <3>2, PlanSlot
  <2>3. CASE Commit(w, Moved(run[w].row, "verifying"),
                    [run[w] EXCEPT !.pc = "verified"])
    <3>1. run'[w].pc = "verified"
      BY <1>2, <1>4, <2>3
    <3> QED
      BY <1>1, <3>1
  <2> QED
    BY <2>1, <2>2, <2>3
<1>9. CASE RunCheck(w)
  <2> DEFINE new    == Moved(run[w].row, Running(Head(run[w].plans)))
             denied == [run[w] EXCEPT !.plans = Tail(@), !.seen = @ \cup {"denied"}]
             begun  == [run[w] EXCEPT !.pc = "executing", !.tries = 1]
  <2>1. run[w].plans # <<>> /\ run[w].pc = "checking" /\ Ordered(run[w].plans)
    BY <1>9 DEF RunCheck, Steps, PlanInv
  <2>2. /\ denied \in Slots /\ denied.pc = "checking"
        /\ denied.plans = Tail(run[w].plans)
    <3>1. denied \in Slots
      BY <1>r, <2>1, NextPlan DEF Statuses
    <3>2. denied.pc = run[w].pc /\ denied.plans = Tail(run[w].plans)
      BY <1>r DEF Slots
    <3> QED
      BY <3>1, <3>2, <2>1
  <2>3. begun \in Slots /\ begun.pc = "executing" /\ begun.plans = run[w].plans
    BY <1>r DEF Slots
  <2>4. Commit(w, new, denied) \/ Commit(w, new, begun)
    BY <1>9 DEF RunCheck
  <2>5. new.state = Running(Head(run[w].plans))
    BY <1>k
  <2>6. /\ Ordered(Tail(run[w].plans))
        /\ new.state = "running_tests" => AllTests(Tail(run[w].plans))
    BY <1>r, <1>k, <2>1, <2>5, OrderedTail
  <2> HIDE DEF new, denied, begun
  <2>7. CASE Commit(w, new, denied)
    <3>1. /\ run'[w].pc = "checking" /\ run'[w].plans = Tail(run[w].plans)
          /\ run'[w].row = new
      BY <1>2, <2>2, <2>7
    <3> QED
      BY <1>0, <2>6, <3>1, PlanSlot
  <2>8. CASE Commit(w, new, begun)
    <3>1. /\ run'[w].pc = "executing" /\ run'[w].plans = run[w].plans
          /\ run'[w].row = new
      BY <1>2, <2>3, <2>8
    <3> QED
      BY <1>0, <2>1, <2>5, <3>1, PlanSlot
  <2> QED
    BY <2>4, <2>7, <2>8
<1>10. CASE CommandEnds(w)
  <2>1. /\ run[w].plans # <<>> /\ Ordered(run[w].plans)
        /\ run[w].row.state = Running(Head(run[w].plans))
    BY <1>h, <1>10 DEF CommandEnds, Steps, PlanInv
  <2>2. PICK status \in Statuses :
          \/ Commit(w, Moved(run[w].row, "debugging"),
                    [run[w] EXCEPT !.pc = "debugging"])
          \/ run' = [run EXCEPT ![w].pc = "checking", ![w].plans = Tail(@),
                                ![w].seen = @ \cup {status}]
    BY <1>10 DEF CommandEnds
  <2>3. CASE Commit(w, Moved(run[w].row, "debugging"),
                    [run[w] EXCEPT !.pc = "debugging"])
    <3>1. run'[w].pc = "debugging" /\ run'[w].plans = run[w].plans
      BY <1>2, <1>4, <2>3
    <3> QED
      BY <1>0, <2>1, <3>1, PlanSlot
  <2>4. CASE run' = [run EXCEPT ![w].pc = "checking", ![w].plans = Tail(@),
                                ![w].seen = @ \cup {status}]
    <3>1. /\ run'[w].pc = "checking" /\ run'[w].plans = Tail(run[w].plans)
          /\ run'[w].row = run[w].row
      BY <1>r, <2>4 DEF JobInv, IInv, Typed, TypeOK, Slots
    <3>2. /\ Ordered(Tail(run[w].plans))
          /\ run[w].row.state = "running_tests" => AllTests(Tail(run[w].plans))
      BY <1>r, <1>k, <2>1, OrderedTail
    <3> QED
      BY <1>0, <3>1, <3>2, PlanSlot
  <2> QED
    BY <2>2, <2>3, <2>4
<1>11. CASE Rerun(w)
  <2> DEFINE new   == Moved(run[w].row, Running(Head(run[w].plans)))
             tries == run[w].tries + 1
             begun == [run[w] EXCEPT !.pc = "executing", !.tries = tries]
  <2>1. tries \in Nat
    BY <1>r DEF Slots
  <2>2. begun \in Slots /\ begun.pc = "executing" /\ begun.plans = run[w].plans
    <3> HIDE DEF tries
    <3> QED
      BY <1>r, <2>1 DEF Slots
  <2>3. Commit(w, new, begun)
    BY <1>11 DEF Rerun
  <2>4. new.state = Running(Head(run[w].plans)) /\ Ordered(run[w].plans)
    BY <1>k, <1>11 DEF Rerun, Steps, PlanInv
  <2> HIDE DEF new, begun
  <2>5. /\ run'[w].pc = "executing" /\ run'[w].plans = run[w].plans
        /\ run'[w].row = new
    BY <1>2, <2>2, <2>3
  <2> QED
    BY <1>0, <2>4, <2>5, PlanSlot
<1> QED
  BY <1>5, <1>6, <1>7, <1>8, <1>9, <1>10, <1>11 DEF RunnerStep

(* What the others do to the slots. *)
LEMMA SlotsKept ==
  ASSUME JobInv, NEW w \in Workers,
         Claim(w) \/ Request(w) \/ Crash(w) \/ Shutdown(w) \/ Start(w)
  PROVE  \A v \in Workers : \/ run'[v] = run[v]
                            \/ run'[v].pc \in {"idle", "spawned", "claimed"}
<1>1. Slot("idle").pc = "idle" /\ Slot("spawned").pc = "spawned"
  BY DEF Slot
<1>2. ASSUME NEW slot, run' = [run EXCEPT ![w] = slot],
             slot.pc \in {"idle", "spawned", "claimed"}
      PROVE  \A v \in Workers : \/ run'[v] = run[v]
                                \/ run'[v].pc \in {"idle", "spawned", "claimed"}
  BY <1>2 DEF JobInv, IInv, Typed, TypeOK
<1>3. CASE run' = [run EXCEPT ![w].pc = "claimed", ![w].row = job']
  BY <1>3 DEF JobInv, IInv, Typed, TypeOK, Slots
<1>4. CASE Spawn(w)
  BY <1>1, <1>2, <1>4 DEF Spawn
<1> QED
  BY <1>1, <1>2, <1>3, <1>4
     DEF Claim, Request, PostAgain, CancelRead, CancelCommit, Retry, Resume,
         Crash, Shutdown, Start

LEMMA PlanNext ==
  ASSUME JobInv, PlanInv, TestsLast, [Next]_vars
  PROVE  PlanInv'
<1>1. ASSUME NEW w \in Workers, RunnerStep(w) PROVE PlanInv'
  BY <1>1, PlanRunner
<1>2. ASSUME NEW w \in Workers,
             Claim(w) \/ Request(w) \/ Crash(w) \/ Shutdown(w) \/ Start(w)
      PROVE  PlanInv'
  <2>1. \A v \in Workers : \/ run'[v] = run[v]
                           \/ run'[v].pc \in {"idle", "spawned", "claimed"}
    BY <1>2, SlotsKept
  <2> QED
    BY <2>1, PlanSlot DEF PlanInv
<1>3. CASE LeaseLapses \/ UNCHANGED vars
  BY <1>3 DEF LeaseLapses, vars, PlanInv
<1> QED
  BY <1>1, <1>2, <1>3 DEF Next

LEMMA OnceNext ==
  ASSUME JobInv, JobInv', OnceInv, Undisturbed, NeverRestarted, NeverCrashes,
         [Next]_vars
  PROVE  OnceInv'
<1>0. MaxClaims \in Nat /\ job.attempt \in Nat /\ crashes \in Nat
  BY JobAssumption DEF JobAssumption, JobInv, IInv, Typed, TypeOK, Rows
<1>1. ASSUME NEW w \in Workers, RunnerStep(w) PROVE OnceInv'
  <2>1. Driving(w) /\ job'.attempt = job.attempt
    BY <1>1, AttemptKept DEF JobInv
  <2>2. job'.attempt >= 1
    BY <2>1 DEF OnceInv, Undriven
  <2>3. job'.state \notin Settled => job'.lease = "held"
    BY <1>1, LeaseKept DEF Settled
  <2>4. \A v \in Workers : run'[v].pc # "claimed"
    BY <1>1, RunnerMoves DEF Driving, DrivingPcs
  <2>5. UNCHANGED up
    BY <1>1 DEF RunnerStep, Plan, Inspect, Ask, BrainAnswers, AwaitApproval,
                FinishUnchecked, StartChecks, RunCheck, CommandEnds, Rerun,
                Summarize, Complete, Raise
  <2> QED
    BY <2>2, <2>3, <2>4, <2>5 DEF OnceInv
<1>2. ASSUME NEW w \in Workers, Claim(w) PROVE OnceInv'
  <2>1. CASE Inline /\ job.lease # "held"
    <3>1. /\ job' = [job EXCEPT !.lease = "held", !.attempt = @ + 1]
          /\ run[w].pc = "spawned" /\ UNCHANGED up
      BY <1>2, <2>1 DEF Claim
    <3>2. /\ job'.state = job.state /\ job'.attempt = job.attempt + 1
      BY <3>1 DEF JobInv, IInv, Typed, TypeOK, Rows
    <3>3. Undriven
      BY <2>1 DEF Undriven, JobInv, IInv, Safe, Leased
    <3>4. job.state \in Settled
      BY <2>1, <3>1, <3>3 DEF OnceInv
    <3> QED
      BY <1>0, <3>1, <3>2, <3>4 DEF OnceInv
  <2>2. CASE ~(Inline /\ job.lease # "held")
    <3>1. /\ run' = [run EXCEPT ![w] = Slot("idle")] /\ UNCHANGED <<job, up>>
          /\ run[w].pc = "spawned"
      BY <1>2, <2>2 DEF Claim
    <3>2. Slot("idle").pc = "idle"
      BY DEF Slot
    <3>3. \A v \in Workers : run'[v] = IF v = w THEN Slot("idle") ELSE run[v]
      BY <3>1 DEF JobInv, IInv, Typed, TypeOK
    <3>4. Undriven' <=> Undriven
      BY <3>1, <3>2, <3>3 DEF Undriven, Driving, DrivingPcs
    <3> QED
      BY <3>1, <3>2, <3>3, <3>4 DEF OnceInv
  <2> QED
    BY <2>1, <2>2
<1>s. ASSUME NEW w \in Workers, Spawn(w), UNCHANGED <<job, up>>,
             job.state \in Settled
      PROVE  OnceInv'
  <2>1. Undriven' <=> Undriven
    BY <1>s, FollowsSpawn
  <2> QED
    BY <1>s, <2>1 DEF OnceInv
<1>3. ASSUME NEW w \in Workers, Request(w) PROVE OnceInv'
  <2>1. CASE PostAgain(w)
    BY <1>s, <2>1 DEF PostAgain, Settled
  <2>2. CASE Resume(w)
    <3>1. UNCHANGED <<job, up>> /\ Spawn(w) /\ job.attempt < MaxClaims
      BY <2>2 DEF Resume
    <3>2. job.state \in Settled
      BY <1>0, <3>1 DEF OnceInv, NeverRestarted
    <3> QED
      BY <1>s, <3>1, <3>2
  <2>3. CASE CancelRead(w)
    BY <2>3 DEF CancelRead, OnceInv, Undriven, Driving
  <2>4. CASE Retry(w)
    BY <1>0, <2>4 DEF Retry, OnceInv, NeverRestarted
  <2>5. CASE CancelCommit(w)
    <3>1. Undriven /\ canc[w] = job /\ UNCHANGED up
      BY <2>5 DEF CancelCommit, MayCancel, Undisturbed
    <3>2. /\ job'.state = "cancelled" /\ job'.planned = job.planned
          /\ job'.attempt = job.attempt
      BY <2>5, CancelStores DEF CancelCommit, Flush, JobInv
    <3>3. Slot("idle").pc = "idle"
      BY DEF Slot
    <3>4. \A v \in Workers : run'[v] = run[v] \/ run'[v].pc = "idle"
      BY <2>5, <3>3 DEF CancelCommit, JobInv, IInv, Typed, TypeOK
    <3>5. Undriven'
      BY <3>1, <3>4 DEF Undriven, Driving, DrivingPcs
    <3> QED
      BY <3>1, <3>2, <3>4, <3>5 DEF OnceInv, Settled, TerminalStates
  <2> QED
    BY <1>3, <2>1, <2>2, <2>3, <2>4, <2>5 DEF Request
<1>4. ASSUME NEW w \in Workers, Crash(w) \/ Shutdown(w) \/ Start(w) PROVE FALSE
  BY <1>0, <1>4 DEF Crash, Shutdown, Start, OnceInv, NeverCrashes
<1>5. ASSUME LeaseLapses PROVE OnceInv'
  <2>1. /\ job'.state = job.state /\ job'.attempt = job.attempt
        /\ job'.planned = job.planned /\ UNCHANGED <<run, up>>
    BY <1>5 DEF LeaseLapses, JobInv, IInv, Typed, TypeOK, Rows
  <2>2. \A w \in Workers : run[w].pc # "spawned"
    BY <1>5 DEF LeaseLapses
  <2> QED
    BY <2>1, <2>2 DEF OnceInv, Undriven, Driving
<1>6. CASE UNCHANGED vars
  BY <1>6 DEF vars, OnceInv, Undriven, Driving
<1> QED
  BY <1>1, <1>2, <1>3, <1>4, <1>5, <1>6 DEF Next

LEMMA AllowedMoves ==
  /\ Legal("queued", "planning")
  /\ Legal("planning", "inspecting_workspace")
  /\ Legal("planning", "context_compiling")
  /\ Legal("inspecting_workspace", "context_compiling")
  /\ Legal("waiting_for_brain", "brain_streaming")
  /\ \A s \in {"writing_files", "running_tests", "running_command"} :
       Legal(s, "verifying")
  /\ \A s \in {"writing_files", "running_command", "debugging"} : \A kind :
       Legal(s, Running(kind))
  /\ Legal("verifying", "completed")
BY DEF Legal, CanTransition, Forward, Running, AllStates, ActiveStates,
       SuspendedStates, TerminalStates

(* With the tests last, a run that is the only one of its job never asks for  *)
(* a move the table refuses, whatever the commands return, however often the  *)
(* Brain repairs, whoever posts the job again or cancels it when it rests.    *)
(* The runs "npm" and "recover" show what happens without.                    *)
THEOREM MovesAllowed ==
  ASSUME Undisturbed, NeverRestarted, NeverCrashes, TestsLast
  PROVE  Spec => []NoIllegalMove
<1>1. Init => OnceInv /\ PlanInv
  <2> SUFFICES ASSUME Init PROVE OnceInv /\ PlanInv
    OBVIOUS
  <2>1. job.state = "queued" /\ ~job.planned
    BY DEF Init, NewRow
  <2>2. \A v \in Workers : run[v].pc \in {"idle", "spawned"} /\ up[v]
    BY DEF Init, Slot
  <2>3. Undriven
    BY <2>2 DEF Undriven, Driving, DrivingPcs
  <2> QED
    BY <2>1, <2>2, <2>3 DEF OnceInv, PlanInv, Settled
<1>2. JobInv /\ JobInv' /\ OnceInv /\ PlanInv /\ [Next]_vars => OnceInv' /\ PlanInv'
  BY OnceNext, PlanNext
<1>3. JobInv /\ OnceInv /\ PlanInv => NoIllegalMove
  <2> SUFFICES ASSUME JobInv, OnceInv, PlanInv, NEW w \in Workers, Driving(w),
                      run[w].row.state \notin TerminalStates
               PROVE  Legal(run[w].row.state, Target(w))
    BY DEF NoIllegalMove
  <2>1. /\ job.state \in StageOf(run[w].pc)
        /\ run[w].row.state = CopyState(run[w].pc, job.state)
    BY DEF JobInv, InStage
  <2>2. run[w].pc \in DrivingPcs
    BY DEF Driving
  <2>3. CASE run[w].pc = "claimed"
    <3>1. run[w].row.state = "queued"
      BY <2>1, <2>3 DEF OnceInv, Settled, CopyState
    <3> QED
      BY <2>3, <3>1, AllowedMoves DEF Target
  <2>4. CASE run[w].pc = "planned"
    BY <2>1, <2>4, AllowedMoves
       DEF Target, StageOf, CopyState, JobInv, IInv, Typed, TypeOK, Rows
  <2>5. CASE run[w].pc \in {"inspected", "answered", "verified"}
    BY <2>1, <2>5, AllowedMoves DEF Target, StageOf, CopyState
  <2>6. CASE run[w].pc \in {"asking", "executing"}
    BY <2>6 DEF Target, Legal
  <2>7. CASE run[w].pc = "checking"
    <3>1. run[w].row.state \in {"writing_files", "running_tests", "running_command"}
      BY <2>1, <2>7 DEF StageOf, CopyState
    <3>2. CASE run[w].plans = <<>>
      BY <2>7, <3>1, <3>2, AllowedMoves DEF Target
    <3>3. CASE run[w].plans # <<>> /\ run[w].row.state = "running_tests"
      <4>1. Head(run[w].plans) = "test"
        BY <2>7, <3>3, TestsAhead DEF PlanInv, JobInv, IInv, Typed, TypeOK, Slots
      <4> QED
        BY <2>7, <3>3, <4>1 DEF Target, Running, Legal
    <3>4. CASE run[w].plans # <<>> /\ run[w].row.state # "running_tests"
      BY <2>7, <3>1, <3>4, AllowedMoves DEF Target
    <3> QED
      BY <3>2, <3>3, <3>4
  <2>8. CASE run[w].pc = "debugging"
    BY <2>1, <2>8, AllowedMoves DEF Target, StageOf, CopyState
  <2> QED
    BY <2>2, <2>3, <2>4, <2>5, <2>6, <2>7, <2>8 DEF DrivingPcs
<1> QED
  BY <1>1, <1>2, <1>3, JobAlways, PTL DEF Spec
=============================================================================
