------------------------------ MODULE Missions ------------------------------
(* Missions (core/marcellus/missions): a long-lived objective that a          *)
(* scheduler, or its owner, runs as a swarm job; the end of the run is        *)
(* reported as an observation that a human reviews.                           *)
(*                                                                            *)
(* The module composes Missions with Swarm: a mission's run is a background   *)
(* run of Swarm in the same slot.  flight says what the missions code does in *)
(* a slot before and after it.  A scheduler awaits the runs it launched       *)
(* before its next cycle.                                                     *)
EXTENDS Swarm

CONSTANTS
  Objectives,  \* the missions
  Schedulers,  \* the slots that are scheduler loops; the others are requests
  NoMission

ASSUME MissionAssumption == Schedulers \subseteq Slots /\ NoMission \notin Objectives

VARIABLES
  mission,      \* the table of missions
  flight,       \* what the missions code does in each slot, with its copy
  observation   \* the table of observations, one per job

missionVars == <<mission, flight, observation>>
allVars     == <<job, task, slot, approved, dropped, crashed, mission, flight, observation>>

-----------------------------------------------------------------------------
(* due: next_run_at is empty, in the future, or has come.  A mission of the   *)
(* cadence manual is never due; the missions of the model have another one.   *)
(* An archived mission is one that is paused here.                            *)
MissionRow == [status : {"active", "paused"}, due : {"none", "later", "now"},
               latest : Jobs \cup {NoJob},
               latestStatus : Statuses \cup {"none", "blocked"}]

Landed == [pc |-> "none", of |-> NoMission, job |-> NoJob, was |-> "active", due |-> "none"]
Flight == [pc : {"none", "admitting", "creating", "running", "observing",
                 "reviewing", "updating"},
           of : Objectives \cup {NoMission}, job : Jobs \cup {NoJob},
           was : {"active", "paused"}, due : {"none", "later", "now"}]

MissionInit ==
  /\ SwarmInit
  /\ mission = [m \in Objectives |-> [status |-> "active", due |-> "later",
                                      latest |-> NoJob, latestStatus |-> "none"]]
  /\ flight = [s \in Slots |-> Landed]
  /\ observation = [j \in Jobs |-> "none"]

Free(s)      == slot[s] = Idle /\ flight[s] = Landed
Flies(s, pc) == flight[s].pc = pc
Leg(s, pc)   == flight' = [flight EXCEPT ![s].pc = pc]
Land(s)      == flight' = [flight EXCEPT ![s] = Landed]

Board(s, pc, m, j) ==
  flight' = [flight EXCEPT ![s] = [Landed EXCEPT !.pc = pc, !.of = m, !.job = j]]

-----------------------------------------------------------------------------
(* The scheduler takes an active mission whose time has come; the lock of its *)
(* select ends with the first commit.  The owner runs any active mission.     *)
Pick(s) ==
  /\ Free(s)
  /\ \E m \in Objectives :
       /\ mission[m].status = "active"
       /\ s \in Schedulers => mission[m].due = "now"
       /\ Board(s, "admitting", m, NoJob)
  /\ UNCHANGED <<swarmVars, mission, observation>>

(* Mutant of Deny: a blocked mission stays due. *)
DenyOnly(s) ==
  /\ Flies(s, "admitting")
  /\ mission' = [mission EXCEPT ![flight[s].of].latestStatus = "blocked"]
  /\ Land(s)
  /\ UNCHANGED <<swarmVars, observation>>

(* Policy blocks the run: the scheduler moves on to the next time. *)
Deny(s) ==
  /\ Flies(s, "admitting")
  /\ IF s \in Schedulers
     THEN mission' = [mission EXCEPT ![flight[s].of].latestStatus = "blocked",
                                     ![flight[s].of].due = "later"]
     ELSE UNCHANGED mission
  /\ Land(s)
  /\ UNCHANGED <<swarmVars, observation>>

(* launch_mission(): policy allows it, create_swarm_job() commits twice. *)
Admit(s) ==
  /\ Flies(s, "admitting")
  /\ \E j \in Jobs :
       /\ Create(s, j, FALSE, "background")
       /\ flight' = [flight EXCEPT ![s].pc = "creating", ![s].job = j]
  /\ UNCHANGED <<mission, observation>>

(* The mission is updated only now, and run_mission_job() follows. *)
Record(s) ==
  /\ Flies(s, "creating") /\ At(s, "queued")
  /\ mission' = [mission EXCEPT ![flight[s].of].latest = flight[s].job,
                                ![flight[s].of].latestStatus = "pending",
                                ![flight[s].of].due = "later"]
  /\ Leg(s, "running")
  /\ UNCHANGED <<swarmVars, observation>>

(* Mutant of Report: the run is queued and its outcome reported at once. *)
ReportAtOnce(s) ==
  /\ Flies(s, "running")
  /\ mission' = [mission EXCEPT ![flight[s].of].latestStatus = job[flight[s].job].status]
  /\ Leg(s, "observing")
  /\ UNCHANGED <<swarmVars, observation>>

(* Mutant of Report: only a run that completed is reported. *)
ReportCompleted(s) ==
  /\ Flies(s, "running") /\ slot[s] = Idle
  /\ job[flight[s].job].status \in {"completed", "requires_approval"}
  /\ mission' = [mission EXCEPT ![flight[s].of].latestStatus = job[flight[s].job].status]
  /\ Leg(s, "observing")
  /\ UNCHANGED <<swarmVars, observation>>

(* run_swarm_job() has returned: its status is committed by the policy check. *)
Report(s) ==
  /\ Flies(s, "running") /\ slot[s] = Idle
  /\ mission' = [mission EXCEPT ![flight[s].of].latestStatus = job[flight[s].job].status]
  /\ Leg(s, "observing")
  /\ UNCHANGED <<swarmVars, observation>>

(* Mutant of Observe: the status of the job is taken for the observation's. *)
ObserveAsJob(s) ==
  /\ Flies(s, "observing")
  /\ observation' = [observation EXCEPT ![flight[s].job] = job[flight[s].job].status]
  /\ Land(s)
  /\ UNCHANGED <<swarmVars, mission>>

(* Unsafe text, or a denial, blocks the observation. *)
Observe(s) ==
  /\ Flies(s, "observing")
  /\ \E status \in {"proposed", "blocked"} :
       observation' = [observation EXCEPT ![flight[s].job] = status]
  /\ Land(s)
  /\ UNCHANGED <<swarmVars, mission>>

-----------------------------------------------------------------------------
(* review_observation(): the status is read before policy commits. *)
ReviewRead(s) ==
  /\ Free(s) /\ s \notin Schedulers
  /\ \E j \in Jobs, m \in Objectives :
       observation[j] = "proposed" /\ Board(s, "reviewing", m, j)
  /\ UNCHANGED <<swarmVars, mission, observation>>

ReviewWrite(s) ==
  /\ Flies(s, "reviewing")
  /\ \E status \in {"approved", "rejected"} :
       observation' = [observation EXCEPT ![flight[s].job] = status]
  /\ Land(s)
  /\ UNCHANGED <<swarmVars, mission>>

(* update_mission(): pause, resume or change the cadence, on the copy read     *)
(* before policy commits; a column is written when it differs from the copy.  *)
UpdateRead(s) ==
  /\ Free(s) /\ s \notin Schedulers
  /\ \E m \in Objectives :
       flight' = [flight EXCEPT ![s] = [pc |-> "updating", of |-> m, job |-> NoJob,
                                        was |-> mission[m].status, due |-> mission[m].due]]
  /\ UNCHANGED <<swarmVars, mission, observation>>

UpdateWrite(s) ==
  LET m == flight[s].of IN
  /\ Flies(s, "updating")
  /\ \E status \in {"active", "paused"}, newCadence \in BOOLEAN :
       mission' = [mission EXCEPT
         ![m].status = IF status # flight[s].was THEN status ELSE @,
         ![m].due    = CASE status = "paused" /\ flight[s].due # "none" -> "none"
                         [] status = "active" /\ (newCadence \/ flight[s].due = "none") -> "later"
                         [] OTHER -> @]
  /\ Land(s)
  /\ UNCHANGED <<swarmVars, observation>>

TimePasses ==
  /\ \E m \in Objectives :
       mission[m].due = "later" /\ mission' = [mission EXCEPT ![m].due = "now"]
  /\ UNCHANGED <<swarmVars, flight, observation>>

-----------------------------------------------------------------------------
(* The steps of Swarm in a slot; a run waits for the mission to be recorded. *)
SwarmWork(s) ==
  /\ \/ AddTasks(s) \/ Gate(s) \/ Run(s)
     \/ ReadJob(s) /\ ~Flies(s, "creating")
     \/ (Launch(s) \/ Intervene(s)) /\ flight[s] = Landed /\ s \notin Schedulers
  /\ UNCHANGED missionVars

(* What a slot is at is lost; a scheduler begins its loop anew. *)
Die(s) ==
  /\ ~Free(s)
  /\ slot' = [slot EXCEPT ![s] = Idle] /\ Land(s)
  /\ crashed' = TRUE
  /\ UNCHANGED <<job, task, approved, dropped, mission, observation>>

Missioning(s) ==
  \/ Deny(s) \/ Admit(s) \/ Record(s) \/ Report(s) \/ Observe(s)
  \/ ReviewWrite(s) \/ UpdateWrite(s)

MissionNext ==
  \/ \E s \in Slots : \/ Pick(s) \/ Missioning(s) \/ ReviewRead(s) \/ UpdateRead(s)
                      \/ SwarmWork(s) \/ Die(s)
  \/ TimePasses

(* The event loop runs what a session has begun, and the scheduler loop, which *)
(* catches what its cycle raises, takes a mission that stays due.              *)
MissionFairness ==
  /\ \A s \in Slots : WF_allVars(Missioning(s) \/ (SwarmWork(s) /\ slot[s] # Idle))
  /\ \A s \in Schedulers : WF_allVars(Pick(s))

MissionSpec == MissionInit /\ [][MissionNext]_allVars /\ MissionFairness

-----------------------------------------------------------------------------
MissionTypeOK ==
  /\ SwarmTypeOK
  /\ mission \in [Objectives -> MissionRow]
  /\ flight \in [Slots -> Flight]
  /\ observation \in [Jobs -> {"none", "proposed", "blocked", "approved", "rejected"}]

(* An observation is about a run that is over: its job rests, and is not      *)
(* driven again after it was reported.                                        *)
ObservedAtRest ==
  \A j \in Jobs : observation[j] # "none" => job[j].status \in Resting

(* While no process dies, an active mission whose time has come is taken and  *)
(* its next time is set, also when policy blocks the run.                     *)
DueIsServed ==
  \A m \in Objectives :
    mission[m].status = "active" /\ mission[m].due = "now"
      ~> mission[m].status = "paused" \/ mission[m].due # "now" \/ crashed

(* While no process dies, every run of a mission comes to rest and is         *)
(* reported, also when it is cancelled or produces nothing.                   *)
EveryRunReported ==
  \A s \in Slots, j \in Jobs :
    flight[s].job = j /\ Flies(s, "creating") ~> observation[j] # "none" \/ crashed
=============================================================================
