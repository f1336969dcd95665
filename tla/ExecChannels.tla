---------------------------- MODULE ExecChannels ----------------------------
(* Execution requests and production gates (api/routes/exec_channels.py): an  *)
(* item is approved by two people who did not request it, or rejected, then   *)
(* executed, and a gate may be rolled back.  A handler reads the row, decides *)
(* on its copy and writes the columns it changed: between the two, others     *)
(* commit, and no column is guarded.                                          *)
(*                                                                            *)
(* The model follows one item from its insertion.  A request has two columns  *)
(* for its approvers and a count, a gate has a list.  expires_at is stored    *)
(* and never read, so it is not here.                                         *)
EXTENDS Naturals, FiniteSets

CONSTANTS
  Staff,      \* who may call the API
  Requester,  \* requested_by of the item: text from the request's body
  Calls,      \* requests to the API
  Nobody

(* An approver is the caller; the name of the requester is whatever the one   *)
(* who created the item wrote, and need not be of the staff.                  *)
ASSUME StaffAssumption == IsFiniteSet(Staff) /\ Nobody \notin Staff

VARIABLES
  item,   \* the row
  call,   \* what each request to the API is doing, with its copy of the row
  signed  \* history: who committed an approval

execVars == <<item, call, signed>>

-----------------------------------------------------------------------------
Required == 2  \* PRODUCTION_APPROVALS_REQUIRED

ItemStatuses == {"blocked", "pending_approval", "approved", "rejected",
                 "completed", "rolled_back"}
Item == [kind : {"request", "gate"}, gated : BOOLEAN, status : ItemStatuses,
         by1 : Staff \cup {Nobody}, by2 : Staff \cup {Nobody}, count : 0 .. Required,
         list : SUBSET Staff]

Inserted(kind, gated, status) ==
  [kind |-> kind, gated |-> gated, status |-> status,
   by1 |-> Nobody, by2 |-> Nobody, count |-> 0, list |-> {}]

(* _create_exec_request() stores what the policy said of the request. *)
NewRequests == {Inserted("request", FALSE, "blocked"), Inserted("request", FALSE, "approved"),
                Inserted("request", TRUE, "pending_approval")}
NewGate     == Inserted("gate", TRUE, "pending_approval")

(* Of the copy, only an approval uses more than the guard it passed. *)
Hung  == [pc |-> "none", by |-> Nobody, count |-> 0, list |-> {}]
CallT == [pc : {"none", "approving", "rejecting", "executing", "rolling"},
          by : Staff \cup {Nobody}, count : 0 .. Required, list : SUBSET Staff]

ExecInit ==
  /\ item \in NewRequests \cup {NewGate}
  /\ call = [c \in Calls |-> Hung]
  /\ signed = {}

Serving(c, pc) == call[c].pc = pc
Serve(c, pc)   == Serving(c, "none") /\ call' = [call EXCEPT ![c] = [Hung EXCEPT !.pc = pc]]
HangUp(c)      == call' = [call EXCEPT ![c] = Hung]

-----------------------------------------------------------------------------
(* Mutant of MaySign: the requester may sign, too. *)
MaySignOwn(p) == p \notin {item.by1, item.by2} \cup item.list

(* Neither the requester nor who signed already. *)
MaySign(p) == p # Requester /\ p \notin {item.by1, item.by2} \cup item.list

SignRead(c, p) ==
  /\ Serving(c, "none")
  /\ item.status = "pending_approval" /\ MaySign(p)
  /\ call' = [call EXCEPT ![c] = [pc |-> "approving", by |-> p,
                                 count |-> item.count, list |-> item.list]]
  /\ UNCHANGED <<item, signed>>

(* approve_request(): the count of the copy names the column. *)
SignRequest(c) ==
  LET n == call[c].count + 1
  IN /\ Serving(c, "approving") /\ item.kind = "request"
     /\ item' = [item EXCEPT
          !.by1    = IF n = 1 THEN call[c].by ELSE @,
          !.by2    = IF n = 1 THEN @ ELSE call[c].by,
          !.count  = n,
          !.status = IF n < Required THEN @ ELSE "approved"]
     /\ signed' = signed \cup {call[c].by}
     /\ HangUp(c)

(* approve_production_gate(): the list of the copy, and one more. *)
SignGate(c) ==
  LET list == call[c].list \cup {call[c].by}
  IN /\ Serving(c, "approving") /\ item.kind = "gate"
     /\ item' = [item EXCEPT
          !.list   = list,
          !.status = IF Cardinality(list) >= Required THEN "approved" ELSE @]
     /\ signed' = signed \cup {call[c].by}
     /\ HangUp(c)

Refused == IF item.kind = "gate" THEN "rejected" ELSE "blocked"

(* Whatever the status is, anybody may reject; a status the copy has already  *)
(* is not written.                                                            *)
RefuseRead(c) ==
  /\ item.status # Refused
  /\ Serve(c, "rejecting")
  /\ UNCHANGED <<item, signed>>

Refuse(c) ==
  /\ Serving(c, "rejecting")
  /\ item' = [item EXCEPT !.status = Refused]
  /\ HangUp(c)
  /\ UNCHANGED signed

ExecuteRead(c) ==
  /\ item.status = "approved"
  /\ Serve(c, "executing")
  /\ UNCHANGED <<item, signed>>

(* Policy is asked again between the read and the write, and may deny. *)
Execute(c) ==
  /\ Serving(c, "executing")
  /\ item' = [item EXCEPT !.status = "completed"] \/ UNCHANGED item
  /\ HangUp(c)
  /\ UNCHANGED signed

(* rollback_production_gate(); nothing stores executing. *)
RollBackRead(c) ==
  /\ item.kind = "gate" /\ item.status = "completed"
  /\ Serve(c, "rolling")
  /\ UNCHANGED <<item, signed>>

RollBack(c) ==
  /\ Serving(c, "rolling")
  /\ item' = [item EXCEPT !.status = "rolled_back"]
  /\ HangUp(c)
  /\ UNCHANGED signed

(* The process dies, or the database does: what is not committed is lost. *)
DropCall(c) ==
  /\ ~Serving(c, "none")
  /\ HangUp(c)
  /\ UNCHANGED <<item, signed>>

ExecNext ==
  \E c \in Calls :
    \/ \E p \in Staff : SignRead(c, p)
    \/ RefuseRead(c) \/ ExecuteRead(c) \/ RollBackRead(c)
    \/ SignRequest(c) \/ SignGate(c) \/ Refuse(c) \/ Execute(c) \/ RollBack(c) \/ DropCall(c)

ExecSpec == ExecInit /\ [][ExecNext]_execVars

-----------------------------------------------------------------------------
ExecTypeOK ==
  /\ item \in Item
  /\ call \in [Calls -> CallT]
  /\ signed \subseteq Staff

(* Handlers that overlap overwrite each other's approvals and rejections, but *)
(* an item that needs approval is approved, executed or rolled back only      *)
(* after two people other than its requester approved it.                     *)
ExecGate == INSTANCE ConsentGate WITH
  People    <- Staff,
  Initiator <- Requester,
  quorum    <- IF item.gated THEN Required ELSE 0,
  consents  <- signed,
  open      <- item.status \in {"approved", "completed", "rolled_back"}

ExecConsent == ExecGate!GateSpec
=============================================================================
