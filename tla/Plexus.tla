------------------------------- MODULE Plexus -------------------------------
(* The Plexus mailbox (core/marcellus/plexus): messages between capability    *)
(* nodes that the Trust Fabric delivers, holds for a human or rejects, that   *)
(* time overtakes, and that the recipient acknowledges.                       *)
(*                                                                            *)
(* Every request runs on a session of its own.  enforce() commits in the      *)
(* middle of a request, and a request may be overtaken by others between its  *)
(* read and its write, so each handler is a step that reads and a step that   *)
(* writes.  A write by the ORM updates the row it once read, unconditionally; *)
(* only the approval is a conditional UPDATE.                                 *)
EXTENDS Naturals, FiniteSets

CONSTANTS
  Messages,  \* bound: the messages that may ever be created
  Keys,      \* idempotency keys
  People,    \* who creates and approves
  Requests,  \* sessions
  NoKey,     \* the message was sent without a key
  Nobody

ASSUME PlexusAssumption ==
  /\ NoKey \notin Keys /\ Nobody \notin People
  /\ IsFiniteSet(Messages)

VARIABLES
  message,  \* the table, by message id
  overdue,  \* the messages whose expires_at has passed
  request   \* what each session is about to write

vars == <<message, overdue, request>>

-----------------------------------------------------------------------------
Pending  == {"delivered", "requires_approval"}
Closed   == {"processed", "rejected", "expired"}
Outcomes == {"delivered", "requires_approval", "rejected"}

(* held: the policy outcome was requires_approval. *)
Rows == [status : Pending \cup Closed, key : Keys \cup {NoKey},
         creator : People, approver : People \cup {Nobody}, held : BOOLEAN]
NoRow == [status |-> "none"]

Steps == [pc : {"idle", "sending", "expiring", "approving", "acking", "refusing"},
          of : SUBSET Messages, who : People \cup {Nobody}, key : Keys \cup {NoKey}]
Idle == [pc |-> "idle", of |-> {}, who |-> Nobody, key |-> NoKey]

Exists(m) == message[m] # NoRow
Stored    == {m \in Messages : Exists(m)}

Init ==
  /\ message = [m \in Messages |-> NoRow]
  /\ overdue = {}
  /\ request = [r \in Requests |-> Idle]

Begin(r, step) ==
  /\ request[r] = Idle
  /\ request' = [request EXCEPT ![r] = step]
  /\ UNCHANGED <<message, overdue>>

Write(r, rows) ==
  /\ message' = [m \in Messages |-> IF m \in request[r].of THEN rows[m] ELSE message[m]]
  /\ request' = [request EXCEPT ![r] = Idle]
  /\ UNCHANGED overdue

With(r, status) ==
  Write(r, [m \in request[r].of |-> [message[m] EXCEPT !.status = status]])

-----------------------------------------------------------------------------
(* create_plexus_message(): a key that names a message returns that message.  *)
Send(r) ==
  \E p \in People, k \in Keys \cup {NoKey} :
    /\ \A m \in Stored : k = NoKey \/ message[m].key # k
    /\ Begin(r, [Idle EXCEPT !.pc = "sending", !.who = p, !.key = k])

(* Mutant of Clash: there is no unique constraint on the key. *)
NoClash(key) == FALSE

Clash(key) == key \in Keys /\ \E m \in Stored : message[m].key = key

(* enforce() has decided; a key another request stored meanwhile is a clash   *)
(* on the unique constraint, which nobody handles: the request fails.         *)
Store(r) ==
  /\ request[r].pc = "sending"
  /\ IF Clash(request[r].key) THEN UNCHANGED message
     ELSE \E m \in Messages \ Stored, outcome \in Outcomes :
            message' = [message EXCEPT ![m] =
                          [status |-> outcome, key |-> request[r].key,
                           creator |-> request[r].who, approver |-> Nobody,
                           held |-> (outcome = "requires_approval")]]
  /\ request' = [request EXCEPT ![r] = Idle]
  /\ UNCHANGED overdue

(* get, list, approve and ack all expire what they read pending and overdue;  *)
(* list expires several rows in one commit.                                   *)
FindOverdue(r) ==
  \E ms \in SUBSET {m \in Stored \cap overdue : message[m].status \in Pending} :
    /\ ms # {}
    /\ Begin(r, [Idle EXCEPT !.pc = "expiring", !.of = ms])

Expire(r) == request[r].pc = "expiring" /\ With(r, "expired")

(* Mutant of MayApprove: whoever sent the message may approve it. *)
MayApproveOwn(p, m) == message[m].status = "requires_approval"

MayApprove(p, m) ==
  message[m].creator # p /\ message[m].status = "requires_approval"

(* approve_plexus_message() up to enforce(), which commits. *)
ApproveRead(r) ==
  \E p \in People, m \in Stored \ overdue :
    /\ MayApprove(p, m)
    /\ Begin(r, [Idle EXCEPT !.pc = "approving", !.of = {m}, !.who = p])

(* Mutant of Delivered: the decision is stored as the status. *)
DeliveredAsApproved(r) ==
  [m \in request[r].of |-> [message[m] EXCEPT !.status = "approved"]]

Delivered(r) ==
  [m \in request[r].of |-> [message[m] EXCEPT !.status = "delivered",
                                              !.approver = request[r].who]]

(* Mutant of Approve: the row that was read is written back unconditionally. *)
ApproveStale(r) == request[r].pc = "approving" /\ Write(r, Delivered(r))

Approve(r) ==
  /\ request[r].pc = "approving"
  /\ \A m \in request[r].of : message[m].status = "requires_approval"
  /\ Write(r, Delivered(r))

(* acknowledge_plexus_message(): the envelope and the payload verify or not. *)
AckRead(r) ==
  \E m \in Stored \ overdue, pc \in {"acking", "refusing"} :
    /\ message[m].status = "delivered"
    /\ Begin(r, [Idle EXCEPT !.pc = pc, !.of = {m}])

AckWrite(r) ==
  \/ request[r].pc = "acking" /\ With(r, "processed")
  \/ request[r].pc = "refusing" /\ With(r, "rejected")

(* The request ends without its write: policy denied the approval, the CAS    *)
(* found another status, or the client went away and the session rolled back. *)
Abort(r) ==
  /\ request[r] # Idle
  /\ request' = [request EXCEPT ![r] = Idle]
  /\ UNCHANGED <<message, overdue>>

TimePasses ==
  /\ \E m \in Stored \ overdue : overdue' = overdue \cup {m}
  /\ UNCHANGED <<message, request>>

Next ==
  \/ \E r \in Requests : Send(r) \/ Store(r) \/ FindOverdue(r) \/ Expire(r)
                          \/ ApproveRead(r) \/ Approve(r) \/ AckRead(r)
                          \/ AckWrite(r) \/ Abort(r)
  \/ TimePasses

Spec == Init /\ [][Next]_vars

-----------------------------------------------------------------------------
TypeOK ==
  /\ message \in [Messages -> Rows \cup {NoRow}]
  /\ overdue \subseteq Stored
  /\ request \in [Requests -> Steps]

(* A message the policy held reaches the recipient only through an approval   *)
(* by somebody other than its creator, however the requests interleave.       *)
GateHeld ==
  \A m \in Stored :
    /\ message[m].held /\ message[m].status \in {"delivered", "processed"}
         => message[m].approver # Nobody
    /\ message[m].approver # message[m].creator

(* An idempotency key names one message, also when two sends with the same    *)
(* key both found none.                                                       *)
OneMessagePerKey ==
  \A m, n \in Stored : message[m].key = message[n].key /\ m # n
                          => message[m].key = NoKey

(* Of several approvals in flight one counts: the approver never changes.     *)
ApprovedOnce ==
  [][\A m \in Stored : message[m].approver # Nobody
                         => message'[m].approver = message[m].approver]_vars

(* What is processed, rejected or expired is never deliverable again and      *)
(* never waits for an approval again, although writers are stale.             *)
NeverReopened ==
  [][\A m \in Stored : message[m].status \in Closed
                         => message'[m].status \in Closed]_vars
=============================================================================
