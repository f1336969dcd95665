---------------------------- MODULE PlexusProofs ----------------------------
(* Proofs about Plexus, for every number of messages, requests and people:    *)
(* types, the approval gate, one approval per message, closed messages stay   *)
(* closed, and one message per idempotency key.                               *)
EXTENDS Plexus, TLAPS

-----------------------------------------------------------------------------
(* The invariant: what a request may rely on between its read and its write.  *)
Aimed ==
  \A r \in Requests :
    /\ request[r].pc \in {"expiring", "approving", "acking", "refusing"}
         => request[r].of \subseteq Stored
    /\ request[r].pc = "sending" => request[r].who \in People
    /\ request[r].pc = "approving" =>
         /\ request[r].who \in People
         /\ \A m \in request[r].of : message[m].creator # request[r].who
    /\ request[r].pc \in {"acking", "refusing"} =>
         \A m \in request[r].of : message[m].held => message[m].approver # Nobody

(* A message that waits has not been approved before. *)
Unapproved ==
  \A m \in Stored : message[m].status = "requires_approval"
                      => message[m].approver = Nobody

IInv == TypeOK /\ Aimed /\ GateHeld /\ Unapproved /\ OneMessagePerKey

(* What no write to a stored row changes. *)
Keeps(old, new) ==
  new.key = old.key /\ new.creator = old.creator /\ new.held = old.held

-----------------------------------------------------------------------------
LEMMA RowType ==
  ASSUME NEW row \in Rows
  PROVE  /\ row # NoRow
         /\ row.status \in Pending \cup Closed /\ row.key \in Keys \cup {NoKey}
         /\ row.creator \in People /\ row.approver \in People \cup {Nobody}
         /\ row.held \in BOOLEAN
<1>1. row.status \in Pending \cup Closed
  BY DEF Rows
<1>2. NoRow.status = "none" /\ "none" \notin Pending \cup Closed
  BY DEF NoRow, Pending, Closed
<1> QED
  BY <1>1, <1>2 DEF Rows

LEMMA StoredRow ==
  ASSUME TypeOK, NEW m \in Stored
  PROVE  m \in Messages /\ message[m] \in Rows
BY DEF TypeOK, Stored, Exists

(* A request that begins writes nothing. *)
LEMMA BeginStep ==
  ASSUME IInv, NEW r \in Requests, NEW step \in Steps, Begin(r, step),
         step.pc \in {"expiring", "approving", "acking", "refusing"}
           => step.of \subseteq Stored,
         step.pc = "sending" => step.who \in People,
         step.pc = "approving" =>
           step.who \in People /\ \A m \in step.of : message[m].creator # step.who,
         step.pc \in {"acking", "refusing"} =>
           \A m \in step.of : message[m].held => message[m].approver # Nobody
  PROVE  IInv'
<1>1. message' = message /\ overdue' = overdue /\ Stored' = Stored
  BY DEF Begin, Stored, Exists
<1>2. \A q \in Requests : request'[q] = IF q = r THEN step ELSE request[q]
  BY DEF Begin, IInv, TypeOK
<1>3. request' \in [Requests -> Steps]
  BY DEF Begin, IInv, TypeOK
<1>4. TypeOK'
  BY <1>1, <1>3 DEF IInv, TypeOK
<1>5. Aimed'
  BY <1>1, <1>2 DEF IInv, Aimed
<1>6. GateHeld' /\ Unapproved' /\ OneMessagePerKey'
  BY <1>1 DEF IInv, GateHeld, Unapproved, OneMessagePerKey
<1> QED
  BY <1>4, <1>5, <1>6 DEF IInv

(* A write to stored rows, seen from one row. *)
LEMMA WriteRows ==
  ASSUME TypeOK, NEW r \in Requests, NEW rows, Write(r, rows),
         request[r].of \subseteq Stored,
         \A m \in request[r].of : rows[m] \in Rows
  PROVE  /\ TypeOK' /\ Stored' = Stored
         /\ \A m \in Messages :
              message'[m] = IF m \in request[r].of THEN rows[m] ELSE message[m]
         /\ \A q \in Requests : request'[q] = IF q = r THEN Idle ELSE request[q]
<1>1. \A m \in Messages :
        message'[m] = IF m \in request[r].of THEN rows[m] ELSE message[m]
  BY DEF Write
<1>2. \A q \in Requests : request'[q] = IF q = r THEN Idle ELSE request[q]
  BY DEF Write, TypeOK
<1>3. message' \in [Messages -> Rows \cup {NoRow}]
  BY <1>1 DEF Write, TypeOK
<1>4. Stored' = Stored
  BY <1>1, RowType DEF Stored, Exists
<1>5. Idle \in Steps
  BY DEF Idle, Steps
<1>6. request' \in [Requests -> Steps]
  BY <1>5 DEF Write, TypeOK
<1>7. TypeOK'
  BY <1>3, <1>4, <1>6 DEF TypeOK, Write
<1> QED
  BY <1>1, <1>2, <1>4, <1>7

(* A write preserves the invariant if it keeps what is fixed at creation, and *)
(* what it makes of each row is a row the gate allows.                        *)
LEMMA WriteStep ==
  ASSUME IInv, NEW r \in Requests, NEW rows, Write(r, rows),
         request[r].of \subseteq Stored,
         \A m \in request[r].of :
           /\ rows[m] \in Rows /\ Keeps(message[m], rows[m])
           /\ message[m].approver # Nobody => rows[m].approver # Nobody
           /\ rows[m].held /\ rows[m].status \in {"delivered", "processed"}
                => rows[m].approver # Nobody
           /\ rows[m].approver # rows[m].creator
           /\ rows[m].status # "requires_approval"
  PROVE  IInv'
<1>1. /\ TypeOK' /\ Stored' = Stored
      /\ \A m \in Messages :
           message'[m] = IF m \in request[r].of THEN rows[m] ELSE message[m]
      /\ \A q \in Requests : request'[q] = IF q = r THEN Idle ELSE request[q]
  BY WriteRows DEF IInv
<1>2. Stored \subseteq Messages
  BY DEF Stored
<1>3. \A m \in Stored : /\ Keeps(message[m], message'[m])
                        /\ message[m].approver # Nobody => message'[m].approver # Nobody
  BY <1>1, <1>2 DEF Keeps
<1>4. Aimed'
  <2> SUFFICES ASSUME NEW q \in Requests, q # r PROVE
        /\ request[q].pc \in {"expiring", "approving", "acking", "refusing"}
             => request[q].of \subseteq Stored
        /\ request[q].pc = "sending" => request[q].who \in People
        /\ request[q].pc = "approving" =>
             /\ request[q].who \in People
             /\ \A m \in request[q].of : message'[m].creator # request[q].who
        /\ request[q].pc \in {"acking", "refusing"} =>
             \A m \in request[q].of : message'[m].held => message'[m].approver # Nobody
    BY <1>1 DEF Aimed, Idle
  <2> QED
    BY <1>3 DEF IInv, Aimed, Keeps
<1>5. GateHeld'
  BY <1>1, <1>2 DEF IInv, GateHeld
<1>6. Unapproved'
  BY <1>1, <1>2 DEF IInv, Unapproved
<1>7. OneMessagePerKey'
  BY <1>1, <1>3 DEF IInv, OneMessagePerKey, Keeps
<1> QED
  BY <1>1, <1>4, <1>5, <1>6, <1>7 DEF IInv

(* Only the status of the rows changes. *)
LEMMA WithStep ==
  ASSUME IInv, NEW r \in Requests, NEW status \in Closed, With(r, status),
         request[r].of \subseteq Stored,
         status = "processed" =>
           \A m \in request[r].of : message[m].held => message[m].approver # Nobody
  PROVE  IInv'
<1> DEFINE rows == [m \in request[r].of |-> [message[m] EXCEPT !.status = status]]
<1>1. Write(r, rows)
  BY DEF With
<1>2. ASSUME NEW m \in request[r].of
      PROVE  /\ rows[m] \in Rows /\ Keeps(message[m], rows[m])
             /\ message[m].approver # Nobody => rows[m].approver # Nobody
             /\ rows[m].held /\ rows[m].status \in {"delivered", "processed"}
                  => rows[m].approver # Nobody
             /\ rows[m].approver # rows[m].creator
             /\ rows[m].status # "requires_approval"
  <2>1. message[m] \in Rows /\ rows[m] = [message[m] EXCEPT !.status = status]
    BY StoredRow DEF IInv
  <2>2. /\ rows[m].status = status /\ rows[m].approver = message[m].approver
        /\ rows[m].key = message[m].key /\ rows[m].creator = message[m].creator
        /\ rows[m].held = message[m].held
    BY <2>1 DEF Rows
  <2>3. rows[m] \in Rows
    BY <2>1 DEF Rows
  <2>4. message[m].approver # message[m].creator
    BY DEF IInv, GateHeld
  <2> QED
    BY <2>2, <2>3, <2>4 DEF Keeps, Closed
<1> HIDE DEF rows
<1> QED
  BY <1>1, <1>2, WriteStep

-----------------------------------------------------------------------------
LEMMA InitInv == Init => IInv
<1> SUFFICES ASSUME Init PROVE IInv
  OBVIOUS
<1>1. Stored = {}
  BY DEF Init, Stored, Exists
<1>2. \A r \in Requests : request[r] = Idle
  BY DEF Init
<1>3. TypeOK
  BY <1>1 DEF Init, TypeOK, Idle, Steps
<1>4. Aimed
  BY <1>2 DEF Aimed, Idle
<1> QED
  BY <1>1, <1>3, <1>4 DEF IInv, GateHeld, Unapproved, OneMessagePerKey

LEMMA SendStep ==
  ASSUME IInv, NEW r \in Requests, Send(r)
  PROVE  IInv'
<1>1. PICK p \in People, k \in Keys \cup {NoKey} :
        Begin(r, [Idle EXCEPT !.pc = "sending", !.who = p, !.key = k])
  BY DEF Send
<1> DEFINE step == [Idle EXCEPT !.pc = "sending", !.who = p, !.key = k]
<1>2. step \in Steps /\ step.pc = "sending" /\ step.who = p
  BY DEF Idle, Steps
<1> HIDE DEF step
<1> QED
  BY <1>1, <1>2, BeginStep DEF step

(* A new row: its key clashes with no other, and nobody has approved it. *)
LEMMA StoreStep ==
  ASSUME IInv, NEW r \in Requests, Store(r)
  PROVE  IInv'
<1>1. /\ \A q \in Requests : request'[q] = IF q = r THEN Idle ELSE request[q]
      /\ request' \in [Requests -> Steps] /\ overdue' = overdue
  BY DEF Store, IInv, TypeOK, Idle, Steps
<1>2. CASE message' = message
  <2>1. Stored' = Stored
    BY <1>2 DEF Stored, Exists
  <2>2. TypeOK'
    BY <1>1, <1>2, <2>1 DEF IInv, TypeOK
  <2>3. Aimed'
    BY <1>1, <1>2, <2>1 DEF IInv, Aimed, Idle
  <2> QED
    BY <1>2, <2>1, <2>2, <2>3 DEF IInv, GateHeld, Unapproved, OneMessagePerKey
<1>3. CASE message' # message
  <2>1. PICK n \in Messages \ Stored, outcome \in Outcomes :
          message' = [message EXCEPT ![n] =
                        [status |-> outcome, key |-> request[r].key,
                         creator |-> request[r].who, approver |-> Nobody,
                         held |-> (outcome = "requires_approval")]]
    BY <1>3 DEF Store
  <2> DEFINE row == [status |-> outcome, key |-> request[r].key,
                     creator |-> request[r].who, approver |-> Nobody,
                     held |-> (outcome = "requires_approval")]
  <2>2. ~Clash(request[r].key)
    BY <1>3 DEF Store
  <2>3. request[r].who \in People /\ request[r].key \in Keys \cup {NoKey}
    BY DEF Store, IInv, TypeOK, Aimed, Steps
  <2>4. /\ row \in Rows /\ row.status = outcome /\ row.key = request[r].key
        /\ row.creator = request[r].who /\ row.approver = Nobody
        /\ row.held = (outcome = "requires_approval")
    BY <2>3 DEF Rows, Outcomes, Pending, Closed
  <2>5. message' = [message EXCEPT ![n] = row]
    BY <2>1
  <2> HIDE DEF row
  <2>6. message'[n] = row /\ \A m \in Messages \ {n} : message'[m] = message[m]
    BY <2>5 DEF IInv, TypeOK
  <2>7. Stored' = Stored \cup {n}
    BY <2>4, <2>6, RowType DEF Stored, Exists
  <2>8. \A m \in Stored : m # n /\ message'[m] = message[m]
    BY <2>6 DEF Stored
  <2>9. TypeOK'
    BY <1>1, <2>4, <2>5, <2>7 DEF IInv, TypeOK
  <2>10. Aimed'
    BY <1>1, <2>7, <2>8 DEF IInv, Aimed, Idle
  <2>11. GateHeld'
    BY <2>3, <2>4, <2>6, <2>7, <2>8, PlexusAssumption DEF IInv, GateHeld
  <2>12. Unapproved'
    BY <2>4, <2>6, <2>7, <2>8 DEF IInv, Unapproved
  <2>13. OneMessagePerKey'
    BY <2>2, <2>3, <2>4, <2>6, <2>7, <2>8 DEF IInv, OneMessagePerKey, Clash
  <2> QED
    BY <2>9, <2>10, <2>11, <2>12, <2>13 DEF IInv
<1> QED
  BY <1>2, <1>3

LEMMA ExpireStep ==
  ASSUME IInv, NEW r \in Requests, FindOverdue(r) \/ Expire(r)
  PROVE  IInv'
<1>1. CASE FindOverdue(r)
  <2>1. PICK ms \in SUBSET {m \in Stored \cap overdue : message[m].status \in Pending} :
          Begin(r, [Idle EXCEPT !.pc = "expiring", !.of = ms])
    BY <1>1 DEF FindOverdue
  <2> DEFINE step == [Idle EXCEPT !.pc = "expiring", !.of = ms]
  <2>2. step \in Steps /\ step.pc = "expiring" /\ step.of \subseteq Stored
    BY DEF Idle, Steps, Stored
  <2> HIDE DEF step
  <2> QED
    BY <2>1, <2>2, BeginStep DEF step
<1>2. CASE Expire(r)
  <2>1. request[r].of \subseteq Stored
    BY <1>2 DEF Expire, IInv, Aimed
  <2> QED
    BY <1>2, <2>1, WithStep DEF Expire, Closed
<1> QED
  BY <1>1, <1>2

LEMMA ApproveStep ==
  ASSUME IInv, NEW r \in Requests, ApproveRead(r) \/ Approve(r)
  PROVE  IInv'
<1>1. CASE ApproveRead(r)
  <2>1. PICK p \in People, m \in Stored \ overdue :
          /\ MayApprove(p, m)
          /\ Begin(r, [Idle EXCEPT !.pc = "approving", !.of = {m}, !.who = p])
    BY <1>1 DEF ApproveRead
  <2> DEFINE step == [Idle EXCEPT !.pc = "approving", !.of = {m}, !.who = p]
  <2>2. /\ step \in Steps /\ step.pc = "approving" /\ step.of = {m}
        /\ step.who = p
    BY DEF Idle, Steps, Stored
  <2> HIDE DEF step
  <2>3. message[m].creator # p
    BY <2>1 DEF MayApprove
  <2> QED
    BY <2>1, <2>2, <2>3, BeginStep DEF step
<1>2. CASE Approve(r)
  <2> DEFINE rows == Delivered(r)
  <2>1. /\ request[r].of \subseteq Stored /\ request[r].who \in People
        /\ \A m \in request[r].of : message[m].creator # request[r].who
    BY <1>2 DEF Approve, IInv, Aimed
  <2>2. ASSUME NEW m \in request[r].of
        PROVE  /\ rows[m] \in Rows /\ Keeps(message[m], rows[m])
               /\ rows[m].approver = request[r].who /\ rows[m].status = "delivered"
    <3>1. message[m] \in Rows
      BY <2>1, StoredRow DEF IInv
    <3>2. rows[m] = [message[m] EXCEPT !.status = "delivered",
                                       !.approver = request[r].who]
      BY DEF Delivered
    <3> QED
      BY <2>1, <3>1, <3>2 DEF Rows, Keeps, Pending
  <2>3. Write(r, rows)
    BY <1>2 DEF Approve
  <2> HIDE DEF rows
  <2>4. ASSUME NEW m \in request[r].of
        PROVE  rows[m].approver # Nobody /\ rows[m].approver # rows[m].creator
               /\ rows[m].status # "requires_approval"
    BY <2>1, <2>2, PlexusAssumption DEF Keeps
  <2> QED
    BY <2>1, <2>2, <2>3, <2>4, WriteStep
<1> QED
  BY <1>1, <1>2

LEMMA AckStep ==
  ASSUME IInv, NEW r \in Requests, AckRead(r) \/ AckWrite(r)
  PROVE  IInv'
<1>1. CASE AckRead(r)
  <2>1. PICK m \in Stored \ overdue, pc \in {"acking", "refusing"} :
          /\ message[m].status = "delivered"
          /\ Begin(r, [Idle EXCEPT !.pc = pc, !.of = {m}])
    BY <1>1 DEF AckRead
  <2> DEFINE step == [Idle EXCEPT !.pc = pc, !.of = {m}]
  <2>2. step \in Steps /\ step.pc = pc /\ step.of = {m}
    BY DEF Idle, Steps, Stored
  <2> HIDE DEF step
  <2>3. message[m].held => message[m].approver # Nobody
    BY <2>1 DEF IInv, GateHeld
  <2> QED
    BY <2>1, <2>2, <2>3, BeginStep DEF step
<1>2. CASE AckWrite(r)
  <2>1. /\ request[r].of \subseteq Stored
        /\ \A m \in request[r].of : message[m].held => message[m].approver # Nobody
    BY <1>2 DEF AckWrite, IInv, Aimed
  <2>2. With(r, "processed") \/ With(r, "rejected")
    BY <1>2 DEF AckWrite
  <2> QED
    BY <2>1, <2>2, WithStep DEF Closed
<1> QED
  BY <1>1, <1>2

LEMMA OtherStep ==
  ASSUME IInv, (\E r \in Requests : Abort(r)) \/ TimePasses \/ UNCHANGED vars
  PROVE  IInv'
<1>1. message' = message /\ Stored' = Stored
  BY DEF Abort, TimePasses, vars, Stored, Exists
<1>2. \A q \in Requests : request'[q] = request[q] \/ request'[q] = Idle
  BY DEF Abort, TimePasses, vars, IInv, TypeOK
<1>3. request' \in [Requests -> Steps]
  <2>1. Idle \in Steps
    BY DEF Idle, Steps
  <2> QED
    BY <2>1 DEF Abort, TimePasses, vars, IInv, TypeOK
<1>4. overdue' \subseteq Stored'
  BY <1>1 DEF Abort, TimePasses, vars, IInv, TypeOK
<1>5. TypeOK'
  BY <1>1, <1>3, <1>4 DEF IInv, TypeOK
<1>6. Aimed'
  BY <1>1, <1>2 DEF IInv, Aimed, Idle
<1> QED
  BY <1>1, <1>5, <1>6 DEF IInv, GateHeld, Unapproved, OneMessagePerKey

LEMMA NextInv == IInv /\ [Next]_vars => IInv'
BY SendStep, StoreStep, ExpireStep, ApproveStep, AckStep, OtherStep DEF Next

LEMMA Always == Spec => []IInv
BY InitInv, NextInv, PTL DEF Spec

-----------------------------------------------------------------------------
(* The variables of the mailbox keep their types. *)
THEOREM TypeCorrect == Spec => []TypeOK
<1>1. IInv => TypeOK
  BY DEF IInv
<1> QED
  BY <1>1, Always, PTL

(* A message the policy held reaches its recipient only after an approval by  *)
(* somebody other than its creator, for any number of requests in flight.     *)
THEOREM GateAlwaysHeld == Spec => []GateHeld
<1>1. IInv => GateHeld
  BY DEF IInv
<1> QED
  BY <1>1, Always, PTL

(* An idempotency key names at most one message. *)
THEOREM KeysAreUnique == Spec => []OneMessagePerKey
<1>1. IInv => OneMessagePerKey
  BY DEF IInv
<1> QED
  BY <1>1, Always, PTL

-----------------------------------------------------------------------------
(* What a step does to the row of a stored message: nothing, the approval of  *)
(* a message that waits, or a status that closes it.                          *)
LEMMA StepOnRow ==
  ASSUME IInv, [Next]_vars, NEW m \in Stored
  PROVE  \/ message'[m] = message[m]
         \/ message[m].status = "requires_approval" /\ message'[m].status = "delivered"
         \/ message'[m].status \in Closed /\ message'[m].approver = message[m].approver
<1>1. m \in Messages /\ message[m] \in Rows
  BY StoredRow DEF IInv
<1>2. ASSUME NEW r \in Requests, Store(r) PROVE message'[m] = message[m]
  BY <1>1, <1>2 DEF Store, IInv, TypeOK
<1>3. ASSUME NEW r \in Requests, NEW status \in Closed, With(r, status)
      PROVE  \/ message'[m] = message[m]
             \/ message'[m].status \in Closed /\ message'[m].approver = message[m].approver
  <2>1. message'[m] = IF m \in request[r].of
                      THEN [message[m] EXCEPT !.status = status] ELSE message[m]
    BY <1>1, <1>3 DEF With, Write
  <2> QED
    BY <1>1, <2>1 DEF Rows
<1>4. ASSUME NEW r \in Requests, Approve(r)
      PROVE  \/ message'[m] = message[m]
             \/ message[m].status = "requires_approval" /\ message'[m].status = "delivered"
  <2>1. message'[m] = IF m \in request[r].of
                      THEN [message[m] EXCEPT !.status = "delivered",
                                              !.approver = request[r].who]
                      ELSE message[m]
    BY <1>1, <1>4 DEF Approve, Delivered, Write
  <2> QED
    BY <1>1, <1>4, <2>1 DEF Approve, Rows
<1>5. ASSUME NEW r \in Requests, Expire(r) \/ AckWrite(r)
      PROVE  \E status \in Closed : With(r, status)
  BY <1>5 DEF Expire, AckWrite, Closed
<1>6. CASE UNCHANGED message
  BY <1>6
<1> QED
  BY <1>2, <1>3, <1>4, <1>5, <1>6
  DEF Next, vars, Send, FindOverdue, ApproveRead, AckRead, Begin, Abort, TimePasses

(* Of several approvals in flight at most one ever counts. *)
THEOREM ApprovalCountsOnce == Spec => ApprovedOnce
<1>1. ASSUME IInv, [Next]_vars
      PROVE  [\A m \in Stored : message[m].approver # Nobody
                => message'[m].approver = message[m].approver]_vars
  BY <1>1, StepOnRow DEF IInv, Unapproved
<1> QED
  BY <1>1, Always, PTL DEF Spec, ApprovedOnce

(* No stale writer brings a closed message back. *)
THEOREM ClosedStaysClosed == Spec => NeverReopened
<1>1. ASSUME IInv, [Next]_vars
      PROVE  [\A m \in Stored : message[m].status \in Closed
                => message'[m].status \in Closed]_vars
  BY <1>1, StepOnRow DEF Closed
<1> QED
  BY <1>1, Always, PTL DEF Spec, NeverReopened
=============================================================================
