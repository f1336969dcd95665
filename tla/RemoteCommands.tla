--------------------------- MODULE RemoteCommands ---------------------------
(* Pending commands of the command console (api/routes/remote_control.py): a  *)
(* command that needs approval is an event whose outcome is requires_approval *)
(* and whose metadata holds the approvals and how many are required.  A       *)
(* handler reads a pending event and writes the metadata back as one document,*)
(* so the later of two handlers erases what the other recorded; the outcome   *)
(* is a column of its own, written when it differs from the copy.  The status *)
(* inside the metadata is only displayed, and left out.                       *)
(*                                                                            *)
(* The model follows one command.  A bulk review does to each of its commands *)
(* what the single review does, in one commit.                                *)
EXTENDS Naturals, FiniteSets

CONSTANTS
  Operators,   \* who may call the API
  Commander,   \* the requester of the command: text from the request's body
  Reviews,     \* requests to the API
  Policies,    \* how many approvals may be required: 1 .. 4 in the code
  NoOperator

(* An approver is the caller; the name of the requester is whatever the one   *)
(* who sent the command wrote, and need not be an operator's.                 *)
ASSUME OperatorAssumption ==
  /\ IsFiniteSet(Operators) /\ NoOperator \notin Operators
  /\ Policies \subseteq Nat \ {0}

VARIABLES
  command,   \* the event
  review,    \* what each request is doing, with its copy
  endorsed,  \* history: who committed an approval
  lowest     \* history: the lowest number of approvals required so far

commandVars == <<command, review, endorsed, lowest>>

-----------------------------------------------------------------------------
Document == [approvals : SUBSET Operators, required : Policies]
Command  == [outcome : {"requires_approval", "allowed", "blocked"}, document : Document]

(* A review holds the document it is going to write. *)
Closed == [pc |-> "none", by |-> NoOperator,
           document |-> [approvals |-> {}, required |-> CHOOSE n \in Policies : TRUE]]
Review == [pc : {"none", "endorsing", "declining", "setting"},
           by : Operators \cup {NoOperator}, document : Document]

(* _required_command_approvals(): from the context, the mode and the risk. *)
CommandInit ==
  /\ lowest \in Policies
  /\ command = [outcome |-> "requires_approval",
                document |-> [approvals |-> {}, required |-> lowest]]
  /\ review = [r \in Reviews |-> Closed]
  /\ endorsed = {}

Recorded == command.document.approvals

Reviewing(r, pc) == review[r].pc = pc
EndReview(r)     == review' = [review EXCEPT ![r] = Closed]

(* _find_pending_command_event() finds the command only while it is pending. *)
BeginReview(r, pc, p, document) ==
  /\ Reviewing(r, "none")
  /\ command.outcome = "requires_approval"
  /\ review' = [review EXCEPT ![r] = [pc |-> pc, by |-> p, document |-> document]]
  /\ UNCHANGED <<command, endorsed, lowest>>

(* The columns metadata_json and outcome: the outcome of every copy is        *)
(* requires_approval, so that one is not written.                             *)
WriteBack(r, outcome) ==
  /\ command' = [outcome  |-> IF outcome = "requires_approval" THEN command.outcome ELSE outcome,
                 document |-> review[r].document]
  /\ lowest' = IF review[r].document.required < lowest THEN review[r].document.required
               ELSE lowest
  /\ EndReview(r)

-----------------------------------------------------------------------------
EndorseRead(r, p) ==
  /\ p \notin Recorded \cup {Commander}
  /\ BeginReview(r, "endorsing", p, [command.document EXCEPT !.approvals = @ \cup {p}])

(* Mutant of Enough: one approval too few is enough. *)
EnoughButOne(document) == Cardinality(document.approvals) + 1 >= document.required

Enough(document) == Cardinality(document.approvals) >= document.required

Endorse(r) ==
  /\ Reviewing(r, "endorsing")
  /\ WriteBack(r, IF Enough(review[r].document) THEN "allowed" ELSE "requires_approval")
  /\ endorsed' = endorsed \cup {review[r].by}

DeclineRead(r) == BeginReview(r, "declining", NoOperator, command.document)

Decline(r) ==
  /\ Reviewing(r, "declining")
  /\ WriteBack(r, "blocked")
  /\ UNCHANGED endorsed

(* update_command_approval_policy() may set the number down to the approvals  *)
(* that are recorded; the command is pending still.                           *)
SetPolicyRead(r, n) ==
  /\ n >= Cardinality(Recorded)
  /\ BeginReview(r, "setting", NoOperator, [command.document EXCEPT !.required = n])

SetPolicy(r) ==
  /\ Reviewing(r, "setting")
  /\ WriteBack(r, "requires_approval")
  /\ UNCHANGED endorsed

DropReview(r) ==
  /\ ~Reviewing(r, "none")
  /\ EndReview(r)
  /\ UNCHANGED <<command, endorsed, lowest>>

CommandNext ==
  \E r \in Reviews :
    \/ \E p \in Operators : EndorseRead(r, p)
    \/ \E n \in Policies : SetPolicyRead(r, n)
    \/ DeclineRead(r) \/ Endorse(r) \/ Decline(r) \/ SetPolicy(r) \/ DropReview(r)

CommandSpec == CommandInit /\ [][CommandNext]_commandVars

-----------------------------------------------------------------------------
CommandTypeOK ==
  /\ command \in Command
  /\ review \in [Reviews -> Review]
  /\ endorsed \subseteq Operators /\ lowest \in Policies

(* However reviews, rejections and changes of the policy overlap and erase    *)
(* each other, a command is allowed only after as many operators other than   *)
(* its requester approved it as the most lenient policy so far required.      *)
CommandGate == INSTANCE ConsentGate WITH
  People    <- Operators,
  Initiator <- Commander,
  quorum    <- lowest,
  consents  <- endorsed,
  open      <- command.outcome = "allowed"

CommandConsent == CommandGate!GateSpec
=============================================================================
