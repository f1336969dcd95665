---------------------------- MODULE ConsentProofs ----------------------------
(* Proofs about ExecChannels and RemoteCommands: for any staff and any number *)
(* of requests that overlap, both implement ConsentGate.                      *)
EXTENDS ExecChannels, RemoteCommands, FiniteSetTheorems, TLAPS

-----------------------------------------------------------------------------
(* What the quorum of a gate asks of a set of people. *)
LEMMA TwoPeople ==
  ASSUME NEW S, IsFiniteSet(S), NEW p \in S, NEW q \in S, p # q
  PROVE  Cardinality(S) >= 2
<1>1. IsFiniteSet({p}) /\ Cardinality({p}) = 1
  BY FS_Singleton
<1>2. IsFiniteSet({p} \cup {q}) /\ Cardinality({p} \cup {q}) = 2
  BY <1>1, FS_AddElement
<1>3. {p} \cup {q} \in SUBSET S
  OBVIOUS
<1>4. Cardinality({p} \cup {q}) =< Cardinality(S)
  BY <1>3, FS_Subset
<1>5. Cardinality(S) \in Nat
  BY FS_CardinalityType
<1> QED
  BY <1>2, <1>4, <1>5

LEMMA MorePeople ==
  ASSUME NEW T, IsFiniteSet(T), NEW S \in SUBSET T
  PROVE  /\ IsFiniteSet(S) /\ Cardinality(S) \in Nat /\ Cardinality(T) \in Nat
         /\ Cardinality(S) =< Cardinality(T)
<1>1. IsFiniteSet(S) /\ Cardinality(S) =< Cardinality(T)
  BY FS_Subset
<1> QED
  BY <1>1, FS_CardinalityType

-----------------------------------------------------------------------------
(* Execution requests and production gates.                                   *)
ItemOpen == item.status \in {"approved", "completed", "rolled_back"}

(* The columns hold people who signed; a copy with one approval, which is the *)
(* one that makes two, was read after somebody else's signature.              *)
RowOnSigned ==
  /\ item.list \subseteq signed
  /\ item.count >= 1 => item.by1 \in signed
  /\ item.count = Required => item.status # "pending_approval"

CopiesOnSigned ==
  \A c \in Calls :
    Serving(c, "approving") =>
      /\ call[c].by \in Staff \ {Requester}
      /\ call[c].list \subseteq signed
      /\ call[c].count < Required
      /\ call[c].count >= 1 =>
           item.by1 \in signed /\ \E p \in signed : p # call[c].by

(* Whoever is past the guard of an open item is past it for good. *)
SignedByTwo ==
  /\ item.gated
  /\ ItemOpen \/ \E c \in Calls : Serving(c, "executing") \/ Serving(c, "rolling")
  => Cardinality(signed) >= Required

ExecInv ==
  /\ ExecTypeOK
  /\ Requester \notin signed
  /\ RowOnSigned /\ CopiesOnSigned /\ SignedByTwo

LEMMA SignedFinite ==
  ASSUME ExecTypeOK
  PROVE  /\ IsFiniteSet(signed) /\ Cardinality(signed) \in Nat
         /\ \A p : /\ IsFiniteSet(signed \cup {p})
                   /\ Cardinality(signed \cup {p}) \in Nat
                   /\ Cardinality(signed) =< Cardinality(signed \cup {p})
<1>1. IsFiniteSet(signed)
  BY StaffAssumption, FS_Subset DEF ExecTypeOK
<1>2. ASSUME NEW p PROVE IsFiniteSet(signed \cup {p})
  BY <1>1, FS_AddElement
<1>3. ASSUME NEW p PROVE signed \in SUBSET (signed \cup {p})
  OBVIOUS
<1> QED
  BY <1>1, <1>2, <1>3, MorePeople

(* An approval that makes the item open is the second one. *)
LEMMA SecondSignature ==
  ASSUME ExecInv, NEW c \in Calls, Serving(c, "approving"),
         \/ call[c].count + 1 >= Required
         \/ Cardinality(call[c].list \cup {call[c].by}) >= Required
  PROVE  Cardinality(signed \cup {call[c].by}) >= Required
<1> DEFINE people == signed \cup {call[c].by}
<1>1. IsFiniteSet(people) /\ Cardinality(people) \in Nat
  BY SignedFinite DEF ExecInv
<1>2. call[c].count \in 0 .. Required
  BY DEF ExecInv, ExecTypeOK, CallT
<1>3. CASE call[c].count + 1 >= Required
  <2>1. PICK p \in signed : p # call[c].by
    BY <1>2, <1>3 DEF ExecInv, CopiesOnSigned, Required
  <2> QED
    BY <1>1, <2>1, TwoPeople DEF Required
<1>4. CASE Cardinality(call[c].list \cup {call[c].by}) >= Required
  <2>1. call[c].list \cup {call[c].by} \in SUBSET people
    BY DEF ExecInv, CopiesOnSigned
  <2>2. /\ Cardinality(call[c].list \cup {call[c].by}) \in Nat
        /\ Cardinality(call[c].list \cup {call[c].by}) =< Cardinality(people)
    BY <1>1, <2>1, MorePeople
  <2> HIDE DEF people
  <2>3. Cardinality(people) >= Required
    BY <1>1, <1>4, <2>2 DEF Required
  <2> QED
    BY <2>3 DEF people
<1> QED
  BY <1>3, <1>4

LEMMA ExecInitially == ExecInit => ExecInv
<1> SUFFICES ASSUME ExecInit PROVE ExecInv
  OBVIOUS
<1>1. ExecTypeOK
  <2>1. \A kind \in {"request", "gate"}, gated \in BOOLEAN, status \in ItemStatuses :
          Inserted(kind, gated, status) \in Item
    BY DEF Inserted, Item, Required
  <2>2. item \in Item
    BY <2>1 DEF ExecInit, NewRequests, NewGate, ItemStatuses
  <2>3. Hung \in CallT
    BY DEF Hung, CallT, Required
  <2> QED
    BY <2>2, <2>3 DEF ExecInit, ExecTypeOK
<1>2. RowOnSigned
  BY DEF ExecInit, RowOnSigned, NewRequests, NewGate, Inserted, Required
<1>3. \A c \in Calls : call[c].pc = "none"
  BY DEF ExecInit, Hung
<1>4. CopiesOnSigned /\ SignedByTwo
  BY <1>3
  DEF ExecInit, CopiesOnSigned, SignedByTwo, ItemOpen, Serving, NewRequests, NewGate, Inserted
<1> QED
  BY <1>1, <1>2, <1>4 DEF ExecInv, ExecInit

(* A step of a call that signs nothing. *)
LEMMA UnsignedStep ==
  ASSUME ExecInv, UNCHANGED signed, NEW c \in Calls, NEW copy \in CallT,
         call' = [call EXCEPT ![c] = copy],
         item' = item \/ \E status \in ItemStatuses \ {"pending_approval"} :
                           item' = [item EXCEPT !.status = status],
         copy.pc = "approving" =>
           /\ copy.by \in Staff \ {Requester}
           /\ copy.list \subseteq signed
           /\ copy.count < Required
           /\ copy.count >= 1 => item.by1 \in signed /\ \E p \in signed : p # copy.by,
         item.gated /\ (ItemOpen' \/ copy.pc \in {"executing", "rolling"})
           => Cardinality(signed) >= Required
  PROVE  ExecInv'
<1>1. ExecTypeOK'
  BY DEF ExecInv, ExecTypeOK, Item
<1>0. /\ item'.list = item.list /\ item'.count = item.count /\ item'.by1 = item.by1
      /\ item'.status = item.status \/ item'.status # "pending_approval"
  BY DEF ExecInv, ExecTypeOK, Item
<1>2. RowOnSigned'
  BY <1>0 DEF ExecInv, RowOnSigned
<1>3. \A d \in Calls : call'[d] = IF d = c THEN copy ELSE call[d]
  BY DEF ExecInv, ExecTypeOK
<1>4. CopiesOnSigned'
  <2> SUFFICES ASSUME NEW d \in Calls, Serving(d, "approving")'
               PROVE  /\ call'[d].by \in Staff \ {Requester}
                      /\ call'[d].list \subseteq signed
                      /\ call'[d].count < Required
                      /\ call'[d].count >= 1 =>
                           item.by1 \in signed /\ \E p \in signed : p # call'[d].by
    BY <1>0 DEF CopiesOnSigned
  <2> QED
    BY <1>3 DEF ExecInv, CopiesOnSigned, Serving
<1>5. SignedByTwo'
  <2>1. item'.gated = item.gated
    BY DEF ExecInv, ExecTypeOK, Item
  <2> QED
    BY <1>3, <2>1 DEF ExecInv, SignedByTwo, Serving
<1> QED
  BY <1>1, <1>2, <1>4, <1>5 DEF ExecInv

(* An approval that is committed, whichever of the two handlers serves it. *)
LEMMA SignedStep ==
  ASSUME ExecInv, NEW c \in Calls, Serving(c, "approving"), HangUp(c),
         signed' = signed \cup {call[c].by},
         item' \in Item, item'.gated = item.gated,
         item'.list \subseteq signed', item'.count >= 1 => item'.by1 \in signed',
         item.by1 \in signed => item'.by1 \in signed',
         item'.count = Required => item'.status # "pending_approval",
         \/ item'.status = item.status
         \/ Cardinality(signed') >= Required
  PROVE  ExecInv'
<1>1. call[c].by \in Staff \ {Requester}
  BY DEF ExecInv, CopiesOnSigned
<1>2. Hung \in CallT /\ Hung.pc = "none"
  BY DEF Hung, CallT, Required
<1>3. ExecTypeOK'
  BY <1>1, <1>2 DEF ExecInv, ExecTypeOK, HangUp
<1>4. \A d \in Calls : call'[d] = IF d = c THEN Hung ELSE call[d]
  BY DEF ExecInv, ExecTypeOK, HangUp
<1>5. CopiesOnSigned'
  BY <1>2, <1>4 DEF ExecInv, CopiesOnSigned, Serving
<1>6. SignedByTwo'
  <2>1. /\ Cardinality(signed) \in Nat /\ Cardinality(signed') \in Nat
        /\ Cardinality(signed) =< Cardinality(signed')
    BY SignedFinite DEF ExecInv
  <2> QED
    BY <1>2, <1>4, <2>1 DEF ExecInv, SignedByTwo, ItemOpen, Serving, Required
<1> QED
  BY <1>1, <1>3, <1>5, <1>6 DEF ExecInv, RowOnSigned

LEMMA SigningPreserves ==
  ASSUME ExecInv, NEW c \in Calls, SignRequest(c) \/ SignGate(c)
  PROVE  ExecInv'
<1>1. /\ Serving(c, "approving") /\ HangUp(c) /\ signed' = signed \cup {call[c].by}
      /\ item \in Item /\ signed \subseteq Staff /\ call[c] \in CallT
  BY DEF SignRequest, SignGate, ExecInv, ExecTypeOK
<1>2. /\ call[c].by \in Staff \ {Requester} /\ call[c].list \subseteq signed
      /\ call[c].count \in 0 .. 1
      /\ call[c].count >= 1 => item.by1 \in signed
  BY <1>1 DEF ExecInv, CopiesOnSigned, CallT, Required
<1>3. CASE SignRequest(c)
  <2> DEFINE n == call[c].count + 1
  <2>1. n \in 1 .. Required
    BY <1>2 DEF Required
  <2> DEFINE status == IF n < Required THEN item.status ELSE "approved"
             by1    == IF n = 1 THEN call[c].by ELSE item.by1
             by2    == IF n = 1 THEN item.by2 ELSE call[c].by
  <2>7. item' = [item EXCEPT !.by1 = by1, !.by2 = by2, !.count = n, !.status = status]
    BY <1>3 DEF SignRequest
  <2>8. /\ by1 \in Staff \cup {Nobody} /\ by2 \in Staff \cup {Nobody}
        /\ n \in 0 .. Required /\ status \in ItemStatuses
    BY <1>1, <1>2, <2>1 DEF Item, ItemStatuses
  <2> HIDE DEF n, status, by1, by2
  <2>9. /\ item' \in Item /\ item'.gated = item.gated /\ item'.list = item.list
        /\ item'.count = n /\ item'.status = status /\ item'.by1 = by1
    BY <1>1, <2>7, <2>8 DEF Item
  <2> USE DEF n, status, by1
  <2>2. /\ item' \in Item /\ item'.gated = item.gated /\ item'.list = item.list
        /\ item'.count = n
        /\ item'.status = IF n < Required THEN item.status ELSE "approved"
        /\ item'.by1 = IF n = 1 THEN call[c].by ELSE item.by1
    BY <2>9
  <2>3. item'.list \subseteq signed'
    BY <1>1, <2>2 DEF ExecInv, RowOnSigned
  <2>4. item'.by1 \in signed'
    BY <1>1, <1>2, <2>2
  <2>5. item'.count = Required => item'.status # "pending_approval"
    BY <2>2 DEF Required
  <2>6. item'.status = item.status \/ Cardinality(signed') >= Required
    <3>1. CASE n < Required
      BY <2>2, <3>1
    <3>2. CASE ~(n < Required)
      <4>1. call[c].count + 1 >= Required
        BY <2>1, <3>2 DEF Required
      <4> QED
        BY <1>1, <4>1, SecondSignature
    <3> QED
      BY <3>1, <3>2
  <2> QED
    BY <1>1, <2>2, <2>3, <2>4, <2>5, <2>6, SignedStep
<1>4. CASE SignGate(c)
  <2> DEFINE list == call[c].list \cup {call[c].by}
  <2>1. list \subseteq signed' /\ list \subseteq Staff
    BY <1>1, <1>2
  <2>2. /\ item' \in Item /\ item'.gated = item.gated /\ item'.list = list
        /\ item'.count = item.count /\ item'.by1 = item.by1
        /\ item'.status = IF Cardinality(list) >= Required THEN "approved" ELSE item.status
    BY <1>1, <1>4, <2>1 DEF SignGate, Item, ItemStatuses
  <2>3. item'.count >= 1 => item'.by1 \in signed'
    BY <1>1, <2>2 DEF ExecInv, RowOnSigned
  <2>4. item'.count = Required => item'.status # "pending_approval"
    BY <2>2 DEF ExecInv, RowOnSigned
  <2>5. item'.status = item.status \/ Cardinality(signed') >= Required
    BY <1>1, <2>2, SecondSignature
  <2> QED
    BY <1>1, <2>1, <2>2, <2>3, <2>4, <2>5, SignedStep
<1> QED
  BY <1>3, <1>4

LEMMA UnsignedPreserves ==
  ASSUME ExecInv, NEW c \in Calls,
         \/ \E p \in Staff : SignRead(c, p)
         \/ RefuseRead(c) \/ ExecuteRead(c) \/ RollBackRead(c)
         \/ Refuse(c) \/ Execute(c) \/ RollBack(c) \/ DropCall(c)
  PROVE  ExecInv'
<1>1. /\ item \in Item /\ \A pc \in {"none", "rejecting", "executing", "rolling"} :
                              [Hung EXCEPT !.pc = pc] \in CallT
      /\ Hung \in CallT /\ Hung.pc = "none"
  BY DEF ExecInv, ExecTypeOK, CallT, Hung, Required
<1>2. \A pc \in {"none", "rejecting", "executing", "rolling"} : [Hung EXCEPT !.pc = pc].pc = pc
  BY DEF Hung
<1>3. ASSUME NEW p \in Staff, SignRead(c, p) PROVE ExecInv'
  <2> DEFINE copy == [pc |-> "approving", by |-> p, count |-> item.count, list |-> item.list]
  <2>1. copy \in CallT
    BY <1>1 DEF Item, CallT
  <2>2. call' = [call EXCEPT ![c] = copy] /\ UNCHANGED <<item, signed>>
    BY <1>3 DEF SignRead
  <2>3. /\ p # Requester /\ p # item.by1
        /\ item.list \subseteq signed /\ item.count \in 0 .. Required
        /\ item.count # Required /\ (item.count >= 1 => item.by1 \in signed)
    BY <1>1, <1>3 DEF SignRead, MaySign, ExecInv, RowOnSigned, Item
  <2>4. /\ copy.by \in Staff \ {Requester} /\ copy.list \subseteq signed
        /\ copy.count < Required
        /\ copy.count >= 1 => item.by1 \in signed /\ \E q \in signed : q # copy.by
    BY <2>3 DEF Required
  <2>5. copy.pc = "approving" /\ (ItemOpen' => ItemOpen)
    BY <2>2 DEF ItemOpen
  <2> HIDE DEF copy
  <2> QED
    BY <2>1, <2>2, <2>4, <2>5, UnsignedStep DEF ExecInv, SignedByTwo
<1>4. CASE RefuseRead(c)
  BY <1>1, <1>2, <1>4, UnsignedStep DEF RefuseRead, Serve, ExecInv, SignedByTwo, ItemOpen
<1>5. CASE ExecuteRead(c) \/ RollBackRead(c)
  <2>1. ItemOpen /\ UNCHANGED <<item, signed>>
    BY <1>5 DEF ExecuteRead, RollBackRead, ItemOpen
  <2>2. \E pc \in {"executing", "rolling"} : call' = [call EXCEPT ![c] = [Hung EXCEPT !.pc = pc]]
    BY <1>5 DEF ExecuteRead, RollBackRead, Serve
  <2> QED
    BY <1>1, <1>2, <2>1, <2>2, UnsignedStep DEF ExecInv, SignedByTwo
<1>6. CASE Refuse(c)
  <2>1. Refused \in ItemStatuses \ {"pending_approval"}
    BY DEF Refused, ItemStatuses
  <2>2. ~ItemOpen'
    BY <1>1, <1>6 DEF Refuse, Refused, ItemOpen, Item
  <2> QED
    BY <1>1, <1>6, <2>1, <2>2, UnsignedStep DEF Refuse, HangUp
<1>7. CASE Execute(c) \/ RollBack(c)
  <2>1. item.gated => Cardinality(signed) >= Required
    BY <1>7 DEF Execute, RollBack, ExecInv, SignedByTwo
  <2>2. \/ item' = item
        \/ \E status \in ItemStatuses \ {"pending_approval"} :
             item' = [item EXCEPT !.status = status]
    BY <1>7 DEF Execute, RollBack, ItemStatuses
  <2> QED
    BY <1>1, <1>7, <2>1, <2>2, UnsignedStep DEF Execute, RollBack, HangUp
<1>8. CASE DropCall(c)
  BY <1>1, <1>8, UnsignedStep DEF DropCall, HangUp, ExecInv, SignedByTwo, ItemOpen
<1> QED
  BY <1>3, <1>4, <1>5, <1>6, <1>7, <1>8

LEMMA ExecAlways == ExecSpec => []ExecInv
<1>1. ASSUME ExecInv, [ExecNext]_execVars PROVE ExecInv'
  <2>1. CASE \E c \in Calls : SignRequest(c) \/ SignGate(c)
    BY <1>1, <2>1, SigningPreserves
  <2>2. CASE \E c \in Calls :
               \/ \E p \in Staff : SignRead(c, p)
               \/ RefuseRead(c) \/ ExecuteRead(c) \/ RollBackRead(c)
               \/ Refuse(c) \/ Execute(c) \/ RollBack(c) \/ DropCall(c)
    BY <1>1, <2>2, UnsignedPreserves
  <2>3. CASE UNCHANGED execVars
    BY <1>1, <2>3
    DEF execVars, ExecInv, ExecTypeOK, RowOnSigned, CopiesOnSigned, SignedByTwo, ItemOpen, Serving
  <2> QED
    BY <1>1, <2>1, <2>2, <2>3 DEF ExecNext
<1> QED
  BY <1>1, ExecInitially, PTL DEF ExecSpec

LEMMA ExecCardinality == ASSUME NEW S PROVE ExecGate!Cardinality(S) = Cardinality(S)
BY DEF ExecGate!Cardinality, Cardinality

(* A gated item is open only on the approvals of two people, none of whom     *)
(* requested it, whichever approvals of the row were overwritten.             *)
THEOREM ItemOpenByTwo == ExecSpec => []ExecGate!OpenByQuorum
<1>1. ExecInv => ExecGate!OpenByQuorum
  <2> SUFFICES ASSUME ExecInv, ItemOpen
               PROVE  /\ Cardinality(signed) >= (IF item.gated THEN Required ELSE 0)
                      /\ Requester \notin signed
    BY ExecCardinality DEF ItemOpen, ExecGate!OpenByQuorum
  <2>1. Cardinality(signed) \in Nat
    BY SignedFinite DEF ExecInv
  <2> QED
    BY <2>1 DEF ExecInv, SignedByTwo, Required
<1> QED
  BY <1>1, ExecAlways, PTL

(* Every step of the handlers is a step of the gate: a row that overlapping   *)
(* approvals, rejections and executions overwrite opens on two signatures.    *)
THEOREM ExecImplementsGate == ExecSpec => ExecConsent
<1>1. ExecInit => ExecGate!GateInit
  BY DEF ExecInit, ExecGate!GateInit, NewRequests, NewGate, Inserted, Required
<1>2. ASSUME ExecInv, ExecInv', [ExecNext]_execVars
      PROVE  [ExecGate!GateNext]_(ExecGate!gateVars)
  <2>1. ASSUME NEW c \in Calls, SignRequest(c) \/ SignGate(c)
        PROVE  ExecGate!GateNext
    <3>1. call[c].by \in Staff \ {Requester} /\ signed' = signed \cup {call[c].by}
      BY <1>2, <2>1 DEF SignRequest, SignGate, ExecInv, CopiesOnSigned
    <3>2. item'.gated = item.gated
      BY <1>2, <2>1 DEF SignRequest, SignGate, ExecInv, ExecTypeOK, Item
    <3>3. Cardinality(signed') \in Nat
      BY <1>2, <3>1, SignedFinite DEF ExecInv
    <3>4. CASE ItemOpen'
      BY <1>2, <3>1, <3>2, <3>3, <3>4, ExecCardinality
      DEF ExecInv, SignedByTwo, ItemOpen, Required, ExecGate!GateNext, ExecGate!Consent,
          ExecGate!Relax, ExecGate!Open
    <3>5. CASE ~ItemOpen'
      BY <3>1, <3>2, <3>5
      DEF ItemOpen, Required, ExecGate!GateNext, ExecGate!Consent, ExecGate!Relax,
          ExecGate!Close
    <3> QED
      BY <3>4, <3>5
  <2>2. ASSUME UNCHANGED signed, item'.gated = item.gated
        PROVE  ExecGate!GateNext
    <3>1. Cardinality(signed) \in Nat
      BY <1>2, SignedFinite DEF ExecInv
    <3>2. CASE ItemOpen'
      BY <1>2, <2>2, <3>1, <3>2, ExecCardinality
      DEF ExecInv, SignedByTwo, ItemOpen, Required, ExecGate!GateNext, ExecGate!Relax,
          ExecGate!Open
    <3>3. CASE ~ItemOpen'
      BY <2>2, <3>3
      DEF ItemOpen, Required, ExecGate!GateNext, ExecGate!Relax, ExecGate!Close
    <3> QED
      BY <3>2, <3>3
  <2>3. CASE \E c \in Calls :
               \/ \E p \in Staff : SignRead(c, p)
               \/ RefuseRead(c) \/ ExecuteRead(c) \/ RollBackRead(c)
               \/ Refuse(c) \/ Execute(c) \/ RollBack(c) \/ DropCall(c)
    <3>1. UNCHANGED signed /\ item'.gated = item.gated
      BY <1>2, <2>3
      DEF SignRead, RefuseRead, ExecuteRead, RollBackRead, Refuse, Execute, RollBack,
          DropCall, ExecInv, ExecTypeOK, Item
    <3> QED
      BY <2>2, <3>1
  <2>4. CASE UNCHANGED execVars
    BY <2>2, <2>4 DEF execVars
  <2> QED
    BY <1>2, <2>1, <2>3, <2>4 DEF ExecNext
<1> QED
  BY <1>1, <1>2, ExecAlways, PTL DEF ExecSpec, ExecConsent, ExecGate!GateSpec

-----------------------------------------------------------------------------
(* Pending commands.                                                          *)
DocumentOnEndorsed ==
  Recorded \subseteq endorsed /\ lowest =< command.document.required

(* A copy holds approvals that are committed, and the one it is to commit; the*)
(* number it requires is one the lowest has already counted, unless setting   *)
(* that number is what the review is for.                                     *)
GoodCopy(copy) ==
  /\ copy.pc = "endorsing" =>
       /\ copy.by \in Operators \ {Commander}
       /\ copy.document.approvals \subseteq endorsed \cup {copy.by}
  /\ copy.pc \in {"declining", "setting"} => copy.document.approvals \subseteq endorsed
  /\ copy.pc \in {"endorsing", "declining"} => lowest =< copy.document.required

ReviewsOnEndorsed == \A r \in Reviews : GoodCopy(review[r])

AllowedByEnough == command.outcome = "allowed" => Cardinality(endorsed) >= lowest

CommandInv ==
  /\ CommandTypeOK
  /\ Commander \notin endorsed
  /\ DocumentOnEndorsed /\ ReviewsOnEndorsed /\ AllowedByEnough

LEMMA EndorsedFinite ==
  ASSUME NEW S \in SUBSET Operators
  PROVE  IsFiniteSet(S) /\ Cardinality(S) \in Nat
BY OperatorAssumption, FS_Subset, FS_CardinalityType

LEMMA ClosedType == ASSUME CommandTypeOK PROVE Closed \in Review /\ Closed.pc = "none"
BY DEF CommandTypeOK, Closed, Review, Document

LEMMA CommandInitially == CommandInit => CommandInv
<1> SUFFICES ASSUME CommandInit PROVE CommandInv
  OBVIOUS
<1>1. Closed \in Review /\ Closed.pc = "none"
  BY DEF CommandInit, Closed, Review, Document
<1>2. CommandTypeOK
  BY <1>1 DEF CommandInit, CommandTypeOK, Command, Document
<1>3. lowest =< lowest
  BY <1>2, OperatorAssumption DEF CommandTypeOK
<1>4. DocumentOnEndorsed /\ AllowedByEnough
  BY <1>3 DEF CommandInit, DocumentOnEndorsed, AllowedByEnough, Recorded
<1>5. ReviewsOnEndorsed
  BY <1>1 DEF CommandInit, ReviewsOnEndorsed, GoodCopy
<1> QED
  BY <1>2, <1>4, <1>5 DEF CommandInv, CommandInit

LEMMA ReadingPreserves ==
  ASSUME CommandInv, NEW r \in Reviews,
         \/ \E p \in Operators : EndorseRead(r, p)
         \/ \E n \in Policies : SetPolicyRead(r, n)
         \/ DeclineRead(r) \/ DropReview(r)
  PROVE  CommandInv'
<1> USE DEF CommandInv
<1>1. UNCHANGED <<command, endorsed, lowest>>
  BY DEF EndorseRead, SetPolicyRead, DeclineRead, DropReview, BeginReview
<1>2. /\ command.document \in Document
      /\ command.outcome \in {"requires_approval", "allowed", "blocked"}
  BY DEF CommandTypeOK, Command
<1>3. PICK copy \in Review : review' = [review EXCEPT ![r] = copy] /\ GoodCopy(copy)
  <2>1. ASSUME NEW p \in Operators, EndorseRead(r, p)
        PROVE  \E good \in Review : review' = [review EXCEPT ![r] = good] /\ GoodCopy(good)
    <3> DEFINE document == [command.document EXCEPT !.approvals = @ \cup {p}]
               copy == [pc |-> "endorsing", by |-> p, document |-> document]
    <3>1. document \in Document /\ document.required = command.document.required
          /\ document.approvals = Recorded \cup {p}
      BY <1>2 DEF Document, Recorded
    <3>2. p # Commander /\ review' = [review EXCEPT ![r] = copy]
      BY <2>1 DEF EndorseRead, BeginReview
    <3> HIDE DEF document
    <3>3. copy \in Review /\ copy.pc = "endorsing" /\ copy.by = p /\ copy.document = document
      BY <3>1 DEF Review
    <3>4. lowest =< document.required /\ document.approvals \subseteq endorsed \cup {p}
      BY <3>1 DEF DocumentOnEndorsed
    <3> HIDE DEF copy
    <3> QED
      BY <3>2, <3>3, <3>4 DEF GoodCopy
  <2>2. ASSUME NEW n \in Policies, SetPolicyRead(r, n)
        PROVE  \E good \in Review : review' = [review EXCEPT ![r] = good] /\ GoodCopy(good)
    <3> DEFINE document == [command.document EXCEPT !.required = n]
               copy == [pc |-> "setting", by |-> NoOperator, document |-> document]
    <3>1. document \in Document /\ document.approvals = Recorded
      BY <1>2 DEF Document, Recorded
    <3>2. review' = [review EXCEPT ![r] = copy]
      BY <2>2 DEF SetPolicyRead, BeginReview
    <3> HIDE DEF document
    <3>3. copy \in Review /\ copy.pc = "setting" /\ copy.document = document
      BY <3>1 DEF Review
    <3> HIDE DEF copy
    <3> QED
      BY <3>1, <3>2, <3>3 DEF DocumentOnEndorsed, GoodCopy
  <2>3. CASE DeclineRead(r)
    <3> DEFINE copy == [pc |-> "declining", by |-> NoOperator, document |-> command.document]
    <3>1. review' = [review EXCEPT ![r] = copy]
      BY <2>3 DEF DeclineRead, BeginReview
    <3>2. copy \in Review /\ copy.pc = "declining" /\ copy.document = command.document
      BY <1>2 DEF Review
    <3> HIDE DEF copy
    <3> QED
      BY <3>1, <3>2 DEF DocumentOnEndorsed, Recorded, GoodCopy
  <2>4. CASE DropReview(r)
    BY <2>4, ClosedType DEF DropReview, EndReview, GoodCopy
  <2> QED
    BY <2>1, <2>2, <2>3, <2>4
<1>4. CommandTypeOK'
  BY <1>1, <1>3 DEF CommandTypeOK
<1>5. \A d \in Reviews : review'[d] = IF d = r THEN copy ELSE review[d]
  BY <1>3 DEF CommandTypeOK
<1>6. ReviewsOnEndorsed'
  BY <1>1, <1>3, <1>5 DEF ReviewsOnEndorsed, GoodCopy
<1>7. DocumentOnEndorsed' /\ AllowedByEnough'
  BY <1>1 DEF DocumentOnEndorsed, AllowedByEnough, Recorded
<1> QED
  BY <1>1, <1>4, <1>6, <1>7

(* A document written back over whatever was committed meanwhile. *)
LEMMA WritingPreserves ==
  ASSUME CommandInv, NEW r \in Reviews, Endorse(r) \/ Decline(r) \/ SetPolicy(r)
  PROVE  /\ CommandInv'
         /\ lowest' =< lowest
         /\ \/ UNCHANGED endorsed
            \/ \E p \in Operators \ {Commander} : endorsed' = endorsed \cup {p}
<1> USE DEF CommandInv
<1> DEFINE copy == review[r]
<1>1. copy \in Review /\ copy.document \in Document
  BY DEF CommandTypeOK, Review
<1>2. PICK outcome \in {"requires_approval", "allowed", "blocked"} :
        /\ WriteBack(r, outcome)
        /\ outcome = "allowed" => Endorse(r) /\ Enough(copy.document)
  BY DEF Endorse, Decline, SetPolicy
<1>3. /\ copy.document.approvals \subseteq endorsed'
      /\ endorsed \subseteq endorsed'
      /\ Commander \notin endorsed' /\ endorsed' \subseteq Operators
      /\ \/ UNCHANGED endorsed
         \/ \E p \in Operators \ {Commander} : endorsed' = endorsed \cup {p}
  BY DEF Endorse, Decline, SetPolicy, Reviewing, ReviewsOnEndorsed, GoodCopy, CommandTypeOK
<1>4. /\ command'.document = copy.document
      /\ command'.outcome = IF outcome = "requires_approval" THEN command.outcome ELSE outcome
      /\ command' \in Command
  BY <1>1, <1>2 DEF WriteBack, CommandTypeOK, Command
<1>5. /\ lowest \in Policies /\ lowest' \in Policies
      /\ lowest' =< lowest /\ lowest' =< copy.document.required
  <2>1. copy.document.required \in Policies /\ lowest \in Policies
    BY <1>1 DEF CommandTypeOK, Document
  <2>2. copy.document.required \in Nat /\ lowest \in Nat
    BY <2>1, OperatorAssumption
  <2>3. lowest' = IF copy.document.required < lowest THEN copy.document.required ELSE lowest
    BY <1>2 DEF WriteBack
  <2> QED
    BY <2>1, <2>2, <2>3
<1>6. /\ review' = [review EXCEPT ![r] = Closed] /\ Closed \in Review /\ Closed.pc = "none"
  BY <1>2, ClosedType DEF WriteBack, EndReview
<1>7. CommandTypeOK'
  BY <1>3, <1>4, <1>5, <1>6 DEF CommandTypeOK
<1>8. DocumentOnEndorsed'
  BY <1>3, <1>4, <1>5 DEF DocumentOnEndorsed, Recorded
<1>9. ReviewsOnEndorsed'
  <2> SUFFICES ASSUME NEW d \in Reviews, d # r, review'[d] = review[d]
               PROVE  GoodCopy(review[d])'
    BY <1>6 DEF ReviewsOnEndorsed, GoodCopy, CommandTypeOK
  <2>1. review[d].document.required \in Nat /\ lowest \in Nat /\ lowest' \in Nat
    BY <1>5, OperatorAssumption DEF CommandTypeOK, Review, Document
  <2> QED
    BY <1>3, <1>5, <2>1 DEF ReviewsOnEndorsed, GoodCopy
<1>10. AllowedByEnough'
  <2>1. IsFiniteSet(endorsed') /\ Cardinality(endorsed') \in Nat
    BY <1>3, EndorsedFinite
  <2>2. lowest \in Nat /\ lowest' \in Nat /\ copy.document.required \in Nat
    BY <1>1, <1>5, OperatorAssumption DEF Document
  <2>3. CASE outcome = "requires_approval" /\ command.outcome = "allowed"
    <3>1. Cardinality(endorsed) \in Nat /\ Cardinality(endorsed) =< Cardinality(endorsed')
      BY <1>3, <2>1, MorePeople
    <3> QED
      BY <1>5, <2>1, <2>2, <2>3, <3>1 DEF AllowedByEnough
  <2>4. CASE outcome = "allowed"
    <3>1. Cardinality(copy.document.approvals) \in Nat
          /\ Cardinality(copy.document.approvals) =< Cardinality(endorsed')
      BY <1>3, <2>1, MorePeople
    <3>2. Cardinality(copy.document.approvals) >= copy.document.required
      BY <1>2, <2>4 DEF Enough
    <3> HIDE DEF copy
    <3> QED
      BY <1>5, <2>1, <2>2, <3>1, <3>2 DEF AllowedByEnough
  <2>5. CASE outcome # "allowed" /\ ~(outcome = "requires_approval" /\ command.outcome = "allowed")
    BY <1>4, <2>5 DEF AllowedByEnough
  <2> QED
    BY <2>3, <2>4, <2>5
<1> QED
  BY <1>3, <1>5, <1>7, <1>8, <1>9, <1>10

LEMMA CommandAlways == CommandSpec => []CommandInv
<1>1. ASSUME CommandInv, [CommandNext]_commandVars PROVE CommandInv'
  <2>1. CASE \E r \in Reviews : Endorse(r) \/ Decline(r) \/ SetPolicy(r)
    BY <1>1, <2>1, WritingPreserves
  <2>2. CASE \E r \in Reviews :
               \/ \E p \in Operators : EndorseRead(r, p)
               \/ \E n \in Policies : SetPolicyRead(r, n)
               \/ DeclineRead(r) \/ DropReview(r)
    BY <1>1, <2>2, ReadingPreserves
  <2>3. CASE UNCHANGED commandVars
    BY <1>1, <2>3
    DEF commandVars, CommandInv, CommandTypeOK, DocumentOnEndorsed, Recorded,
        ReviewsOnEndorsed, GoodCopy, AllowedByEnough
  <2> QED
    BY <1>1, <2>1, <2>2, <2>3 DEF CommandNext
<1> QED
  BY <1>1, CommandInitially, PTL DEF CommandSpec

LEMMA CommandCardinality == ASSUME NEW S PROVE CommandGate!Cardinality(S) = Cardinality(S)
BY DEF CommandGate!Cardinality, Cardinality

(* A command is allowed only on as many approvals of others as were required  *)
(* at least, whichever documents were overwritten.                            *)
THEOREM AllowedByQuorum == CommandSpec => []CommandGate!OpenByQuorum
<1>1. CommandInv => CommandGate!OpenByQuorum
  BY CommandCardinality DEF CommandInv, AllowedByEnough, CommandGate!OpenByQuorum
<1> QED
  BY <1>1, CommandAlways, PTL

(* Documents that overwrite each other lose approvals and never invent one:   *)
(* the console opens a command as the gate does, whatever the policies are.   *)
THEOREM CommandImplementsGate == CommandSpec => CommandConsent
<1>1. CommandInit => CommandGate!GateInit
  BY OperatorAssumption DEF CommandInit, CommandGate!GateInit
<1>2. ASSUME CommandInv, CommandInv', [CommandNext]_commandVars
      PROVE  [CommandGate!GateNext]_(CommandGate!gateVars)
  <2> DEFINE opened == command.outcome = "allowed"
  <2>1. /\ lowest' \in 0 .. lowest
        /\ \/ UNCHANGED endorsed
           \/ \E p \in Operators \ {Commander} : endorsed' = endorsed \cup {p}
    <3>1. lowest \in Nat /\ lowest' \in Nat
      BY <1>2, OperatorAssumption DEF CommandInv, CommandTypeOK
    <3>2. CASE \E r \in Reviews : Endorse(r) \/ Decline(r) \/ SetPolicy(r)
      BY <1>2, <3>1, <3>2, WritingPreserves
    <3>3. CASE UNCHANGED <<endorsed, lowest>>
      BY <3>1, <3>3
    <3> QED
      BY <1>2, <3>2, <3>3
      DEF CommandNext, commandVars, EndorseRead, SetPolicyRead, DeclineRead, DropReview,
          BeginReview
  <2>2. CASE opened'
    BY <1>2, <2>1, <2>2, CommandCardinality
    DEF CommandInv, AllowedByEnough, CommandGate!GateNext, CommandGate!Consent,
        CommandGate!Relax, CommandGate!Open
  <2>3. CASE ~opened'
    BY <2>1, <2>3
    DEF CommandGate!GateNext, CommandGate!Consent, CommandGate!Relax, CommandGate!Close
  <2> QED
    BY <2>2, <2>3
<1> QED
  BY <1>1, <1>2, CommandAlways, PTL DEF CommandSpec, CommandConsent, CommandGate!GateSpec
=============================================================================
