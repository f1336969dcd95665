---------------------------- MODULE ConsentGate ----------------------------
(* What every gate of the backend promises, without the row, the requests or  *)
(* their copies: something its initiator asks for is open only while a quorum *)
(* of other people has consented to it.  A consent is never withdrawn; what   *)
(* is open may be closed, and opened again on the same consents.              *)
EXTENDS Naturals, FiniteSets

CONSTANTS
  People,     \* a finite set
  Initiator

VARIABLES
  quorum,    \* how many consents are asked for
  consents,  \* who consented
  open

gateVars == <<quorum, consents, open>>

GateInit == quorum \in Nat /\ consents = {} /\ (open => quorum = 0)

Consent ==
  \E p \in People \ {Initiator} : consents' = consents \cup {p}

Relax == quorum' \in 0 .. quorum

Open  == open' = TRUE /\ Cardinality(consents') >= quorum'
Close == open' = FALSE

(* One durable step may record a consent and open the gate with it. *)
GateNext ==
  /\ UNCHANGED consents \/ Consent
  /\ Relax
  /\ UNCHANGED open \/ Close \/ Open

GateSpec == GateInit /\ [][GateNext]_gateVars

OpenByQuorum ==
  open => Cardinality(consents) >= quorum /\ Initiator \notin consents
=============================================================================
