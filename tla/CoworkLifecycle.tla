--------------------------- MODULE CoworkLifecycle ---------------------------
(* What a client of the Cowork API may rely on, without the row, the lease,   *)
(* the sessions or the processes: one job with a state and an outcome, driven *)
(* by at most one runner, which only passes through stages the table allows.  *)
EXTENDS CoworkStates

VARIABLES state, outcome, driven

vars == <<state, outcome, driven>>

Edge(s, t) == s = t \/ CanTransition(s, t)

(* One durable step may pass through up to two stages that are never stored. *)
Near(s) == {s} \cup Forward[s]
Passes(s, t) == \E a \in Near(s) : \E b \in Near(a) : Edge(b, t)

Init == state = "queued" /\ outcome = "none" /\ driven = FALSE

Take == ~driven /\ driven' = TRUE /\ UNCHANGED <<state, outcome>>

(* The runner moves on, or comes to a point where it waits for a human. *)
Advance ==
  /\ driven
  /\ state' \in AllStates \ TerminalStates /\ Passes(state, state')
  /\ driven' \in BOOLEAN
  /\ UNCHANGED outcome

Finish ==
  /\ driven /\ driven' = FALSE
  /\ state' = "completed" /\ Passes(state, "completed")
  /\ outcome' \in {"completed_verified", "completed_with_failures",
                   "completed_unverified"}

Fail ==
  /\ driven /\ driven' = FALSE
  /\ state' = IF state \in TerminalStates THEN state ELSE "failed"
  /\ UNCHANGED outcome

Die == driven /\ driven' = FALSE /\ UNCHANGED <<state, outcome>>

Cancel ==
  /\ ~driven /\ state \notin TerminalStates
  /\ state' = "cancelled" /\ UNCHANGED <<outcome, driven>>

Requeue == ~driven /\ state' = "queued" /\ UNCHANGED <<outcome, driven>>

Next == Take \/ Advance \/ Finish \/ Fail \/ Die \/ Cancel \/ Requeue

Spec == Init /\ [][Next]_vars
=============================================================================
