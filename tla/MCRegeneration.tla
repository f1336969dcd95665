--------------------------- MODULE MCRegeneration ---------------------------
(* Instances of Regeneration for TLC, by itself. *)
EXTENDS Regeneration

CONSTANTS g1, g2, q1, q2, ann, bob

OneRun      == {g1}
TwoRuns     == {g1, g2}
OneRequest  == {q1}
TwoRequests == {q1, q2}
Persons     == {ann, bob}
=============================================================================
