------------------------------ MODULE MCPlexus ------------------------------
(* Instance of Plexus for TLC. *)
EXTENDS Plexus, TLC

CONSTANTS m1, m2, r1, r2, r3, ann, bob, cyd

TwoMessages   == {m1, m2}
ThreeRequests == {r1, r2, r3}
Persons       == {ann, bob, cyd}
Symmetry == Permutations(TwoMessages) \cup Permutations(ThreeRequests)
              \cup Permutations(Persons)
=============================================================================
