------------------------------ MODULE MCCommits ------------------------------
(* Instance for TLC of two components whose requests commit step by step what *)
(* they decided on earlier reads: the timeline of a job, with its readers and *)
(* its browser task, and the regeneration of a node.  They share nothing, so  *)
(* a behaviour of the instance is a behaviour of one of them, its part, while *)
(* the other stays in its initial state.                                      *)
EXTENDS CoworkBrowser, Regeneration, TLC

CONSTANTS s1, s2, c1, d1, d2, q1, q2, q3, g1, g2, g3, ann, bob

TwoSessions   == {s1, s2}
OneClient     == {c1}
Responses     == {d1, d2}
ThreeRequests == {q1, q2, q3}
ThreeRuns     == {g1, g2, g3}
TwoPeople     == {ann, bob}
Symmetry      == Permutations(TwoSessions) \cup Permutations(ThreeRequests)

VARIABLE part

commits == <<browserVars, regenerationVars, part>>

CommitsInit ==
  part \in {"timeline", "regeneration"} /\ BrowserInit /\ RegenerationInit

TimelineMoves ==
  part = "timeline" /\ BrowserNext /\ UNCHANGED regenerationVars
RegenerationMoves ==
  part = "regeneration" /\ RegenerationNext /\ UNCHANGED browserVars

CommitsNext == (TimelineMoves \/ RegenerationMoves) /\ UNCHANGED part

CommitsSpec == CommitsInit /\ [][CommitsNext]_commits
=============================================================================
