---------------------------- MODULE MCCoworkJob ----------------------------
(* Instances of CoworkJob for TLC: values for the constants a cfg cannot say. *)
EXTENDS CoworkJob, TLC

CONSTANTS w1, w2

OneWorker  == {w1}
TwoWorkers == {w1, w2}
Symmetry   == Permutations(TwoWorkers)

(* What detect_commands returns when the moves between the commands are all   *)
(* in the table (nothing; npm lint and then pytest), and for a package.json    *)
(* that declares test and lint.                                               *)
OrderlyPlans == {<<>>, <<"other", "test">>}
NpmPlans     == {<<"test", "other">>}
=============================================================================
