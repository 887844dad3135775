---------------------------- MODULE MCFullReview ----------------------------
(* Instances of FullReview for TLC: a few files, one or two invocations.   *)
EXTENDS FullReview

CONSTANTS f1, f2

TwoRuns == {f1, f2}
TwoOutcomes == {"ACCEPT", "ESCALATE"}
=============================================================================
