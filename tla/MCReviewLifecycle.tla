------------------------- MODULE MCReviewLifecycle -------------------------
(* Instances of ReviewLifecycle for TLC: a few runs of one package, at     *)
(* most one `summary` command, a fault or two.                             *)
EXTENDS ReviewLifecycle, TLC

CONSTANTS r1, r2, r3, reader

OneRun == {r1}
TwoRuns == {r1, r2}
ThreeRuns == {r1, r2, r3}
OneReader == {reader}
PlainOnly == {TRUE}
AnyPayload == BOOLEAN

RunSymmetry == Permutations(Runs)
=============================================================================
